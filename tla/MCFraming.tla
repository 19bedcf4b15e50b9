----------------------------- MODULE MCFraming ------------------------------
(***************************************************************************)
(* Instances of Framing for TLC: bytes are bits, the length takes two, and *)
(* the payloads have every length from none to the most it can say.        *)
(***************************************************************************)
EXTENDS Framing

Payloads == {<<>>, <<1>>, <<0, 1>>, <<1, 0, 1>>}
\* No message serializes to nothing.
TextPayloads == {<<0, 1>>, <<1, 0, 1>>}

\* Lengths of as many bytes as the code's, with digits of a smaller base.
FourBytes == INSTANCE Framing WITH Base <- 4, HeaderLen <- 4
ASSUME LengthsAssumption == LengthsReadBack /\ FourBytes!LengthsReadBack
=============================================================================
