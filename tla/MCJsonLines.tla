---------------------------- MODULE MCJsonLines ----------------------------
(***************************************************************************)
(* Instances of JsonLines for TLC: every stream of up to MaxLen bytes over *)
(* a newline, a byte of a greeting and a byte of a message, read in every  *)
(* possible way.                                                           *)
(***************************************************************************)
EXTENDS JsonLines, SequencesExt

CONSTANT MaxLen, g, m

MCByte == {NL, g, m}
MCInputs == BoundedSeq(MCByte, MaxLen)
MCValid == [greeting |-> {<<g>>}, messages |-> {<<m>>, <<m, m>>}]

PhaseOf(k) == IF Greeting /\ k = 1 THEN "greeting" ELSE "messages"

\* Every line is handed out, up to the first that is not what is expected in
\* its place, whatever the sizes of the reads.
LinesDelivered ==
    \A n \in 1 .. MaxItems :
      [](/\ n <= Newlines(input, Len(input))
         /\ \A k \in 1 .. n - 1 : \E s \in Valid[PhaseOf(k)] : IsLine(input, k, s)
         => <>(Len(items) >= n))
=============================================================================
