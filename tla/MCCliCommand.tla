---------------------------- MODULE MCCliCommand ----------------------------
(* Instances of CliCommand for TLC. *)
EXTENDS CliCommand

\* "A1", "-", "1", "fx": a key, the standard stream, a size, and no hex.
MCValue == {<<65, 49>>, <<45>>, <<49>>, <<102, 120>>}

\* fx holds a key between a blank and a newline, 1 nothing.
MCFile == <<102, 120>> :> <<32, 65, 49, 10>> @@ <<49>> :> << >>

\* Short texts over A Q a - _ + / = and a byte above 127, longer ones over Q _ =, and hex
\* digits of both cases with what lies beside them.
MCText ==
    SeqOf({65, 81, 97, 45, 95, 43, 47, 61, 200}, 3)
        \cup [1..4 -> {65, 81, 95, 43, 61}] \cup UNION {[1..n -> {81, 95, 61}] : n \in 5..8}
        \cup SeqOf({48, 57, 58, 97, 102, 103, 65, 70, 71, 0, 255}, 3)

\* Sizes with leading zeros and signs, out of range, and not a number.
MCSize == SeqOf({43, 48, 49, 53, 120}, 2) \cup {<<55>>, <<56>>, <<48, 48, 55>>}
=============================================================================
