---------------------------- MODULE ResultReader ----------------------------
(***************************************************************************)
(* collect_generation of crates/inference-frontend, the unary Generate: it *)
(* folds the result stream from 0-0 to the first terminal event into one   *)
(* response.  The text is the sequence of chunks it appended, each named   *)
(* by its attempt and number.                                              *)
(***************************************************************************)
EXTENDS Naturals, Sequences

\* One turn of the loop over an entry of the stream; 0 is the empty attempt id.
Read(reader, event) ==
  CASE event.kind = "started" ->
         [reader EXCEPT !.text = IF reader.current \in {0, event.attempt} THEN @ ELSE <<>>,
                        !.current = event.attempt]
    [] event.kind = "token" ->
         [reader EXCEPT !.text = Append(@, <<event.attempt, event.n>>)]
    [] event.kind = "completed" ->
         [reader EXCEPT !.answer = "complete", !.by = event.attempt, !.tokens = event.n]
    [] event.kind = "failed" ->
         [reader EXCEPT !.answer = "error"]

\* The loop: it stops at the first answer.
Collect(s) ==
  LET reader[i \in 0..Len(s)] ==
        IF i = 0
          THEN [text |-> <<>>, current |-> 0, answer |-> "none", by |-> 0, tokens |-> 0]
        ELSE IF reader[i - 1].answer # "none" THEN reader[i - 1]
        ELSE Read(reader[i - 1], s[i])
  IN reader[Len(s)]
=============================================================================
