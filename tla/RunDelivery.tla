---------------------------- MODULE RunDelivery ----------------------------
(***************************************************************************)
(* What the delivery of a run promises its reader, whatever happens to the *)
(* connections: one cursor over the numbered frames of the run.  The       *)
(* reader takes the frame after its cursor, or is told which numbers it    *)
(* will never get; it never meets a frame twice and never passes one in    *)
(* silence.  RunStream implements it with a ring, a resume endpoint and    *)
(* the browser's loop (active_run_stream.go, chatApi.ts).                  *)
(***************************************************************************)
EXTENDS Integers

CONSTANT MaxSequence  \* bound on the frames of the run

VARIABLES
  published,  \* numbers of the frames the run has produced
  terminal,   \* the number of its last frame, 0 before it
  cursor,     \* the reader is through with 1..cursor
  seen,       \* frames it was given
  noticed,    \* numbers it was told it will not get
  outcome     \* "none", "terminal", "recovered" or "failed"

reader == <<cursor, seen, noticed, outcome>>
vars   == <<published, terminal, reader>>

Init ==
  /\ published = {} /\ terminal = 0
  /\ cursor = 0 /\ seen = {} /\ noticed = {} /\ outcome = "none"

\* The reader takes the frame after its cursor.  The last one completes it.
Take ==
  /\ outcome = "none"
  /\ cursor + 1 \in published' /\ cursor' = cursor + 1
  /\ seen' = seen \union {cursor'} /\ UNCHANGED noticed
  /\ outcome' = IF cursor' = terminal' THEN "terminal" ELSE "none"

\* It is told that the numbers up to n are lost, none of them still to come.
Skip(n) ==
  /\ outcome = "none" /\ (n = cursor \/ \E p \in published : n <= p)
  /\ cursor' = n /\ noticed' = noticed \union (cursor + 1)..n
  /\ UNCHANGED <<seen, outcome>>

\* It stops without the last frame: the persisted message stands in for what
\* it missed, or it has failed.
Stop ==
  /\ outcome = "none" /\ outcome' \in {"recovered", "failed"}
  /\ UNCHANGED <<cursor, seen, noticed>>

\* The run produces its next frame; a reader that keeps up may have it at once.
Produce(s, isLast) ==
  /\ terminal = 0 /\ \A p \in published : p < s
  /\ published' = published \union {s}
  /\ terminal' = IF isLast THEN s ELSE 0
  /\ Take \/ Stop \/ UNCHANGED reader

Read ==
  /\ Take \/ Stop \/ \E n \in cursor..MaxSequence : Skip(n)
  /\ UNCHANGED <<published, terminal>>

Next == Read \/ \E s \in 1..MaxSequence, isLast \in BOOLEAN : Produce(s, isLast)

Spec == Init /\ [][Next]_vars

-----------------------------------------------------------------------------
\* What the reader has of the run is without silent holes: up to its cursor it was
\* given each frame or told that it is lost, never both, and a reader that has the
\* last frame knows of every frame there is.
NothingLost ==
  /\ 1..cursor \subseteq seen \union noticed
  /\ seen \intersect noticed = {}
  /\ outcome = "terminal" => published \subseteq seen \union noticed

\* The reader never goes back, so it meets no frame a second time.
Forward == [][cursor <= cursor' /\ seen \subseteq seen']_vars
=============================================================================
