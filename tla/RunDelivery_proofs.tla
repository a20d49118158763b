------------------------- MODULE RunDelivery_proofs -------------------------
(***************************************************************************)
(* What every reader of the feed can rely on, for runs of every length.    *)
(***************************************************************************)
EXTENDS RunDelivery, TLAPS

\* What was said of a number is said of one up to the cursor, and the last frame
\* is the greatest.
FeedInv ==
  /\ cursor \in Nat /\ terminal \in Nat
  /\ published \subseteq Nat \ {0}
  /\ seen \subseteq 1..cursor /\ noticed \subseteq 1..cursor
  /\ 1..cursor \subseteq seen \union noticed
  /\ seen \intersect noticed = {}
  /\ terminal # 0 => \A p \in published : p <= terminal
  /\ outcome = "terminal" => terminal # 0 /\ cursor = terminal

LEMMA FeedInit == ASSUME Init PROVE FeedInv
BY DEF Init, FeedInv

\* A reader that takes a frame, stops, or stays, whatever the run did meanwhile.
LEMMA ReaderKeeps ==
  ASSUME FeedInv, terminal' \in Nat, published' \subseteq Nat \ {0},
         terminal' # 0 => \A p \in published' : p <= terminal',
         outcome = "terminal" => terminal' = terminal,
         Take \/ Stop \/ UNCHANGED reader
  PROVE  FeedInv' /\ cursor <= cursor' /\ seen \subseteq seen'
<1> USE DEF FeedInv
<1>1. CASE Take
  BY <1>1 DEF Take
<1>2. CASE Stop
  BY <1>2 DEF Stop
<1>3. CASE UNCHANGED reader
  BY <1>3 DEF reader
<1> QED
  BY <1>1, <1>2, <1>3

LEMMA SkipKeeps ==
  ASSUME MaxSequence \in Nat, FeedInv,
         NEW n \in cursor..MaxSequence, Skip(n), UNCHANGED <<published, terminal>>
  PROVE  FeedInv' /\ cursor <= cursor' /\ seen \subseteq seen'
BY DEF FeedInv, Skip

LEMMA FeedStep ==
  ASSUME MaxSequence \in Nat, FeedInv, [Next]_vars
  PROVE  FeedInv' /\ cursor <= cursor' /\ seen \subseteq seen'
<1>1. ASSUME NEW s \in 1..MaxSequence, NEW isLast \in BOOLEAN, Produce(s, isLast)
      PROVE  FeedInv' /\ cursor <= cursor' /\ seen \subseteq seen'
  <2>1. /\ terminal' \in Nat /\ published' \subseteq Nat \ {0}
        /\ terminal' # 0 => \A p \in published' : p <= terminal'
        /\ outcome # "terminal"
    BY <1>1 DEF Produce, FeedInv
  <2> QED
    BY <1>1, <2>1, ReaderKeeps DEF Produce
<1>2. CASE Read
  <2>1. CASE Take \/ Stop
    BY <1>2, <2>1, ReaderKeeps DEF Read, FeedInv
  <2>2. CASE \E n \in cursor..MaxSequence : Skip(n)
    BY <1>2, <2>2, SkipKeeps DEF Read
  <2> QED
    BY <1>2, <2>1, <2>2 DEF Read
<1>3. CASE UNCHANGED vars
  BY <1>3, ReaderKeeps DEF vars, FeedInv
<1> QED
  BY <1>1, <1>2, <1>3 DEF Next

\* Nothing of the feed is lost in silence.
THEOREM FeedIsComplete ==
  ASSUME MaxSequence \in Nat
  PROVE  Spec => []NothingLost
<1>1. FeedInv => NothingLost
  <2> SUFFICES ASSUME FeedInv PROVE NothingLost
    OBVIOUS
  <2>1. outcome = "terminal" => published \subseteq 1..cursor
    BY DEF FeedInv
  <2> QED
    BY <2>1 DEF FeedInv, NothingLost
<1>2. FeedInv /\ [Next]_vars => FeedInv'
  BY FeedStep
<1> QED
  BY FeedInit, <1>1, <1>2, PTL DEF Spec

\* The cursor never goes back and what was seen stays seen.
THEOREM FeedGoesForward ==
  ASSUME MaxSequence \in Nat
  PROVE  Spec => Forward
<1>1. FeedInv /\ [Next]_vars => FeedInv' /\ [cursor <= cursor' /\ seen \subseteq seen']_vars
  BY FeedStep
<1> QED
  BY FeedInit, <1>1, PTL DEF Spec, Forward
=============================================================================
