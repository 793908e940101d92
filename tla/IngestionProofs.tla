--------------------------- MODULE IngestionProofs ---------------------------
(***************************************************************************)
(* Proofs about Ingestion.tla for any feed, any number of overlapping runs *)
(* and chunks, and either kind of dedup store: no chunk is upserted twice, *)
(* and a recorded document is complete unless its handling was cut short.  *)
(***************************************************************************)
EXTENDS Ingestion, TLAPS

(* Between two awaits one run has the event loop to itself.                *)
OneHandles == \A r, s \in Runs : pc[r] = "upsert" /\ pc[s] = "upsert" => r = s

(* The document it handles is recorded, and has chunks left to upsert.     *)
AtHandOK ==
    \A r \in Runs : pc[r] = "upsert" =>
      /\ next[r] <= Len(Feed)
      /\ Content(r) \in seen
      /\ chunk < NumChunks[Content(r)]
      /\ \A k \in 1..NumChunks[Content(r)] :
            upserts[Content(r)][k] = IF k <= chunk THEN 1 ELSE 0

(* What is not recorded was not upserted since the last reset.             *)
UnseenUntouched ==
    \A c \in Contents \ seen : \A k \in 1..NumChunks[c] : upserts[c][k] = 0

IInv == /\ TypeOK /\ DOMAIN upserts = Contents
        /\ OneHandles /\ AtHandOK /\ UnseenUntouched
        /\ AtMostOnce /\ CompleteUnlessCut

LEMMA FeedTypes ==
  ASSUME NEW n \in 1..(Len(Feed) + 1), n <= Len(Feed)
  PROVE  Feed[n] \in Contents /\ NumChunks[Feed[n]] \in Nat /\ n + 1 \in 1..(Len(Feed) + 1)
  BY IngestionAssumption

LEMMA NoUpsertsTypes ==
  /\ DOMAIN NoUpserts = Contents
  /\ \A c \in Contents : /\ NoUpserts[c] \in [1..NumChunks[c] -> Nat]
                         /\ \A k \in 1..NumChunks[c] : NoUpserts[c][k] = 0
  BY DEF NoUpserts

LEMMA IInvInit == Init => IInv
<1> SUFFICES ASSUME Init PROVE IInv
  OBVIOUS
<1>1. TypeOK /\ DOMAIN upserts = Contents
  BY NoUpsertsTypes, IngestionAssumption DEF Init, TypeOK
<1>2. OneHandles /\ AtHandOK /\ UnseenUntouched /\ AtMostOnce /\ CompleteUnlessCut
  BY NoUpsertsTypes DEF Init, OneHandles, AtHandOK, UnseenUntouched, AtMostOnce, CompleteUnlessCut
<1> QED
  BY <1>1, <1>2 DEF IInv

(* A step that only moves runs that handle no document keeps everything.   *)
LEMMA Moves ==
  ASSUME IInv, NEW r \in Runs, pc[r] # "upsert",
         NEW l \in {"idle", "fetch"}, NEW n \in 1..(Len(Feed) + 1),
         pc' = [pc EXCEPT ![r] = l], next' = [next EXCEPT ![r] = n],
         UNCHANGED <<chunk, seen, upserts, aborted>>
  PROVE  IInv'
<1> USE DEF IInv, TypeOK
<1>1. TypeOK' /\ (DOMAIN upserts)' = Contents
  OBVIOUS
<1>2. \A s \in Runs : pc'[s] = "upsert" => /\ s # r /\ pc[s] = "upsert"
                                           /\ next'[s] = next[s]
  OBVIOUS
<1>3. OneHandles' /\ UnseenUntouched' /\ AtMostOnce'
  BY <1>2 DEF OneHandles, UnseenUntouched, AtMostOnce
<1>4. AtHandOK'
  BY <1>2 DEF AtHandOK, Content
<1>5. \A c : AtHand(c)' <=> AtHand(c)
  BY <1>2 DEF AtHand, Content
<1>6. CompleteUnlessCut'
  BY <1>5 DEF CompleteUnlessCut, AllUpserted
<1> QED
  BY <1>1, <1>3, <1>4, <1>6

(* A new document is recorded, by a run that has the loop to itself.       *)
LEMMA Accepts ==
  ASSUME IInv, NEW r \in Runs, Accept(r)
  PROVE  IInv'
<1> USE DEF IInv, TypeOK
<1> DEFINE c == Content(r)
<1>1. /\ pc[r] = "fetch" /\ \A s \in Runs : pc[s] # "upsert"
      /\ c \in Contents \ seen /\ NumChunks[c] \in Nat
      /\ next[r] <= Len(Feed) /\ next[r] + 1 \in 1..(Len(Feed) + 1)
      /\ seen' = seen \cup {c} /\ UNCHANGED <<upserts, aborted>>
  BY FeedTypes DEF Accept, AtDocument, LoopIsFree, Content
<1>2. \A k \in 1..NumChunks[c] : upserts[c][k] = 0
  BY <1>1 DEF UnseenUntouched
<1>3. UnseenUntouched' /\ AtMostOnce'
  BY <1>1 DEF UnseenUntouched, AtMostOnce
<1>4. CASE NumChunks[c] = 0
  <2>1. UNCHANGED <<pc, chunk>> /\ next' = [next EXCEPT ![r] = @ + 1]
    BY <1>4 DEF Accept, Advance
  <2>2. TypeOK' /\ (DOMAIN upserts)' = Contents
    BY <1>1, <2>1
  <2>3. OneHandles' /\ AtHandOK'
    BY <1>1, <2>1 DEF OneHandles, AtHandOK
  <2>4. \A d : ~AtHand(d) /\ ~AtHand(d)'
    BY <1>1, <2>1 DEF AtHand
  <2>5. CompleteUnlessCut'
    BY <1>1, <1>4, <2>4 DEF CompleteUnlessCut, AllUpserted
  <2> QED
    BY <1>3, <2>2, <2>3, <2>5
<1>5. CASE NumChunks[c] # 0
  <2>1. pc' = [pc EXCEPT ![r] = "upsert"] /\ chunk' = 0 /\ UNCHANGED next
    BY <1>5 DEF Accept, Goto
  <2>2. TypeOK' /\ (DOMAIN upserts)' = Contents
    BY <1>1, <2>1
  <2>3. OneHandles'
    BY <1>1, <2>1 DEF OneHandles
  <2>4. AtHandOK'
    BY <1>1, <1>2, <1>5, <2>1 DEF AtHandOK, Content
  <2>5. /\ \A d : ~AtHand(d)
        /\ \A d : AtHand(d)' <=> d = c
    BY <1>1, <2>1 DEF AtHand, Content
  <2>6. CompleteUnlessCut'
    BY <1>1, <1>2, <2>1, <2>5 DEF CompleteUnlessCut, AllUpserted
  <2> QED
    BY <1>3, <2>2, <2>3, <2>4, <2>6
<1> QED
  BY <1>4, <1>5

(* One more chunk is upserted; with the last the document is complete.     *)
LEMMA Upserts ==
  ASSUME IInv, NEW r \in Runs, Upsert(r)
  PROVE  IInv'
<1> USE DEF IInv, TypeOK
<1> DEFINE c == Content(r)
<1>1. /\ pc[r] = "upsert" /\ c \in seen /\ c \in Contents
      /\ NumChunks[c] \in Nat /\ chunk + 1 \in 1..NumChunks[c]
      /\ next[r] <= Len(Feed) /\ next[r] + 1 \in 1..(Len(Feed) + 1)
      /\ \A s \in Runs : pc[s] = "upsert" => s = r
      /\ UNCHANGED <<seen, aborted>> /\ chunk' = chunk + 1
    BY FeedTypes DEF Upsert, AtHandOK, OneHandles, Content
<1>2. upserts' = [upserts EXCEPT ![c][chunk + 1] = @ + 1]
  BY DEF Upsert
<1>3. \A k \in 1..NumChunks[c] : upserts[c][k] = IF k <= chunk THEN 1 ELSE 0
  BY <1>1 DEF AtHandOK
<1>4. \A k \in 1..NumChunks[c] : upserts'[c][k] = IF k <= chunk + 1 THEN 1 ELSE 0
  <2>1. upserts[c] \in [1..NumChunks[c] -> Nat] /\ upserts'[c] = [upserts[c] EXCEPT ![chunk + 1] = @ + 1]
    BY <1>1, <1>2
  <2> QED
    BY <1>1, <1>3, <2>1
<1>5. \A d \in Contents \ {c} : upserts'[d] = upserts[d]
  BY <1>1, <1>2
<1>6. (DOMAIN upserts)' = Contents /\ \A d \in Contents : upserts'[d] \in [1..NumChunks[d] -> Nat]
  <2>1. upserts'[c] \in [1..NumChunks[c] -> Nat]
    <3>1. upserts[c] \in [1..NumChunks[c] -> Nat] /\ upserts'[c] = [upserts[c] EXCEPT ![chunk + 1] = @ + 1]
      BY <1>1, <1>2
    <3> QED
      BY <1>1, <3>1
  <2>2. (DOMAIN upserts)' = Contents
    BY <1>2
  <2> QED
    BY <1>5, <2>1, <2>2
<1>7. UnseenUntouched' /\ AtMostOnce'
  <2>1. UnseenUntouched'
    BY <1>1, <1>5 DEF UnseenUntouched
  <2>2. ASSUME NEW d \in Contents, NEW k \in 1..NumChunks[d] PROVE upserts'[d][k] <= 1
    <3>1. CASE d = c
      <4>1. k <= chunk + 1 \/ ~(k <= chunk + 1)
        OBVIOUS
      <4> QED
        BY <1>4, <3>1, <4>1
    <3>2. CASE d # c
      BY <1>5, <3>2 DEF AtMostOnce
    <3> QED
      BY <3>1, <3>2
  <2> QED
    BY <2>1, <2>2 DEF AtMostOnce
<1>8. \A d : AtHand(d) <=> d = c
  BY <1>1 DEF AtHand
<1>9. CASE chunk + 1 = NumChunks[c]
  <2>1. pc' = [pc EXCEPT ![r] = "fetch"] /\ next' = [next EXCEPT ![r] = @ + 1]
    BY <1>9 DEF Upsert, Goto, Advance
  <2>2. TypeOK'
    BY <1>1, <1>6, <2>1
  <2>3. OneHandles' /\ AtHandOK' /\ \A d : ~AtHand(d)'
    BY <1>1, <2>1 DEF OneHandles, AtHandOK, AtHand
  <2>4. \A k \in 1..NumChunks[c] : upserts'[c][k] > 0
    BY <1>1, <1>4, <1>9
  <2>5. ASSUME NEW d \in seen \ aborted PROVE \A k \in 1..NumChunks[d] : upserts'[d][k] > 0
    BY <1>5, <1>8, <2>4 DEF CompleteUnlessCut, AllUpserted
  <2>6. CompleteUnlessCut'
    BY <1>1, <2>3, <2>5 DEF CompleteUnlessCut, AllUpserted
  <2> QED
    BY <1>6, <1>7, <2>2, <2>3, <2>6
<1>10. CASE chunk + 1 # NumChunks[c]
  <2>1. UNCHANGED <<pc, next>>
    BY <1>10 DEF Upsert
  <2>2. TypeOK'
    BY <1>1, <1>6, <2>1
  <2>3. OneHandles' /\ \A d : AtHand(d)' <=> d = c
    BY <1>1, <2>1 DEF OneHandles, AtHand, Content
  <2>4. AtHandOK'
    BY <1>1, <1>4, <1>10, <2>1 DEF AtHandOK, Content
  <2>5. \A k \in 1..NumChunks[c] : upserts'[c][k] > 0 <=> k <= chunk'
    BY <1>1, <1>4
  <2>6. CompleteUnlessCut'
    BY <1>1, <1>5, <1>8, <2>3, <2>5 DEF CompleteUnlessCut, AllUpserted
  <2> QED
    BY <1>6, <1>7, <2>2, <2>3, <2>4, <2>6
<1> QED
  BY <1>9, <1>10

LEMMA IInvNext == IInv /\ [Next]_vars => IInv'
<1> SUFFICES ASSUME IInv, [Next]_vars PROVE IInv'
  OBVIOUS
<1> USE DEF IInv, TypeOK
<1>1. ASSUME NEW r \in Runs, Start(r) \/ FeedExhausted(r) \/ FetchRaises(r) PROVE IInv'
  <2>1. PICK l \in {"idle", "fetch"}, n \in 1..(Len(Feed) + 1) :
           /\ pc' = [pc EXCEPT ![r] = l] /\ next' = [next EXCEPT ![r] = n]
           /\ pc[r] # "upsert" /\ UNCHANGED <<chunk, seen, upserts, aborted>>
    <3>1. CASE Start(r)
      BY <3>1 DEF Start, Goto
    <3>2. CASE FeedExhausted(r) \/ FetchRaises(r)
      <4>1. next' = [next EXCEPT ![r] = next[r]] /\ next[r] \in 1..(Len(Feed) + 1)
        BY <3>2 DEF FeedExhausted, FetchRaises
      <4> QED
        BY <3>2, <4>1 DEF FeedExhausted, FetchRaises, Goto
    <3> QED
      BY <1>1, <3>1, <3>2
  <2> QED
    BY <2>1, Moves
<1>2. ASSUME NEW r \in Runs, SkipSeen(r) \/ ParseFails(r) PROVE IInv'
  <2>1. /\ pc[r] = "fetch" /\ pc' = [pc EXCEPT ![r] = "fetch"]
        /\ next' = [next EXCEPT ![r] = next[r] + 1] /\ next[r] + 1 \in 1..(Len(Feed) + 1)
        /\ UNCHANGED <<chunk, seen, upserts, aborted>>
    BY <1>2, FeedTypes DEF SkipSeen, ParseFails, AtDocument, Advance
  <2> QED
    BY <2>1, Moves
<1>3. ASSUME NEW r \in Runs, ChunkerRaises(r) PROVE IInv'
  <2>1. /\ pc[r] = "fetch" /\ Content(r) \in Contents
        /\ \A s \in Runs : pc[s] # "upsert" /\ pc'[s] # "upsert"
        /\ pc' = [pc EXCEPT ![r] = "idle"] /\ seen' = seen \cup {Content(r)}
        /\ aborted' = aborted \cup {Content(r)} /\ UNCHANGED <<next, chunk, upserts>>
    BY <1>3, FeedTypes DEF ChunkerRaises, AtDocument, LoopIsFree, Goto, Content
  <2>2. TypeOK' /\ (DOMAIN upserts)' = Contents
    BY <2>1
  <2>3. OneHandles' /\ AtHandOK' /\ UnseenUntouched' /\ AtMostOnce'
    BY <2>1 DEF OneHandles, AtHandOK, UnseenUntouched, AtMostOnce
  <2>4. \A d : ~AtHand(d) /\ ~AtHand(d)'
    BY <2>1 DEF AtHand
  <2>5. CompleteUnlessCut'
    BY <2>1, <2>4 DEF CompleteUnlessCut, AllUpserted
  <2> QED
    BY <2>2, <2>3, <2>5
<1>4. ASSUME NEW r \in Runs, UpsertRaises(r) PROVE IInv'
  <2>1. /\ pc[r] = "upsert" /\ Content(r) \in Contents
        /\ \A s \in Runs : pc[s] = "upsert" => s = r
        /\ pc' = [pc EXCEPT ![r] = "idle"] /\ aborted' = aborted \cup {Content(r)}
        /\ UNCHANGED <<next, chunk, seen, upserts>>
    BY <1>4, FeedTypes DEF UpsertRaises, Goto, AtHandOK, OneHandles, Content
  <2>2. TypeOK' /\ (DOMAIN upserts)' = Contents
    BY <2>1
  <2>3. OneHandles' /\ AtHandOK' /\ UnseenUntouched' /\ AtMostOnce'
    BY <2>1 DEF OneHandles, AtHandOK, UnseenUntouched, AtMostOnce
  <2>4. \A d : (AtHand(d) => d = Content(r)) /\ ~AtHand(d)'
    BY <2>1 DEF AtHand
  <2>5. CompleteUnlessCut'
    BY <2>1, <2>4 DEF CompleteUnlessCut, AllUpserted
  <2> QED
    BY <2>2, <2>3, <2>5
<1>5. CASE Crash
  <2>1. pc' = [s \in Runs |-> "idle"] /\ UNCHANGED <<next, chunk>>
    BY <1>5 DEF Crash
  <2>2. OneHandles' /\ AtHandOK' /\ \A d : ~AtHand(d)'
    BY <2>1 DEF OneHandles, AtHandOK, AtHand
  <2>3. CASE DedupDurable
    <3>1. aborted' = aborted \cup Cut /\ UNCHANGED <<seen, upserts>>
      BY <1>5, <2>3 DEF Crash
    <3>2. Cut \subseteq Contents /\ \A d : AtHand(d) => d \in Cut
      BY FeedTypes DEF Cut, AtHand, AtHandOK, Content
    <3>3. TypeOK' /\ (DOMAIN upserts)' = Contents /\ UnseenUntouched' /\ AtMostOnce'
      BY <2>1, <3>1, <3>2 DEF UnseenUntouched, AtMostOnce
    <3>4. CompleteUnlessCut'
      BY <2>2, <3>1, <3>2 DEF CompleteUnlessCut, AllUpserted
    <3> QED
      BY <2>2, <3>3, <3>4
  <2>4. CASE ~DedupDurable
    <3>1. aborted' = {} /\ seen' = {} /\ upserts' = NoUpserts
      BY <1>5, <2>4 DEF Crash
    <3>2. TypeOK' /\ (DOMAIN upserts)' = Contents /\ UnseenUntouched' /\ AtMostOnce'
      BY <2>1, <3>1, NoUpsertsTypes DEF UnseenUntouched, AtMostOnce
    <3>3. CompleteUnlessCut'
      BY <3>1 DEF CompleteUnlessCut
    <3> QED
      BY <2>2, <3>2, <3>3
  <2> QED
    BY <2>3, <2>4
<1>6. CASE ResetDedup
  <2>1. /\ \A r \in Runs : pc[r] # "upsert"
        /\ seen' = {} /\ upserts' = NoUpserts /\ aborted' = {} /\ UNCHANGED <<pc, next, chunk>>
    BY <1>6 DEF ResetDedup, LoopIsFree
  <2>2. TypeOK' /\ (DOMAIN upserts)' = Contents /\ UnseenUntouched' /\ AtMostOnce'
    BY <2>1, NoUpsertsTypes DEF UnseenUntouched, AtMostOnce
  <2>3. OneHandles' /\ AtHandOK' /\ CompleteUnlessCut'
    BY <2>1 DEF OneHandles, AtHandOK, CompleteUnlessCut
  <2> QED
    BY <2>2, <2>3
<1>7. CASE UNCHANGED vars
  BY <1>7 DEF vars, OneHandles, AtHandOK, UnseenUntouched, AtMostOnce, CompleteUnlessCut,
              AtHand, AllUpserted, Content
<1>8. ASSUME NEW r \in Runs, Step(r) PROVE IInv'
  <2> HIDE DEF IInv, TypeOK
  <2>1. CASE Accept(r)
    BY <2>1, Accepts
  <2>2. CASE Upsert(r)
    BY <2>2, Upserts
  <2> QED
    BY <1>1, <1>2, <1>3, <1>4, <1>8, <2>1, <2>2 DEF Step
<1> QED
  <2> HIDE DEF IInv, TypeOK
  <2> QED
    BY <1>5, <1>6, <1>7, <1>8 DEF Next

THEOREM IngestionInvariant == Spec => []IInv
  BY IInvInit, IInvNext, PTL DEF Spec

(* Every state is of the type the module declares, for any constants.      *)
THEOREM IngestionTypeCorrect == Spec => []TypeOK
  BY IngestionInvariant, PTL DEF IInv

(* No chunk is handed to the callback twice while the hashes live, however *)
(* runs overlap, documents repeat, calls raise and processes die.          *)
THEOREM NoChunkTwice == Spec => []AtMostOnce
  BY IngestionInvariant, PTL DEF IInv

(* A document that later runs skip has all its chunks upserted, unless an  *)
(* exception or a crash cut its handling short.                            *)
THEOREM RecordedIsComplete == Spec => []CompleteUnlessCut
  BY IngestionInvariant, PTL DEF IInv
=============================================================================
