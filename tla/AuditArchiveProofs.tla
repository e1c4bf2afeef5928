------------------------- MODULE AuditArchiveProofs -------------------------
(***************************************************************************)
(* What holds of AuditArchive for any number of runs, events, leases that  *)
(* lapse and faults: the chain does not fork, nothing is lost, no conflict *)
(* is reported that damage did not cause, and each step is one of          *)
(* AuditChain or changes nothing it sees.                                  *)
(*                                                                         *)
(* The argument: a position of the chain is a row number and the hash of   *)
(* everything up to it.  A run reads a position and acts on it later; the  *)
(* positions of the chain stay positions of it, and what a run read behind *)
(* one is what is there as long as the chain still ends there.             *)
(***************************************************************************)
EXTENDS AuditArchive, FiniteSetTheorems, TLAPS

Hash == Seq(SUBSET Nat)
SealType == [first : Nat, last : Nat, segment : SUBSET Nat, prev : Hash, rolling : Hash]
IntentType == [cursor : Nat, first : Nat, last : Nat, segment : SUBSET Nat, prev : Hash, rolling : Hash]
Object == [segment : SUBSET Nat, rolling : Hash]
FaultKinds == {None, "bucket-unavailable", "segment-drift", "segment-conflict", "seal-conflict",
               "verification-failed", "anchor-conflict", "orphan"}
Reports == [kind : FaultKinds, key : (Nat \X Nat) \cup {NoKey}]
StateType == [verified : Nat, hash : Hash, anchored : Nat, fault : Reports, lease : Runners \cup {None}]
Steps == {"head", "look", "freeze", "reread", "resume", "get", "put", "seal", "twin", "verify", "anchor",
          "post", "anchored", "reconcile", "prune", "report"}
RunOK(q) == q = Idle \/ q \in [pc : Steps, read : StateType, fault : Reports, cursor : Nat, prev : Hash,
                               intent : {q.intent}, upto : Nat]
StoreTyped == /\ recorded \in Nat /\ events \subseteq 1..recorded
              /\ seals \subseteq SealType /\ intents \subseteq IntentType /\ state \in StateType
              /\ DOMAIN bucket \subseteq Nat \X Nat /\ bucket \in [DOMAIN bucket -> Object]
              /\ damaged \in BOOLEAN
RunsTyped == run = [r \in Runners |-> run[r]] /\ \A r \in Runners : RunOK(run[r])

(* Row n is where the chain, or a part of it, ends, and hash is its hash.   *)
Position(n, hash) == (n = 0 /\ hash = <<>>) \/ \E d \in seals : d.last = n /\ d.rolling = hash
(* Each seal holds one stretch of rows, and continues at a position.        *)
Link(s) == /\ 1 <= s.first /\ s.first <= s.last /\ s.last <= recorded
           /\ s.segment = s.first..s.last
           /\ s.rolling = Append(s.prev, s.segment)
           /\ Position(s.first - 1, s.prev)
Linked == \A s \in seals : Link(s)
Ordered == \A s, d \in seals : /\ d.last < s.last => d.last < s.first
                               /\ d.last = s.last => d = s
Prefixes == \A s, d \in seals : d.last < s.last =>
                Len(d.rolling) < Len(s.rolling) /\ d.rolling = SubSeq(s.rolling, 1, Len(d.rolling))
EachIsSealed == \A s \in seals : \A i \in 1..Len(s.rolling) :
                    \E d \in seals : d.last <= s.last /\ d.rolling = SubSeq(s.rolling, 1, i)
Counted == IsFiniteSet(seals) /\ \A s \in seals : Len(s.rolling) = Cardinality({d \in seals : d.last < s.last}) + 1
Covered == \A s \in seals : \A e \in 1..s.last : \E d \in seals : d.first <= e /\ e <= d.last /\ d.last <= s.last
Topped == seals = {} \/ \E h \in seals : \A s \in seals : s.last <= h.last
Chain == Linked /\ Ordered /\ Prefixes /\ EachIsSealed /\ Counted /\ Covered /\ Topped

(* An intent is the next link behind its cursor.                            *)
Stretches(i) == i \in IntentType /\ i.first = i.cursor + 1 /\ Link(i)
(* What is frozen lies at the head, at most once; a run that took it up      *)
(* finds it there or sealed.                                                *)
Frozen == /\ \A i \in intents : Stretches(i) /\ i.cursor = ChainHead
          /\ \A i, j \in intents : i = j
Honoured(i) == Stretches(i) /\ (i \in intents \/ Sealed(i, seals))
(* Rows the archive has not read back are still there.                      *)
Rows == state.verified + 1 .. recorded \subseteq events
(* What was read back is in the bucket as sealed.                           *)
Stored(s) == /\ Key(s) \in DOMAIN bucket
             /\ bucket[Key(s)].segment = s.segment /\ bucket[Key(s)].rolling = s.rolling
ReadBackStands == /\ Position(state.verified, state.hash)
                  /\ \A s \in seals : s.last <= state.verified => Stored(s)
(* Unless an object was damaged, the bucket holds what was written.         *)
Undamaged == damaged \/ /\ \A s \in seals : Stored(s)
                        /\ \A k \in DOMAIN bucket : bucket[k].segment = k[1]..k[2]
                        /\ \A i \in intents : Key(i) \in DOMAIN bucket => Stored(i)
(* Every object has its intent or its seal.                                 *)
Accounted == /\ orphans = {}
             /\ \A k \in DOMAIN bucket : (\E i \in intents : Key(i) = k) \/ \E s \in seals : Key(s) = k
(* The receiver holds the checkpoints of the seals up to a position.        *)
HandedOver(n) == \A s \in seals : s.last <= n => Checkpoint(s) \in receiver
Receiver == /\ \A c \in receiver : \E s \in seals : c = Checkpoint(s) /\ s.last <= state.verified
            /\ state.anchored <= state.verified /\ HandedOver(state.anchored)
Alarm(fault) == /\ fault.kind \notin {"seal-conflict", "anchor-conflict", "orphan"}
                /\ fault.kind \in {"segment-conflict", "verification-failed"} => damaged
(* What a run knows.                                                        *)
Knows(q) ==
    /\ Alarm(q.fault) /\ Alarm(q.read.fault)
    /\ Position(q.read.verified, q.read.hash) /\ q.read.verified <= state.verified
    /\ q.read.anchored <= q.read.verified /\ HandedOver(q.read.anchored)
    /\ q.pc \in {"look", "freeze", "reread"} => Position(q.cursor, q.prev)
    /\ q.pc \in {"freeze", "reread"} => q.intent.cursor = q.cursor
    /\ q.pc = "freeze" => (ChainHead = q.cursor => Stretches(q.intent))
    /\ q.pc \in {"resume", "get", "put", "seal", "twin"} => Honoured(q.intent)
    /\ q.pc = "seal" /\ ~damaged => Stored(q.intent)
    /\ q.pc = "twin" => Sealed(q.intent, seals)
    /\ q.pc = "post" => q.upto <= state.verified
    /\ q.pc \in {"post", "anchored"} => q.cursor <= state.verified /\ HandedOver(q.cursor)
Known == \A r \in Runners : \A q \in {run[r]} : q # Idle => Knows(q)

Store == /\ StoreTyped /\ Chain /\ Frozen /\ Rows /\ ReadBackStands /\ Undamaged /\ Accounted /\ Receiver
         /\ Alarm(state.fault)
IInv == Store /\ RunsTyped /\ Known

-----------------------------------------------------------------------------
(* Sequences.                                                               *)
LEMMA Appended ==
    ASSUME NEW S, NEW q \in Seq(S), NEW x \in S
    PROVE  /\ Append(q, x) \in Seq(S) /\ Len(Append(q, x)) = Len(q) + 1 /\ Len(q) \in Nat
           /\ Append(q, x)[Len(q) + 1] = x /\ \A i \in 1..Len(q) : Append(q, x)[i] = q[i]
  OBVIOUS

LEMMA Prefix ==
    ASSUME NEW S, NEW q \in Seq(S), NEW n \in 0..Len(q)
    PROVE  /\ SubSeq(q, 1, n) \in Seq(S) /\ Len(SubSeq(q, 1, n)) = n
           /\ \A i \in 1..n : SubSeq(q, 1, n)[i] = q[i]
  OBVIOUS

LEMMA SameSequence ==
    ASSUME NEW S, NEW p \in Seq(S), NEW q \in Seq(S), Len(p) = Len(q), \A i \in 1..Len(p) : p[i] = q[i]
    PROVE  p = q
  OBVIOUS

LEMMA WholePrefix ==
    ASSUME NEW S, NEW q \in Seq(S)
    PROVE  SubSeq(q, 1, Len(q)) = q
  BY Prefix, SameSequence

LEMMA PrefixOfAppended ==
    ASSUME NEW S, NEW q \in Seq(S), NEW x \in S, NEW n \in 0..Len(q)
    PROVE  SubSeq(Append(q, x), 1, n) = SubSeq(q, 1, n)
<1>1. Append(q, x) \in Seq(S) /\ n \in 0..Len(Append(q, x))  BY Appended
<1>2. \A i \in 1..n : Append(q, x)[i] = q[i]  BY Appended
<1> QED  BY <1>1, <1>2, Prefix, SameSequence

LEMMA PrefixOfPrefix ==
    ASSUME NEW S, NEW q \in Seq(S), NEW m \in 0..Len(q), NEW n \in 0..m
    PROVE  SubSeq(SubSeq(q, 1, m), 1, n) = SubSeq(q, 1, n)
<1>1. SubSeq(q, 1, m) \in Seq(S) /\ n \in 0..Len(SubSeq(q, 1, m)) /\ n \in 0..Len(q)  BY Prefix
<1> QED  BY <1>1, Prefix, SameSequence

LEMMA AppendedOnce ==
    ASSUME NEW S, NEW p \in Seq(S), NEW q \in Seq(S), NEW x \in S, NEW y \in S, Append(p, x) = Append(q, y)
    PROVE  p = q /\ x = y
<1>1. Len(p) = Len(q)  BY Appended
<1>2. x = y  BY <1>1, Appended
<1>3. \A i \in 1..Len(p) : p[i] = q[i]  BY <1>1, Appended
<1> QED  BY <1>1, <1>2, <1>3, SameSequence

LEMMA NoPrefix == ASSUME NEW S, NEW q \in Seq(S)  PROVE SubSeq(q, 1, 0) = <<>> /\ <<>> \in Seq(S) /\ Len(<<>>) = 0
  OBVIOUS

-----------------------------------------------------------------------------
(* The head of the chain and the positions in it.                           *)
LEMMA MaxIs ==
    ASSUME NEW S, S \subseteq Nat, NEW m \in S, \A k \in S : k <= m
    PROVE  MaxOf(S) = m
<1>1. \A n \in S : (\A k \in S : k <= n) => n = m  OBVIOUS
<1> QED  BY <1>1 DEF MaxOf

LEMMA LastIs ==
    ASSUME NEW S, S \subseteq SealType, NEW h \in S, \A s \in S : s.last <= h.last
    PROVE  MaxOf({s.last : s \in S}) = h.last
<1>1. \A s \in S : s.last \in Nat  BY DEF SealType
<1> QED  BY <1>1, MaxIs

LEMMA HeadIs ==
    ASSUME StoreTyped, Ordered, Topped
    PROVE  \/ seals = {} /\ ChainHead = 0 /\ HeadHash = <<>>
           \/ \E h \in seals : ChainHead = h.last /\ HeadHash = h.rolling /\ \A s \in seals : s.last <= h.last
<1>1. CASE seals = {}
  <2>1. {s.last : s \in seals} = {}  BY <1>1
  <2> QED  BY <1>1, <2>1 DEF ChainHead, HeadHash, MaxOf
<1>2. CASE seals # {}
  <2>1. PICK h \in seals : \A s \in seals : s.last <= h.last  BY <1>2 DEF Topped
  <2>2. ChainHead = h.last  BY <2>1, LastIs DEF ChainHead, StoreTyped
  <2>3. \A s \in seals : s.last = h.last => s = h  BY DEF Ordered
  <2>4. HeadHash = h.rolling  BY <1>2, <2>2, <2>3 DEF HeadHash
  <2> QED  BY <2>1, <2>2, <2>4
<1> QED  BY <1>1, <1>2

LEMMA HeadFacts ==
    ASSUME StoreTyped, Chain
    PROVE  /\ ChainHead \in Nat /\ Position(ChainHead, HeadHash) /\ HeadHash \in Hash /\ ChainHead <= recorded
           /\ \A s \in seals : s.last <= ChainHead /\ s.last \in Nat /\ s.first \in Nat
           /\ \A n, hash : Position(n, hash) => n \in Nat /\ n <= ChainHead /\ hash \in Hash
           /\ \A n, hash, other : Position(n, hash) /\ Position(n, other) => hash = other
<1>1. \A s \in seals : s.last \in Nat /\ s.first \in Nat /\ s.rolling \in Hash /\ 1 <= s.last /\ s.last <= recorded
  BY DEF StoreTyped, SealType, Chain, Linked, Link
<1>2. \/ seals = {} /\ ChainHead = 0 /\ HeadHash = <<>>
      \/ \E h \in seals : ChainHead = h.last /\ HeadHash = h.rolling /\ \A s \in seals : s.last <= h.last
  BY HeadIs DEF Chain
<1>3. <<>> \in Hash  BY DEF Hash
<1>4. ChainHead \in Nat /\ Position(ChainHead, HeadHash) /\ HeadHash \in Hash /\ ChainHead <= recorded
  BY <1>1, <1>2, <1>3 DEF Position, StoreTyped
<1>5. \A s \in seals : s.last <= ChainHead  BY <1>2
<1>6. \A n, hash : Position(n, hash) => n \in Nat /\ n <= ChainHead /\ hash \in Hash
  BY <1>1, <1>3, <1>4, <1>5 DEF Position
<1>7. \A n, hash, other : Position(n, hash) /\ Position(n, other) => hash = other
  BY <1>1 DEF Position, Chain, Ordered
<1> QED  BY <1>1, <1>4, <1>5, <1>6, <1>7

(* At one key there is one link.                                            *)
LEMMA SameLink ==
    ASSUME StoreTyped, Chain, NEW x, NEW y, Link(x), Link(y), Key(x) = Key(y)
    PROVE  x.segment = y.segment /\ x.rolling = y.rolling
<1>1. x.first = y.first /\ x.last = y.last  BY DEF Key
<1>2. x.prev = y.prev  BY <1>1, HeadFacts DEF Link
<1> QED  BY <1>1, <1>2 DEF Link

(* What continued at a position still does.                                 *)
LEMMA PositionsKept ==
    ASSUME seals \subseteq seals'
    PROVE  /\ \A n, hash : Position(n, hash) => Position(n, hash)'
           /\ \A s : Link(s) /\ s.last <= recorded' => Link(s)'
<1>1. \A n, hash : Position(n, hash) => Position(n, hash)'  BY DEF Position
<1> QED  BY <1>1 DEF Link

LEMMA ChainGrows ==
    ASSUME StoreTyped, Chain, UNCHANGED recorded,
           NEW n \in SealType, Link(n), n.first = ChainHead + 1, n.prev = HeadHash, seals' = seals \cup {n}
    PROVE  Chain' /\ ChainHead' = n.last /\ ChainHead < n.last
<1>1. ChainHead \in Nat /\ ChainHead < n.last /\ n.last \in Nat /\ n.first \in Nat  BY HeadFacts DEF SealType, Link
<1>2. \A s \in seals : s.last < n.first /\ s.last < n.last /\ s.last \in Nat /\ s.first \in Nat  BY <1>1, HeadFacts
<1>3. Linked'
  <2>1. \A s \in seals' : Link(s) /\ s.last <= recorded  BY DEF Chain, Linked, Link
  <2> QED  BY <2>1, PositionsKept DEF Linked
<1>4. Ordered'  BY <1>2, <1>1 DEF Chain, Ordered
<1>5. /\ n.rolling = Append(HeadHash, n.segment) /\ n.segment \in SUBSET Nat /\ HeadHash \in Seq(SUBSET Nat)
      /\ n.rolling \in Seq(SUBSET Nat) /\ \A s \in seals : s.rolling \in Seq(SUBSET Nat)
  BY HeadFacts DEF Link, SealType, StoreTyped, Hash
<1>6. Len(n.rolling) = Len(HeadHash) + 1 /\ Len(HeadHash) \in Nat  BY <1>5, Appended
<1>7. \/ seals = {} /\ ChainHead = 0 /\ HeadHash = <<>>
      \/ \E h \in seals : ChainHead = h.last /\ HeadHash = h.rolling /\ \A s \in seals : s.last <= h.last
  BY HeadIs DEF Chain
<1>8. \A d \in seals : /\ Len(d.rolling) \in Nat /\ Len(d.rolling) <= Len(HeadHash)
                       /\ d.rolling = SubSeq(HeadHash, 1, Len(d.rolling))
  <2> SUFFICES ASSUME NEW d \in seals
               PROVE  /\ Len(d.rolling) \in Nat /\ Len(d.rolling) <= Len(HeadHash)
                      /\ d.rolling = SubSeq(HeadHash, 1, Len(d.rolling))
    OBVIOUS
  <2>1. PICK h \in seals : ChainHead = h.last /\ HeadHash = h.rolling /\ \A s \in seals : s.last <= h.last  BY <1>7
  <2>2. CASE d = h  BY <1>5, <1>6, <2>1, <2>2, WholePrefix
  <2>3. CASE d # h
    <3>1. d.last < h.last  BY <1>2, <2>1, <2>3 DEF Chain, Ordered
    <3>2. Len(d.rolling) \in Nat  BY <1>5, Appended
    <3> QED  BY <1>6, <2>1, <3>1, <3>2 DEF Chain, Prefixes
  <2> QED  BY <2>2, <2>3
<1>9. \A d \in seals : /\ Len(d.rolling) < Len(n.rolling) /\ d.rolling = SubSeq(n.rolling, 1, Len(d.rolling))
  BY <1>5, <1>6, <1>8, PrefixOfAppended
<1>10. Prefixes'  BY <1>1, <1>2, <1>9 DEF Chain, Prefixes
<1>11. EachIsSealed'
  <2>1. ASSUME NEW i \in 1..Len(n.rolling)
        PROVE  \E d \in seals' : d.last <= n.last /\ d.rolling = SubSeq(n.rolling, 1, i)
    <3>1. CASE i = Len(n.rolling)  BY <1>1, <1>5, <3>1, WholePrefix
    <3>2. CASE i # Len(n.rolling)
      <4>1. i \in 1..Len(HeadHash)  BY <1>6, <3>2
      <4>2. HeadHash # <<>>  BY <4>1, NoPrefix
      <4>3. PICK h \in seals : HeadHash = h.rolling /\ h.last < n.last  BY <1>2, <1>7, <4>2
      <4>4. PICK d \in seals : d.last <= h.last /\ d.rolling = SubSeq(HeadHash, 1, i)
        BY <4>1, <4>3 DEF Chain, EachIsSealed
      <4>5. SubSeq(n.rolling, 1, i) = SubSeq(HeadHash, 1, i)  BY <1>5, <4>1, <1>6, PrefixOfAppended
      <4> QED  BY <1>1, <1>2, <4>3, <4>4, <4>5
    <3> QED  BY <3>1, <3>2
  <2>2. \A s \in seals : \A i \in 1..Len(s.rolling) :
          \E d \in seals' : d.last <= s.last /\ d.rolling = SubSeq(s.rolling, 1, i)
    BY DEF Chain, EachIsSealed
  <2> QED  BY <2>1, <2>2 DEF EachIsSealed
<1>12. Counted'
  <2>1. IsFiniteSet(seals)  BY DEF Chain, Counted
  <2>2. IsFiniteSet(seals')  BY <2>1, FS_AddElement
  <2>3. \A s \in seals : {d \in seals' : d.last < s.last} = {d \in seals : d.last < s.last}  BY <1>1, <1>2
  <2>4. {d \in seals' : d.last < n.last} = seals  BY <1>1, <1>2
  <2>5. Len(HeadHash) = Cardinality(seals)
    <3>1. CASE seals = {}  BY <1>7, <3>1, FS_EmptySet, NoPrefix
    <3>2. CASE seals # {}
      <4>1. PICK h \in seals : HeadHash = h.rolling /\ ChainHead = h.last  BY <1>7, <3>2
      <4>2. \A d \in seals : d # h => d.last < h.last  BY <1>2, <4>1, HeadFacts DEF Chain, Ordered
      <4>3. {d \in seals : d.last < h.last} = seals \ {h}  BY <1>2, <4>2
      <4>4. Cardinality(seals \ {h}) = Cardinality(seals) - 1  BY <2>1, FS_RemoveElement
      <4>5. Len(HeadHash) = Cardinality(seals \ {h}) + 1  BY <4>1, <4>3 DEF Chain, Counted
      <4>6. Cardinality(seals) \in Nat  BY <2>1, FS_CardinalityType
      <4> QED  BY <4>4, <4>5, <4>6
    <3> QED  BY <3>1, <3>2
  <2>6. \A s \in seals : Len(s.rolling) = Cardinality({d \in seals' : d.last < s.last}) + 1
    BY <2>3 DEF Chain, Counted
  <2>7. Len(n.rolling) = Cardinality({d \in seals' : d.last < n.last}) + 1  BY <1>6, <2>4, <2>5
  <2> QED  BY <2>2, <2>6, <2>7 DEF Counted
<1>13. Covered'
  <2>1. ASSUME NEW e \in 1..n.last
        PROVE  \E d \in seals' : d.first <= e /\ e <= d.last /\ d.last <= n.last
    <3>1. CASE n.first <= e  BY <1>1, <3>1
    <3>2. CASE ~(n.first <= e)
      <4>1. e \in 1..ChainHead  BY <1>1, <3>2
      <4>2. PICK h \in seals : ChainHead = h.last  BY <1>7, <4>1
      <4>3. PICK d \in seals : d.first <= e /\ e <= d.last /\ d.last <= h.last
        BY <4>1, <4>2 DEF Chain, Covered
      <4> QED  BY <1>1, <1>2, <4>2, <4>3
    <3> QED  BY <3>1, <3>2
  <2> QED  BY <2>1 DEF Chain, Covered
<1>14. \A s \in seals' : s.last <= n.last  BY <1>1, <1>2
<1>15. Topped'  BY <1>14 DEF Topped
<1>16. ChainHead' = n.last  BY <1>14, LastIs DEF ChainHead, StoreTyped
<1> QED  BY <1>1, <1>3, <1>4, <1>10, <1>11, <1>12, <1>13, <1>15, <1>16 DEF Chain

-----------------------------------------------------------------------------
(* What every step leaves true of the positions, the seals and the objects   *)
(* a run may have in hand.                                                   *)
Later == /\ seals \subseteq seals' /\ \A s \in seals' \ seals : ChainHead < s.last /\ s.last \in Nat
         /\ receiver \subseteq receiver' /\ recorded <= recorded' /\ state.verified <= state'.verified
         /\ recorded' \in Nat /\ state'.verified \in Nat /\ ChainHead' \in Nat
         /\ damaged => damaged'
         /\ ChainHead <= ChainHead'
         /\ \A i \in intents : i \in intents' \/ Sealed(i, seals')
         /\ \A i : Link(i) /\ Stored(i) => damaged' \/ Stored(i)'
RunFields(q) == /\ q.pc \in Steps /\ q.read \in StateType /\ q.fault \in Reports /\ q.cursor \in Nat
                /\ q.prev \in Hash /\ q.upto \in Nat

LEMMA Fields == ASSUME NEW q, RunOK(q), q # Idle  PROVE RunFields(q)
  BY DEF RunOK, RunFields

LEMMA VerifiedBehindHead ==
    ASSUME Store
    PROVE  state.verified \in Nat /\ state.verified <= ChainHead /\ ChainHead <= recorded /\ recorded \in Nat /\ ChainHead \in Nat
  BY HeadFacts DEF Store, StoreTyped, StateType, ReadBackStands

LEMMA HandedOverKept ==
    ASSUME Store, Later, NEW n \in Nat, n <= state.verified, HandedOver(n)
    PROVE  HandedOver(n)'
<1>1. n <= ChainHead /\ ChainHead \in Nat  BY VerifiedBehindHead
<1>2. \A s \in seals' \ seals : ~(s.last <= n)  BY <1>1 DEF Later
<1> QED  BY <1>2 DEF HandedOver, Later, Checkpoint

LEMMA StretchesKept ==
    ASSUME Store, Later, NEW i, Stretches(i)
    PROVE  Stretches(i)'
<1>1. i.last \in Nat /\ i.last <= recorded  BY DEF Stretches, IntentType, Link
<1>2. i.last <= recorded'  BY <1>1, VerifiedBehindHead DEF Later
<1> QED  BY <1>2, PositionsKept DEF Stretches, Later

LEMMA HonouredKept ==
    ASSUME Store, Later, NEW i, Honoured(i)
    PROVE  Honoured(i)'
<1>1. Sealed(i, seals) => Sealed(i, seals')  BY DEF Sealed, Later
<1> QED  BY <1>1, StretchesKept DEF Honoured, Later

LEMMA KnowsKept ==
    ASSUME Store, Later, NEW q, RunFields(q), Knows(q)
    PROVE  Knows(q)'
<1>0. \A n, hash : Position(n, hash) => Position(n, hash)'  BY PositionsKept DEF Later
<1>1. Alarm(q.fault)' /\ Alarm(q.read.fault)'  BY DEF Knows, Alarm, Later
<1>2. q.read.verified \in Nat /\ q.read.anchored \in Nat  BY DEF RunFields, StateType
<1>3. Position(q.read.verified, q.read.hash)' /\ q.read.verified <= state'.verified
  BY <1>0, <1>2, VerifiedBehindHead DEF Knows, Later
<1>4. q.read.anchored <= q.read.verified /\ HandedOver(q.read.anchored)'
  BY <1>2, HandedOverKept, VerifiedBehindHead DEF Knows
<1>5. q.pc \in {"look", "freeze", "reread"} => Position(q.cursor, q.prev)'  BY <1>0 DEF Knows
<1>6. q.pc \in {"freeze", "reread"} => q.intent.cursor = q.cursor  BY DEF Knows
<1>7. q.pc = "freeze" => (ChainHead' = q.cursor => Stretches(q.intent)')
  <2> SUFFICES ASSUME q.pc = "freeze", ChainHead' = q.cursor  PROVE Stretches(q.intent)'
    OBVIOUS
  <2>1. q.cursor <= ChainHead  BY HeadFacts DEF Knows, Store
  <2>2. ChainHead = q.cursor  BY <2>1, VerifiedBehindHead DEF Later, RunFields
  <2> QED  BY <2>2, StretchesKept DEF Knows
<1>8. q.pc \in {"resume", "get", "put", "seal", "twin"} => Honoured(q.intent)'  BY HonouredKept DEF Knows
<1>9. q.pc = "seal" /\ ~damaged' => Stored(q.intent)'
  <2>1. q.pc = "seal" => Link(q.intent)  BY DEF Knows, Honoured, Stretches
  <2> QED  BY <2>1 DEF Knows, Later
<1>10. q.pc = "twin" => Sealed(q.intent, seals')  BY DEF Knows, Sealed, Later
<1>11. q.pc = "post" => q.upto <= state'.verified  BY VerifiedBehindHead DEF Knows, RunFields, Later
<1>12. q.pc \in {"post", "anchored"} => q.cursor <= state'.verified /\ HandedOver(q.cursor)'
  BY HandedOverKept, VerifiedBehindHead DEF Knows, RunFields, Later
<1> QED  BY <1>1, <1>3, <1>4, <1>5, <1>6, <1>7, <1>8, <1>9, <1>10, <1>11, <1>12 DEF Knows

(* A step moves one run; what the others know stays so.                     *)
LEMMA OneRuns ==
    ASSUME IInv, Store', Later, NEW r \in Runners, NEW q, run' = [run EXCEPT ![r] = q],
           RunOK(q), q # Idle => Knows(q)'
    PROVE  IInv'
<1>1. run'[r] = q /\ \A p \in Runners \ {r} : run'[p] = run[p]  BY DEF IInv, RunsTyped
<1>2. RunsTyped'  BY DEF IInv, RunsTyped
<1>3. ASSUME NEW p \in Runners, NEW x \in {run'[p]}, x # Idle  PROVE Knows(x)'
  <2>1. CASE p = r
    <3>1. x = q  BY <1>1, <1>3, <2>1
    <3> QED  BY <1>3, <3>1
  <2>2. CASE p # r
    <3>1. x = run[p]  BY <1>1, <1>3, <2>2
    <3>2. Knows(x) /\ RunFields(x)  BY <1>3, <3>1, Fields DEF IInv, RunsTyped, Known
    <3> QED  BY <3>2, KnowsKept DEF IInv
  <2> QED  BY <2>1, <2>2
<1> QED  BY <1>2, <1>3 DEF IInv, Known

(* Steps that change nothing but the run.                                   *)
LEMMA StoreSame ==
    ASSUME Store, UNCHANGED <<store, damaged>>
    PROVE  Store' /\ Later
<1>0. UNCHANGED <<recorded, events, intents, seals, state, bucket, receiver, orphans, damaged>>  BY DEF store
<1>1. ChainHead' = ChainHead  BY <1>0 DEF ChainHead
<1>2. StoreTyped' /\ Rows' /\ Alarm(state.fault)'  BY <1>0 DEF Store, StoreTyped, Rows, Alarm
<1>3. Chain'
  BY <1>0 DEF Store, Chain, Linked, Link, Position, Ordered, Prefixes, EachIsSealed, Counted, Covered, Topped
<1>4. Frozen'  BY <1>0, <1>1 DEF Store, Frozen, Stretches, Link, Position
<1>5. ReadBackStands' /\ Undamaged'  BY <1>0 DEF Store, ReadBackStands, Undamaged, Stored, Position
<1>6. Accounted' /\ Receiver'  BY <1>0 DEF Store, Accounted, Receiver, HandedOver
<1>7. Later  BY <1>0, <1>1, VerifiedBehindHead DEF Later, Stored
<1> QED  BY <1>2, <1>3, <1>4, <1>5, <1>6, <1>7 DEF Store

LEMMA Busy ==
    ASSUME IInv, NEW r \in Runners, run[r].pc # "idle"
    PROVE  /\ run[r] \in [pc : Steps, read : StateType, fault : Reports, cursor : Nat, prev : Hash,
                          intent : {run[r].intent}, upto : Nat]
           /\ RunFields(run[r]) /\ Knows(run[r])
<1>1. RunOK(run[r]) /\ run[r] # Idle  BY DEF IInv, RunsTyped, Idle
<1>2. Knows(run[r])  BY <1>1 DEF IInv, Known
<1> QED  BY <1>1, <1>2, Fields DEF RunOK

(* Steps that change nothing but the run.                                   *)
LEMMA RunMoves ==
    ASSUME IInv, UNCHANGED <<store, damaged>>, NEW r \in Runners, NEW q, run' = [run EXCEPT ![r] = q],
           RunOK(q), q # Idle => Knows(q)
    PROVE  IInv'
<1>1. Store' /\ Later  BY StoreSame DEF IInv
<1>2. q # Idle => RunFields(q)  BY Fields
<1>3. q # Idle => Knows(q)'  BY <1>1, <1>2, KnowsKept DEF IInv
<1> QED  BY <1>1, <1>3, OneRuns

LEMMA ReadHeadStep == ASSUME IInv, NEW r \in Runners, ReadHead(r)  PROVE IInv'
<1> DEFINE q == [run[r] EXCEPT !.pc = "look", !.cursor = ChainHead, !.prev = HeadHash]
<1>1. run[r].pc = "head" /\ run' = [run EXCEPT ![r] = q] /\ UNCHANGED <<store, damaged>>
  BY DEF ReadHead
<1>2. /\ run[r] \in [pc : Steps, read : StateType, fault : Reports, cursor : Nat, prev : Hash,
                      intent : {run[r].intent}, upto : Nat]
      /\ Knows(run[r])
  BY <1>1, Busy
<1>3. ChainHead \in Nat /\ HeadHash \in Hash /\ Position(ChainHead, HeadHash)  BY HeadFacts DEF IInv, Store
<1>4. RunOK(q)  BY <1>2, <1>3 DEF RunOK, Steps
<1>5. /\ q.pc = "look" /\ q.fault = run[r].fault /\ q.read = run[r].read /\ q.cursor = ChainHead /\ q.prev = HeadHash
  BY <1>2
<1>6. Knows(q)  BY <1>2, <1>3, <1>5 DEF Knows
<1> QED  BY <1>1, <1>4, <1>6, RunMoves

LEMMA TwinStep == ASSUME IInv, NEW r \in Runners, Twin(r)  PROVE IInv'
<1> DEFINE q == [run[r] EXCEPT !.pc = "verify"]
<1>1. run[r].pc = "twin" /\ UNCHANGED <<store, damaged>>  BY DEF Twin
<1>2. /\ run[r] \in [pc : Steps, read : StateType, fault : Reports, cursor : Nat, prev : Hash,
                      intent : {run[r].intent}, upto : Nat]
      /\ Knows(run[r])
  BY <1>1, Busy
<1>3. Sealed(run[r].intent, seals)  BY <1>1, <1>2 DEF Knows
<1>4. run' = [run EXCEPT ![r] = q]  BY <1>3 DEF Twin, Goto
<1>5. RunOK(q)  BY <1>2 DEF RunOK, Steps
<1>6. q.pc = "verify" /\ q.fault = run[r].fault /\ q.read = run[r].read  BY <1>2
<1>7. Knows(q)  BY <1>2, <1>6 DEF Knows
<1> QED  BY <1>1, <1>4, <1>5, <1>7, RunMoves

LEMMA DieStep == ASSUME IInv, NEW r \in Runners, Die(r)  PROVE IInv'
<1>1. run' = [run EXCEPT ![r] = Idle] /\ UNCHANGED <<store, damaged>>  BY DEF Die
<1>2. RunOK(Idle)  BY DEF RunOK
<1> QED  BY <1>1, <1>2, RunMoves

LEMMA ReadAnchorsStep == ASSUME IInv, NEW r \in Runners, ReadAnchors(r)  PROVE IInv'
<1> DEFINE q == [run[r] EXCEPT !.pc = "post", !.cursor = run[r].read.anchored, !.upto = state.verified]
<1>1. run[r].pc = "anchor" /\ run' = [run EXCEPT ![r] = q] /\ UNCHANGED <<store, damaged>>
  BY DEF ReadAnchors
<1>2. /\ run[r] \in [pc : Steps, read : StateType, fault : Reports, cursor : Nat, prev : Hash,
                      intent : {run[r].intent}, upto : Nat]
      /\ Knows(run[r])
  BY <1>1, Busy
<1>3. run[r].read.anchored \in Nat /\ run[r].read.verified \in Nat /\ state.verified \in Nat
  BY <1>2 DEF StateType, IInv, Store, StoreTyped
<1>4. RunOK(q)  BY <1>2, <1>3 DEF RunOK, Steps
<1>5. /\ q.pc = "post" /\ q.fault = run[r].fault /\ q.read = run[r].read /\ q.cursor = run[r].read.anchored
      /\ q.upto = state.verified
  BY <1>2
<1>6. Knows(q)  BY <1>2, <1>3, <1>5 DEF Knows
<1> QED  BY <1>1, <1>4, <1>6, RunMoves

RunSet(intent) == [pc : Steps, read : StateType, fault : Reports, cursor : Nat, prev : Hash,
                   intent : {intent}, upto : Nat]

LEMMA Named ==
    /\ {"anchor", "prune", "verify"} \subseteq Steps
    /\ {"bucket-unavailable", "segment-drift", "segment-conflict", "verification-failed"} \subseteq FaultKinds
BY DEF Steps, FaultKinds

LEMMA Went ==
    ASSUME IInv, NEW r \in Runners, run[r].pc # "idle", NEW pc \in Steps, Goto(r, pc)
    PROVE  \E q \in RunSet(run[r].intent) :
             /\ run' = [run EXCEPT ![r] = q] /\ q.pc = pc /\ q.read = run[r].read /\ q.fault = run[r].fault
             /\ q.cursor = run[r].cursor /\ q.prev = run[r].prev /\ q.intent = run[r].intent /\ q.upto = run[r].upto
<1> DEFINE q == [run[r] EXCEPT !.pc = pc]
<1>1. run' = [run EXCEPT ![r] = q]  BY DEF Goto
<1>2. run[r] \in RunSet(run[r].intent)  BY Busy DEF RunSet
<1>3. /\ q \in RunSet(run[r].intent) /\ q.pc = pc /\ q.read = run[r].read /\ q.fault = run[r].fault
      /\ q.cursor = run[r].cursor /\ q.prev = run[r].prev /\ q.intent = run[r].intent /\ q.upto = run[r].upto
  BY <1>2 DEF RunSet
<1> QED  BY <1>1, <1>3

LEMMA Thrown ==
    ASSUME IInv, NEW r \in Runners, run[r].pc # "idle", NEW kind \in FaultKinds,
           NEW key \in (Nat \X Nat) \cup {NoKey}, NEW next \in Steps, Throw(r, kind, key, next)
    PROVE  \E q \in RunSet(run[r].intent) :
             /\ run' = [run EXCEPT ![r] = q] /\ q.pc = next /\ q.read = run[r].read
             /\ q.fault.kind = kind \/ q.fault = run[r].fault
             /\ q.cursor = run[r].cursor
<1> DEFINE fault == IF run[r].fault = NoFault THEN ArchiveFault(kind, key) ELSE run[r].fault
           q == [run[r] EXCEPT !.pc = next, !.fault = fault]
<1>1. run' = [run EXCEPT ![r] = q]  BY DEF Throw
<1>2. run[r] \in RunSet(run[r].intent)  BY Busy DEF RunSet
<1>3. run[r].fault \in Reports  BY <1>2 DEF RunSet
<1>4. fault \in Reports /\ (fault.kind = kind \/ fault = run[r].fault)
  BY <1>3 DEF Reports, ArchiveFault
<1> HIDE DEF fault
<1>5. /\ q \in RunSet(run[r].intent) /\ q.pc = next /\ q.read = run[r].read /\ q.fault = fault
      /\ q.cursor = run[r].cursor
  BY <1>2, <1>4 DEF RunSet
<1> QED  BY <1>1, <1>4, <1>5

LEMMA SetOK == ASSUME NEW intent, NEW q \in RunSet(intent)  PROVE RunOK(q) /\ RunFields(q)
<1>1. q.intent = intent  BY DEF RunSet
<1> QED  BY <1>1 DEF RunSet, RunOK, RunFields

(* Past the seal a run knows what it read at its start.                     *)
LEMMA Carry ==
    ASSUME NEW p, NEW q, Knows(p), q.read = p.read, Alarm(q.fault),
           q.pc \in {"head", "verify", "anchor", "reconcile", "prune", "report"}
    PROVE  Knows(q)
  BY DEF Knows

(* A request to the bucket fails: the run goes on with the pruning.         *)
LEMMA BucketFailed ==
    ASSUME IInv, NEW r \in Runners, run[r].pc # "idle", BucketFails(r)
    PROVE  \E q \in RunSet(run[r].intent) :
             run' = [run EXCEPT ![r] = q] /\ q.pc = "prune" /\ q.read = run[r].read /\ Alarm(q.fault) /\ Knows(q)
<1>1. Knows(run[r])  BY Busy
<1>2. Throw(r, "bucket-unavailable", NoKey, "prune")  BY DEF BucketFails
<1>3. PICK q \in RunSet(run[r].intent) :
        /\ run' = [run EXCEPT ![r] = q] /\ q.pc = "prune" /\ q.read = run[r].read
        /\ q.fault.kind = "bucket-unavailable" \/ q.fault = run[r].fault
  BY <1>2, Thrown, Named
<1>4. Alarm(q.fault)  BY <1>1, <1>3 DEF Knows, Alarm
<1>5. Knows(q)  BY <1>1, <1>3, <1>4, Carry
<1> QED  BY <1>3, <1>4, <1>5

LEMMA FrozenAt ==
    ASSUME Store, NEW n \in Nat
    PROVE  /\ IntentAt(n) # NoIntent => IntentAt(n) \in intents /\ IntentAt(n).cursor = n
           /\ IntentAt(n) = NoIntent => \A i \in intents : i.cursor # n
<1>1. \A i \in intents : i.cursor \in Nat  BY DEF Store, StoreTyped, IntentType
<1>2. CASE \E i \in intents : i.cursor = n
  <2>1. IntentAt(n) \in intents /\ IntentAt(n).cursor = n  BY <1>2 DEF IntentAt
  <2>2. IntentAt(n) # NoIntent  BY <1>1, <2>1 DEF NoIntent
  <2> QED  BY <2>1, <2>2
<1>3. CASE ~ \E i \in intents : i.cursor = n
  <2>1. IntentAt(n) = NoIntent  BY <1>3 DEF IntentAt
  <2> QED  BY <1>3, <2>1
<1> QED  BY <1>2, <1>3

LEMMA RereadStep == ASSUME IInv, NEW r \in Runners, Reread(r)  PROVE IInv'
<1>1. run[r].pc = "reread" /\ UNCHANGED <<store, damaged>>  BY DEF Reread
<1>2. run[r] \in RunSet(run[r].intent) /\ Knows(run[r]) /\ run[r].cursor \in Nat
  BY <1>1, Busy DEF RunSet, RunFields
<1>3. CASE Goto(r, "verify")
  <2>1. PICK q \in RunSet(run[r].intent) :
          run' = [run EXCEPT ![r] = q] /\ q.pc = "verify" /\ q.read = run[r].read /\ q.fault = run[r].fault
    BY <1>1, <1>3, Went DEF Steps
  <2>2. Knows(q)  BY <1>2, <2>1, Carry DEF Knows
  <2> QED  BY <1>1, <2>1, <2>2, SetOK, RunMoves
<1>4. ASSUME NEW pc \in {"get", "resume"}, NEW i, i = IntentAt(run[r].cursor), i # NoIntent,
             run' = [run EXCEPT ![r].pc = pc, ![r].intent = i]
      PROVE  IInv'
  <2> DEFINE q == [run[r] EXCEPT !.pc = pc, !.intent = i]
  <2>1. q \in RunSet(i) /\ q.pc = pc /\ q.read = run[r].read /\ q.fault = run[r].fault /\ q.intent = i
    BY <1>2 DEF RunSet, Steps
  <2>2. run' = [run EXCEPT ![r] = q]  BY <1>4
  <2>3. Honoured(i)  BY <1>2, <1>4, FrozenAt DEF IInv, Store, Frozen, Honoured
  <2>4. Knows(q)  BY <1>2, <2>1, <2>3 DEF Knows
  <2> QED  BY <1>1, <2>1, <2>2, <2>4, SetOK, RunMoves
<1> QED  BY <1>3, <1>4 DEF Reread

LEMMA ResumeStep == ASSUME IInv, NEW r \in Runners, Resume(r)  PROVE IInv'
<1>1. run[r].pc = "resume" /\ UNCHANGED <<store, damaged>>  BY DEF Resume
<1>2. run[r] \in RunSet(run[r].intent) /\ Knows(run[r])  BY <1>1, Busy DEF RunSet
<1>3. CASE Goto(r, "get")
  <2>1. PICK q \in RunSet(run[r].intent) :
          /\ run' = [run EXCEPT ![r] = q] /\ q.pc = "get" /\ q.read = run[r].read /\ q.fault = run[r].fault
          /\ q.intent = run[r].intent
    BY <1>1, <1>3, Went DEF Steps
  <2>2. Knows(q)  BY <1>1, <1>2, <2>1 DEF Knows
  <2> QED  BY <1>1, <2>1, <2>2, SetOK, RunMoves
<1>4. CASE Throw(r, "segment-drift", Key(run[r].intent), "verify")
  <2>0. Key(run[r].intent) \in Nat \X Nat  BY <1>1, <1>2 DEF Knows, Honoured, Stretches, IntentType, Key
  <2>1. PICK q \in RunSet(run[r].intent) :
          /\ run' = [run EXCEPT ![r] = q] /\ q.pc = "verify" /\ q.read = run[r].read
          /\ q.fault.kind = "segment-drift" \/ q.fault = run[r].fault
    BY <1>1, <1>4, <2>0, Thrown, Named
  <2>2. Alarm(q.fault)  BY <1>2, <2>1 DEF Knows, Alarm
  <2>3. Knows(q)  BY <1>2, <2>1, <2>2, Carry
  <2> QED  BY <1>1, <2>1, <2>3, SetOK, RunMoves
<1> QED  BY <1>3, <1>4 DEF Resume

(* An object at the key of an intent is that intent's, unless damaged.      *)
LEMMA ObjectIs ==
    ASSUME Store, NEW i, Honoured(i), Key(i) \in DOMAIN bucket, ~damaged
    PROVE  Stored(i)
<1>1. CASE i \in intents  BY <1>1 DEF Store, Undamaged
<1>2. CASE Sealed(i, seals)
  <2>1. PICK s \in seals : s.first = i.first /\ s.last = i.last  BY <1>2 DEF Sealed
  <2>2. Stored(s) /\ Link(s) /\ Link(i) /\ Key(s) = Key(i)
    BY <2>1 DEF Store, Undamaged, Chain, Linked, Honoured, Stretches, Key
  <2>3. s.segment = i.segment /\ s.rolling = i.rolling  BY <2>2, SameLink DEF Store
  <2> QED  BY <2>2, <2>3 DEF Stored
<1> QED  BY <1>1, <1>2 DEF Honoured

LEMMA GetStep == ASSUME IInv, NEW r \in Runners, Get(r)  PROVE IInv'
<1>1. run[r].pc = "get" /\ UNCHANGED <<store, damaged>>  BY DEF Get, store
<1>2. run[r] \in RunSet(run[r].intent) /\ Knows(run[r])  BY <1>1, Busy DEF RunSet
<1>3. Honoured(run[r].intent) /\ Link(run[r].intent)  BY <1>1, <1>2 DEF Knows, Honoured, Stretches
<1>4. ASSUME NEW pc \in {"put", "seal"}, Goto(r, pc),
             pc = "seal" => Key(run[r].intent) \in DOMAIN bucket
      PROVE  IInv'
  <2>1. PICK q \in RunSet(run[r].intent) :
          /\ run' = [run EXCEPT ![r] = q] /\ q.pc = pc /\ q.read = run[r].read /\ q.fault = run[r].fault
          /\ q.intent = run[r].intent
    BY <1>1, <1>4, Went DEF Steps
  <2>2. q.pc = "seal" /\ ~damaged => Stored(q.intent)  BY <1>3, <1>4, <2>1, ObjectIs DEF IInv
  <2>3. Knows(q)  BY <1>2, <1>3, <2>1, <2>2 DEF Knows
  <2> QED  BY <1>1, <2>1, <2>3, SetOK, RunMoves
<1>5. ASSUME Throw(r, "segment-conflict", Key(run[r].intent), "verify"), Key(run[r].intent) \in DOMAIN bucket,
             bucket[Key(run[r].intent)].segment # run[r].intent.segment
      PROVE  IInv'
  <2>0. Key(run[r].intent) \in Nat \X Nat
    BY <1>1, <1>2 DEF Knows, Honoured, Stretches, IntentType, Key
  <2>1. PICK q \in RunSet(run[r].intent) :
          /\ run' = [run EXCEPT ![r] = q] /\ q.pc = "verify" /\ q.read = run[r].read
          /\ q.fault.kind = "segment-conflict" \/ q.fault = run[r].fault
    BY <1>1, <1>5, <2>0, Thrown, Named
  <2>2. damaged  BY <1>3, <1>5, ObjectIs DEF IInv, Stored
  <2>3. Alarm(q.fault)  BY <1>2, <2>1, <2>2 DEF Knows, Alarm
  <2>4. Knows(q)  BY <1>2, <2>1, <2>3, Carry
  <2> QED  BY <1>1, <2>1, <2>4, SetOK, RunMoves
<1>6. CASE BucketFails(r)
  <2>1. PICK q \in RunSet(run[r].intent) : run' = [run EXCEPT ![r] = q] /\ Knows(q)
    BY <1>1, <1>6, BucketFailed
  <2> QED  BY <1>1, <2>1, SetOK, RunMoves
<1> QED  BY <1>4, <1>5, <1>6 DEF Get

-----------------------------------------------------------------------------
(* Steps that change the lease and the fault shown, or nothing a run needs. *)
LEMMA ShownChanges ==
    ASSUME Store, UNCHANGED <<recorded, events, intents, seals, bucket, receiver, orphans, damaged>>,
           state' \in StateType, state'.verified = state.verified, state'.hash = state.hash,
           state'.anchored <= state.verified, HandedOver(state'.anchored), Alarm(state'.fault)
    PROVE  Store' /\ Later
<1>1. ChainHead' = ChainHead  BY DEF ChainHead
<1>2. StoreTyped' /\ Rows' /\ Alarm(state.fault)'  BY DEF Store, StoreTyped, Rows, Alarm
<1>3. Chain'
  BY DEF Store, Chain, Linked, Link, Position, Ordered, Prefixes, EachIsSealed, Counted, Covered, Topped
<1>4. Frozen'  BY <1>1 DEF Store, Frozen, Stretches, Link, Position
<1>5. ReadBackStands' /\ Undamaged'  BY DEF Store, ReadBackStands, Undamaged, Stored, Position
<1>6. Accounted' /\ Receiver'  BY DEF Store, Accounted, Receiver, HandedOver
<1>7. Later  BY <1>1, VerifiedBehindHead DEF Later, Stored
<1> QED  BY <1>2, <1>3, <1>4, <1>5, <1>6, <1>7 DEF Store

(* No run moves.                                                            *)
LEMMA NoneRuns == ASSUME IInv, Store', Later, UNCHANGED run  PROVE IInv'
<1>1. RunsTyped'  BY DEF IInv, RunsTyped
<1>2. ASSUME NEW r \in Runners, NEW x \in {run'[r]}, x # Idle  PROVE Knows(x)'
  <2>1. x = run[r]  BY <1>2
  <2>2. Knows(x) /\ RunFields(x)  BY <1>2, <2>1, Fields DEF IInv, RunsTyped, Known
  <2> QED  BY <2>2, KnowsKept DEF IInv
<1> QED  BY <1>1, <1>2 DEF IInv, Known

LEMMA LeaseSteps == ASSUME IInv, Lapse \/ Expire  PROVE IInv'
<1>1. state' = [state EXCEPT !.lease = None] /\ UNCHANGED run
      /\ UNCHANGED <<recorded, events, intents, seals, bucket, receiver, orphans, damaged>>
  BY DEF Lapse, Expire
<1>2. state \in StateType  BY DEF IInv, Store, StoreTyped
<1>3. /\ state' \in StateType /\ state'.verified = state.verified /\ state'.hash = state.hash
      /\ state'.anchored = state.anchored /\ state'.fault = state.fault
  BY <1>1, <1>2 DEF StateType
<1>4. state.anchored <= state.verified /\ HandedOver(state.anchored) /\ Alarm(state.fault)
  BY DEF IInv, Store, Receiver
<1>5. Store' /\ Later  BY <1>1, <1>3, <1>4, ShownChanges DEF IInv
<1> QED  BY <1>1, <1>5, NoneRuns

LEMMA ClaimLeaseStep == ASSUME IInv, NEW r \in Runners, ClaimLease(r)  PROVE IInv'
<1>0. PICK q : q = [pc |-> "head", read |-> state, fault |-> NoFault, cursor |-> 0, prev |-> <<>>,
                    intent |-> NoIntent, upto |-> 0]
  OBVIOUS
<1>1. state' = [state EXCEPT !.lease = r] /\ run' = [run EXCEPT ![r] = q]
      /\ UNCHANGED <<recorded, events, intents, seals, bucket, receiver, orphans, damaged>>
  BY <1>0 DEF ClaimLease
<1>2. state \in StateType  BY DEF IInv, Store, StoreTyped
<1>3. /\ state' \in StateType /\ state'.verified = state.verified /\ state'.hash = state.hash
      /\ state'.anchored = state.anchored /\ state'.fault = state.fault
  BY <1>1, <1>2 DEF StateType
<1>4. state.anchored <= state.verified /\ HandedOver(state.anchored) /\ Alarm(state.fault)
      /\ Position(state.verified, state.hash)
  BY DEF IInv, Store, Receiver, ReadBackStands
<1>5. Store' /\ Later  BY <1>1, <1>3, <1>4, ShownChanges DEF IInv
<1>6. <<>> \in Hash  BY DEF Hash
<1>7. q \in RunSet(NoIntent) /\ q.pc = "head" /\ q.read = state /\ q.fault = NoFault
  BY <1>0, <1>2, <1>6 DEF RunSet, Steps, FaultKinds, Reports, NoFault, ArchiveFault
<1>8. RunOK(q) /\ RunFields(q)  BY <1>7, SetOK
<1>9. Alarm(NoFault)  BY DEF Alarm, NoFault, ArchiveFault, None
<1>10. state.verified <= state.verified  BY <1>2 DEF StateType
<1>11. Knows(q)  BY <1>4, <1>7, <1>9, <1>10 DEF Knows
<1>12. Knows(q)'  BY <1>5, <1>8, <1>11, KnowsKept DEF IInv
<1> QED  BY <1>1, <1>5, <1>8, <1>12, OneRuns

LEMMA FinishStep == ASSUME IInv, NEW r \in Runners, Finish(r)  PROVE IInv'
<1> DEFINE reported == IF run[r].fault = run[r].read.fault THEN state.fault ELSE run[r].fault
           lease == IF state.lease = r THEN None ELSE state.lease
<1>1. /\ run[r].pc = "report" /\ state' = [state EXCEPT !.fault = reported, !.lease = lease]
      /\ run' = [run EXCEPT ![r] = Idle]
      /\ UNCHANGED <<recorded, events, intents, seals, bucket, receiver, orphans, damaged>>
  BY DEF Finish
<1>2. state \in StateType /\ Alarm(state.fault) /\ run[r].fault \in Reports /\ Alarm(run[r].fault)
  BY <1>1, Busy DEF IInv, Store, StoreTyped, Knows, RunFields
<1>3. reported \in Reports /\ Alarm(reported) /\ lease \in Runners \cup {None}  BY <1>2 DEF StateType
<1> HIDE DEF reported, lease
<1>4. /\ state' \in StateType /\ state'.verified = state.verified /\ state'.hash = state.hash
      /\ state'.anchored = state.anchored /\ state'.fault = reported
  BY <1>1, <1>2, <1>3 DEF StateType
<1>5. state.anchored <= state.verified /\ HandedOver(state.anchored)  BY DEF IInv, Store, Receiver
<1>6. Store' /\ Later  BY <1>1, <1>3, <1>4, <1>5, ShownChanges DEF IInv
<1> QED  BY <1>1, <1>6, OneRuns DEF RunOK

LEMMA AnchoredStep == ASSUME IInv, NEW r \in Runners, Anchored(r)  PROVE IInv'
<1> DEFINE anchored == IF state.anchored = run[r].read.anchored THEN run[r].cursor ELSE state.anchored
<1>1. /\ run[r].pc \in {"anchored", "post"} /\ Goto(r, "reconcile")
      /\ UNCHANGED <<recorded, events, intents, seals, bucket, receiver, orphans, damaged>>
  BY DEF Anchored
<1>2. run[r].pc # "idle" /\ "reconcile" \in Steps  BY <1>1 DEF Steps
<1>3. Knows(run[r]) /\ run[r].cursor \in Nat /\ state \in StateType  BY <1>2, Busy DEF RunFields, IInv, Store, StoreTyped
<1>4. /\ state' \in StateType /\ state'.verified = state.verified /\ state'.hash = state.hash
      /\ state'.anchored \in {run[r].cursor, state.anchored} /\ state'.fault = state.fault
  BY <1>3 DEF StateType, Anchored
<1>5. state'.anchored <= state.verified /\ HandedOver(state'.anchored) /\ Alarm(state.fault)
  BY <1>1, <1>3, <1>4 DEF Knows, IInv, Store, Receiver
<1>6. Store' /\ Later  BY <1>1, <1>4, <1>5, ShownChanges DEF IInv
<1>7. PICK q \in RunSet(run[r].intent) :
        run' = [run EXCEPT ![r] = q] /\ q.pc = "reconcile" /\ q.read = run[r].read /\ q.fault = run[r].fault
  BY <1>1, <1>2, Went
<1>8. Knows(q)  BY <1>3, <1>7, Carry DEF Knows
<1>9. RunOK(q) /\ Knows(q)'  BY <1>6, <1>8, SetOK, KnowsKept DEF IInv
<1> QED  BY <1>6, <1>7, <1>9, OneRuns

(* Every object has its intent or its seal: none is ever an orphan.         *)
LEMMA NoneUnknown == ASSUME Store  PROVE Unknown = {} /\ orphans = {}
  BY DEF Store, Accounted, Unknown

LEMMA ReconcileStep == ASSUME IInv, NEW r \in Runners, ReconcileOrphans(r)  PROVE IInv'
<1>1. run[r].pc = "reconcile" /\ UNCHANGED <<recorded, events, intents, seals, state, bucket, receiver, damaged>>
  BY DEF ReconcileOrphans
<1>2. orphans' = orphans /\ (Goto(r, "prune") \/ BucketFails(r))  BY NoneUnknown DEF ReconcileOrphans, IInv
<1>3. UNCHANGED <<store, damaged>>  BY <1>1, <1>2 DEF store
<1>4. CASE Goto(r, "prune")
  <2>1. PICK q \in RunSet(run[r].intent) :
          run' = [run EXCEPT ![r] = q] /\ q.pc = "prune" /\ q.read = run[r].read /\ q.fault = run[r].fault
    BY <1>1, <1>4, Went DEF Steps
  <2>2. Knows(q)  BY <1>1, <2>1, Busy, Carry DEF Knows
  <2> QED  BY <1>3, <2>1, <2>2, SetOK, RunMoves
<1>5. CASE BucketFails(r)
  <2>1. PICK q \in RunSet(run[r].intent) : run' = [run EXCEPT ![r] = q] /\ Knows(q)
    BY <1>1, <1>5, BucketFailed
  <2> QED  BY <1>3, <2>1, SetOK, RunMoves
<1> QED  BY <1>2, <1>4, <1>5

-----------------------------------------------------------------------------
(* The steps that change what is stored.                                    *)
LEMMA RecordStep == ASSUME IInv, Record  PROVE IInv'
<1>1. /\ recorded' = recorded + 1 /\ events' = events \cup {recorded + 1}
      /\ UNCHANGED <<intents, seals, state, bucket, receiver, orphans, run, damaged>>
  BY DEF Record
<1>2. ChainHead' = ChainHead  BY <1>1 DEF ChainHead
<1>3. recorded \in Nat /\ events \subseteq 1..recorded /\ Rows  BY DEF IInv, Store, StoreTyped
<1>4. StoreTyped'  BY <1>1, <1>3 DEF IInv, Store, StoreTyped
<1>5. Rows'
  <2>1. state.verified \in Nat  BY DEF IInv, Store, StoreTyped, StateType
  <2> QED  BY <1>1, <1>3, <2>1 DEF Rows
<1>6. \A s : Link(s) /\ s.last \in Nat => Link(s)'
  <2>1. \A n \in Nat : n <= recorded => n <= recorded'  BY <1>1, <1>3
  <2> QED  BY <1>1, <2>1, PositionsKept DEF Link
<1>7. Linked'  BY <1>1, <1>6 DEF IInv, Store, StoreTyped, SealType, Chain, Linked
<1>8. Chain'  BY <1>1, <1>7 DEF IInv, Store, Chain, Ordered, Prefixes, EachIsSealed, Counted, Covered, Topped
<1>9. Frozen'  BY <1>1, <1>2, <1>6 DEF IInv, Store, Frozen, Stretches, IntentType
<1>10. ReadBackStands' /\ Undamaged' /\ Accounted' /\ Receiver' /\ Alarm(state.fault)'
  BY <1>1 DEF IInv, Store, ReadBackStands, Undamaged, Stored, Position, Accounted, Receiver, HandedOver, Alarm
<1>11. Later  BY <1>1, <1>2, <1>3, VerifiedBehindHead DEF Later, Stored, IInv
<1> QED  BY <1>1, <1>4, <1>5, <1>8, <1>9, <1>10, <1>11, NoneRuns DEF Store

(* The rows read behind the head are the next stretch.                      *)
LEMMA FirstRowsAre ==
    ASSUME NEW a \in Nat, NEW b \in Nat, NEW n \in Nat \ {0}, a < b
    PROVE  \E m \in Nat : a < m /\ m <= b /\ FirstRows(a + 1 .. b, n) = a + 1 .. m
<1>1. PICK m \in Nat : m = IF b <= a + n THEN b ELSE a + n  OBVIOUS
<1>2. ASSUME NEW e \in a + 1 .. b
      PROVE  Cardinality({d \in a + 1 .. b : d < e}) < n <=> e <= m
  <2>1. {d \in a + 1 .. b : d < e} = a + 1 .. e - 1  OBVIOUS
  <2>2. Cardinality(a + 1 .. e - 1) = IF a + 1 > e - 1 THEN 0 ELSE e - 1 - (a + 1) + 1  BY FS_Interval
  <2>3. Cardinality(a + 1 .. e - 1) = e - 1 - a  BY <2>2
  <2>4. Cardinality({d \in a + 1 .. b : d < e}) = e - 1 - a  BY <2>1, <2>3
  <2> QED  BY <1>1, <2>4
<1>3. FirstRows(a + 1 .. b, n) = {e \in a + 1 .. b : e <= m}  BY <1>2 DEF FirstRows
<1>4. {e \in a + 1 .. b : e <= m} = a + 1 .. m /\ a < m /\ m <= b  BY <1>1
<1> QED  BY <1>3, <1>4

LEMMA EndsOf == ASSUME NEW a \in Nat, NEW m \in Nat, a < m  PROVE MinOf(a + 1 .. m) = a + 1 /\ MaxOf(a + 1 .. m) = m
<1>1. a + 1 \in a + 1 .. m /\ \A k \in a + 1 .. m : a + 1 <= k /\ k <= m  OBVIOUS
<1>2. m \in a + 1 .. m /\ a + 1 .. m \subseteq Nat  OBVIOUS
<1>3. \A n \in a + 1 .. m : (\A k \in a + 1 .. m : n <= k) => n = a + 1  BY <1>1
<1>4. MinOf(a + 1 .. m) = a + 1  BY <1>1, <1>3 DEF MinOf
<1> QED  BY <1>1, <1>2, <1>4, MaxIs

LEMMA NextStretch ==
    ASSUME Store, NEW rows, rows = FirstRows({e \in events : e > ChainHead}, SegmentSize), rows # {}
    PROVE  Stretches(Segment(ChainHead, HeadHash, rows))
<1>1. ChainHead \in Nat /\ recorded \in Nat /\ ChainHead <= recorded /\ HeadHash \in Hash
      /\ Position(ChainHead, HeadHash)
  BY HeadFacts, VerifiedBehindHead DEF Store
<1>2. {e \in events : e > ChainHead} = ChainHead + 1 .. recorded
  <2>1. events \subseteq 1..recorded /\ state.verified + 1 .. recorded \subseteq events
    BY DEF Store, StoreTyped, Rows
  <2>2. \A e \in ChainHead + 1 .. recorded : e \in events /\ e > ChainHead  BY <1>1, <2>1, VerifiedBehindHead
  <2>3. \A e \in events : e > ChainHead => e \in ChainHead + 1 .. recorded  BY <1>1, <2>1
  <2> QED  BY <2>2, <2>3
<1>3. ChainHead < recorded
  <2>1. rows \subseteq ChainHead + 1 .. recorded  BY <1>2 DEF FirstRows
  <2> QED  BY <1>1, <2>1
<1>4. PICK m \in Nat : ChainHead < m /\ m <= recorded /\ rows = ChainHead + 1 .. m
  <2>1. rows = FirstRows(ChainHead + 1 .. recorded, SegmentSize)  BY <1>2
  <2>2. SegmentSize \in Nat \ {0}  BY ArchiveAssumption
  <2>3. \E m \in Nat : ChainHead < m /\ m <= recorded
                      /\ FirstRows(ChainHead + 1 .. recorded, SegmentSize) = ChainHead + 1 .. m
    BY <1>1, <1>3, <2>2, FirstRowsAre
  <2> QED  BY <2>1, <2>3
<1>5. MinOf(rows) = ChainHead + 1 /\ MaxOf(rows) = m  BY <1>1, <1>4, EndsOf
<1>6. rows \in SUBSET Nat
  <2>1. \A x \in ChainHead + 1 .. m : x \in Nat  BY <1>1
  <2> QED  BY <1>4, <2>1
<1>7. Append(HeadHash, rows) \in Hash  BY <1>1, <1>6, Appended DEF Hash
<1> DEFINE i == Segment(ChainHead, HeadHash, rows)
<1>8. /\ i.cursor = ChainHead /\ i.first = ChainHead + 1 /\ i.last = m /\ i.segment = rows
      /\ i.prev = HeadHash /\ i.rolling = Append(HeadHash, rows) /\ i \in IntentType
  BY <1>1, <1>5, <1>6, <1>7 DEF Segment, IntentType
<1>9. i.first - 1 = ChainHead  BY <1>1, <1>8
<1> HIDE DEF i
<1>10. Link(i)  BY <1>1, <1>4, <1>8, <1>9 DEF Link
<1>11. Stretches(i)  BY <1>8, <1>10 DEF Stretches
<1> QED  BY <1>11 DEF i

LEMMA LookStep == ASSUME IInv, NEW r \in Runners, Look(r)  PROVE IInv'
<1>1. PICK here : here = run[r].cursor  OBVIOUS
<1>2. PICK rows : rows = FirstRows({e \in events : e > here}, SegmentSize)  OBVIOUS
<1>3. run[r].pc = "look"  BY DEF Look
<1>4. run[r] \in RunSet(run[r].intent) /\ Knows(run[r]) /\ here \in Nat
  BY <1>1, <1>3, Busy DEF RunSet, RunFields
<1>5. Position(here, run[r].prev)  BY <1>1, <1>3, <1>4 DEF Knows
<1>6. here <= ChainHead /\ ChainHead \in Nat  BY <1>5, HeadFacts DEF IInv, Store
<1>7. \A i \in intents : i.cursor >= here  BY <1>4, <1>6 DEF IInv, Store, Frozen
<1>8. UNCHANGED <<store, damaged>>  BY <1>1, <1>7 DEF Look, store
<1>9. ASSUME IntentAt(here) # NoIntent, run' = [run EXCEPT ![r].pc = "resume", ![r].intent = IntentAt(here)]
      PROVE  IInv'
  <2> DEFINE q == [run[r] EXCEPT !.pc = "resume", !.intent = IntentAt(here)]
  <2>1. q \in RunSet(IntentAt(here)) /\ q.pc = "resume" /\ q.read = run[r].read /\ q.fault = run[r].fault
        /\ q.intent = IntentAt(here)
    BY <1>4 DEF RunSet, Steps
  <2>2. run' = [run EXCEPT ![r] = q]  BY <1>9
  <2>3. Honoured(IntentAt(here))  BY <1>4, <1>9, FrozenAt DEF IInv, Store, Frozen, Honoured
  <2>4. Knows(q)  BY <1>4, <2>1, <2>3 DEF Knows
  <2> QED  BY <1>8, <2>1, <2>2, <2>4, SetOK, RunMoves
<1>10. ASSUME rows # {}, run' = [run EXCEPT ![r].pc = "freeze", ![r].intent = Segment(here, run[r].prev, rows)]
       PROVE  IInv'
  <2> DEFINE i == Segment(here, run[r].prev, rows)
             q == [run[r] EXCEPT !.pc = "freeze", !.intent = i]
  <2>1. run' = [run EXCEPT ![r] = q]  BY <1>10
  <2>2. i.cursor = here  BY DEF Segment
  <2>3. ChainHead = here => Stretches(i)
    <3> SUFFICES ASSUME ChainHead = here  PROVE Stretches(i)
      OBVIOUS
    <3>1. run[r].prev = HeadHash  BY <1>5, HeadFacts DEF IInv, Store
    <3> QED  BY <1>2, <1>10, <3>1, NextStretch DEF IInv
  <2> HIDE DEF i
  <2>4. q \in RunSet(i) /\ q.pc = "freeze" /\ q.read = run[r].read /\ q.fault = run[r].fault
        /\ q.intent = i /\ q.cursor = here /\ q.prev = run[r].prev
    BY <1>1, <1>4 DEF RunSet, Steps
  <2>5. Knows(q)  BY <1>4, <1>5, <2>2, <2>3, <2>4 DEF Knows
  <2> QED  BY <1>8, <2>1, <2>4, <2>5, SetOK, RunMoves
<1>11. ASSUME Goto(r, "verify")  PROVE IInv'
  <2>1. PICK q \in RunSet(run[r].intent) :
          run' = [run EXCEPT ![r] = q] /\ q.pc = "verify" /\ q.read = run[r].read /\ q.fault = run[r].fault
    BY <1>3, <1>11, Went DEF Steps
  <2>2. Knows(q)  BY <1>4, <2>1, Carry DEF Knows
  <2> QED  BY <1>8, <2>1, <2>2, SetOK, RunMoves
<1>12. \/ IntentAt(here) # NoIntent /\ run' = [run EXCEPT ![r].pc = "resume", ![r].intent = IntentAt(here)]
       \/ rows # {} /\ run' = [run EXCEPT ![r].pc = "freeze", ![r].intent = Segment(here, run[r].prev, rows)]
       \/ Goto(r, "verify")
  BY <1>1, <1>2 DEF Look
<1> QED  BY <1>9, <1>10, <1>11, <1>12

LEMMA FreezeStep == ASSUME IInv, NEW r \in Runners, Freeze(r)  PROVE IInv'
<1>1. /\ run[r].pc = "freeze" /\ Goto(r, "reread")
      /\ UNCHANGED <<recorded, events, seals, state, bucket, receiver, orphans, damaged>>
  BY DEF Freeze
<1>2. Knows(run[r])  BY <1>1, Busy
<1>3. PICK i : i = run[r].intent  OBVIOUS
<1>4. intents' = intents \/ (MayFreeze(i) /\ intents' = intents \cup {i})  BY <1>3 DEF Freeze
<1>5. Store' /\ Later
  <2>1. CASE intents' = intents
    <3>1. UNCHANGED <<store, damaged>>  BY <1>1, <2>1 DEF store
    <3> QED  BY <3>1, StoreSame DEF IInv
  <2>2. CASE MayFreeze(i) /\ intents' = intents \cup {i}
    <3>1. Stretches(i) /\ i.cursor = ChainHead  BY <1>1, <1>2, <1>3, <2>2 DEF MayFreeze, Knows
    <3>2. ChainHead \in Nat  BY HeadFacts DEF IInv, Store
    <3>3. intents = {}  BY <2>2, <3>1, <3>2, FrozenAt DEF MayFreeze, IInv, Store, Frozen
    <3>4. intents' = {i} /\ i \in IntentType  BY <2>2, <3>1, <3>3 DEF Stretches
    <3>5. ChainHead' = ChainHead  BY <1>1 DEF ChainHead
    <3>6. Key(i) \notin DOMAIN bucket
      <4>1. \A s \in seals : Key(s) # Key(i)
        <5>1. \A s \in seals : s.last < i.last
          <6>1. i.last \in Nat /\ ChainHead < i.last  BY <3>1, <3>2 DEF Stretches, IntentType, Link
          <6> QED  BY <3>2, <6>1, HeadFacts DEF IInv, Store
        <5> QED  BY <5>1 DEF Key, IInv, Store, StoreTyped, SealType
      <4> QED  BY <3>3, <4>1 DEF IInv, Store, Accounted
    <3>7. StoreTyped' /\ Rows' /\ Alarm(state.fault)'
      BY <1>1, <3>4 DEF IInv, Store, StoreTyped, Rows, Alarm
    <3>8. Chain'
      BY <1>1 DEF IInv, Store, Chain, Linked, Link, Position, Ordered, Prefixes, EachIsSealed, Counted, Covered, Topped
    <3>9. Frozen'
      <4>1. Stretches(i)'  BY <1>1, <3>1 DEF Stretches, Link, Position
      <4> QED  BY <3>1, <3>4, <3>5, <4>1 DEF Frozen
    <3>10. ReadBackStands' /\ Receiver'  BY <1>1 DEF IInv, Store, ReadBackStands, Stored, Position, Receiver, HandedOver
    <3>11. Undamaged'  BY <1>1, <3>4, <3>6 DEF IInv, Store, Undamaged, Stored
    <3>12. Accounted'  BY <1>1, <3>3 DEF IInv, Store, Accounted
    <3>13. Later  BY <1>1, <3>3, <3>5, VerifiedBehindHead DEF IInv, Later, Stored
    <3> QED  BY <3>7, <3>8, <3>9, <3>10, <3>11, <3>12, <3>13 DEF Store
  <2> QED  BY <1>4, <2>1, <2>2
<1>6. PICK q \in RunSet(run[r].intent) :
        /\ run' = [run EXCEPT ![r] = q] /\ q.pc = "reread" /\ q.read = run[r].read /\ q.fault = run[r].fault
        /\ q.cursor = run[r].cursor /\ q.prev = run[r].prev /\ q.intent = run[r].intent
  BY <1>1, Went DEF Steps
<1>7. Knows(q)  BY <1>1, <1>2, <1>6 DEF Knows
<1>8. RunOK(q) /\ Knows(q)'  BY <1>5, <1>7, SetOK, KnowsKept DEF IInv
<1> QED  BY <1>5, <1>6, <1>8, OneRuns

LEMMA PutStep == ASSUME IInv, NEW r \in Runners, Put(r)  PROVE IInv'
<1>1. PICK i : i = run[r].intent  OBVIOUS
<1>0. CASE bucket' = bucket /\ BucketFails(r)
  <2>1. run[r].pc = "put" /\ UNCHANGED <<store, damaged>>  BY <1>0 DEF Put, store
  <2>2. PICK q \in RunSet(run[r].intent) : run' = [run EXCEPT ![r] = q] /\ Knows(q)
    BY <1>0, <2>1, BucketFailed
  <2> QED  BY <2>1, <2>2, SetOK, RunMoves
<1> SUFFICES ASSUME ~(bucket' = bucket /\ BucketFails(r))  PROVE IInv'
  BY <1>0
<1>2. /\ run[r].pc = "put"
      /\ bucket' = [k \in DOMAIN bucket \cup {Key(i)} |-> IF k = Key(i) THEN Written(i) ELSE bucket[k]]
      /\ Goto(r, "seal") \/ BucketFails(r)
      /\ UNCHANGED <<recorded, events, intents, seals, state, receiver, orphans, damaged>>
  BY <1>1 DEF Put
<1>3. run[r] \in RunSet(i) /\ Knows(run[r])  BY <1>1, <1>2, Busy DEF RunSet
<1>4. Honoured(i) /\ Link(i) /\ i \in IntentType  BY <1>1, <1>2, <1>3 DEF Knows, Honoured, Stretches
<1>5. Key(i) \in Nat \X Nat /\ Written(i) \in Object /\ Key(i)[1] = i.first /\ Key(i)[2] = i.last
      /\ Written(i).segment = i.segment /\ Written(i).rolling = i.rolling
  BY <1>4 DEF Key, Written, Object, IntentType
<1>6. DOMAIN bucket' = DOMAIN bucket \cup {Key(i)} /\ bucket'[Key(i)] = Written(i)
      /\ \A k \in DOMAIN bucket : k # Key(i) => bucket'[k] = bucket[k]
  BY <1>2
<1>7. \A j : Link(j) => (Key(j) = Key(i) \/ Stored(j) => Stored(j)')
  <2> SUFFICES ASSUME NEW j, Link(j), Key(j) = Key(i) \/ Stored(j)  PROVE Stored(j)'
    OBVIOUS
  <2>1. CASE Key(j) = Key(i)
    <3>1. j.segment = i.segment /\ j.rolling = i.rolling  BY <1>4, <2>1, SameLink DEF IInv, Store
    <3> QED  BY <1>5, <1>6, <2>1, <3>1 DEF Stored
  <2>2. CASE Key(j) # Key(i) /\ Stored(j)  BY <1>6, <2>2 DEF Stored
  <2> QED  BY <2>1, <2>2
<1>8. \A s \in seals : Link(s)  BY DEF IInv, Store, Chain, Linked
<1>9. \A j \in intents : Link(j)  BY DEF IInv, Store, Frozen, Stretches
<1>10. ChainHead' = ChainHead  BY <1>2 DEF ChainHead
<1>11. StoreTyped'
  <2>1. bucket' \in [DOMAIN bucket' -> Object] /\ DOMAIN bucket' \subseteq Nat \X Nat
    BY <1>2, <1>5, <1>6 DEF IInv, Store, StoreTyped
  <2> QED  BY <1>2, <2>1 DEF IInv, Store, StoreTyped
<1>12. Chain'
  BY <1>2 DEF IInv, Store, Chain, Linked, Link, Position, Ordered, Prefixes, EachIsSealed, Counted, Covered, Topped
<1>13. Frozen' /\ Rows' /\ Receiver' /\ Alarm(state.fault)'
  BY <1>2, <1>10 DEF IInv, Store, Frozen, Stretches, Link, Position, Rows, Receiver, HandedOver, Alarm
<1>14. ReadBackStands'
  <2>1. Position(state.verified, state.hash)'  BY <1>2 DEF IInv, Store, ReadBackStands, Position
  <2>2. \A s \in seals : s.last <= state.verified => Stored(s)'
    BY <1>7, <1>8 DEF IInv, Store, ReadBackStands
  <2> QED  BY <1>2, <2>1, <2>2 DEF ReadBackStands
<1>15. Undamaged'
  <2> SUFFICES ASSUME ~damaged
               PROVE  /\ \A s \in seals : Stored(s)'
                      /\ \A k \in DOMAIN bucket' : bucket'[k].segment = k[1]..k[2]
                      /\ \A j \in intents : Key(j) \in DOMAIN bucket' => Stored(j)'
    BY <1>2 DEF Undamaged
  <2>1. \A s \in seals : Stored(s)'  BY <1>7, <1>8 DEF IInv, Store, Undamaged
  <2>2. \A k \in DOMAIN bucket' : bucket'[k].segment = k[1]..k[2]
    BY <1>4, <1>5, <1>6 DEF IInv, Store, Undamaged, Link
  <2>3. \A j \in intents : Key(j) \in DOMAIN bucket' => Stored(j)'
    BY <1>6, <1>7, <1>9 DEF IInv, Store, Undamaged
  <2> QED  BY <2>1, <2>2, <2>3
<1>16. Accounted'
  <2>1. (\E j \in intents : Key(j) = Key(i)) \/ \E s \in seals : Key(s) = Key(i)
    BY <1>4 DEF Honoured, Sealed, Key
  <2> QED  BY <1>2, <1>6, <2>1 DEF IInv, Store, Accounted
<1>17. Later
  <2>1. \A j : Link(j) /\ Stored(j) => Stored(j)'  BY <1>7
  <2> QED  BY <1>2, <1>10, <2>1, VerifiedBehindHead DEF IInv, Later
<1>18. Store'  BY <1>11, <1>12, <1>13, <1>14, <1>15, <1>16 DEF Store
<1>19. CASE Goto(r, "seal")
  <2>1. PICK q \in RunSet(i) :
          /\ run' = [run EXCEPT ![r] = q] /\ q.pc = "seal" /\ q.read = run[r].read /\ q.fault = run[r].fault
          /\ q.intent = i
    BY <1>1, <1>2, <1>19, Went DEF Steps
  <2>2. RunOK(q) /\ RunFields(q)  BY <2>1, SetOK
  <2>3. PICK p : p = run[r]  OBVIOUS
  <2>4. Knows(p)' /\ Stored(i)'  BY <1>2, <1>3, <1>4, <1>7, <1>17, <2>3, Busy, KnowsKept DEF IInv
  <2>5. p.pc = "put" /\ p.intent = i /\ q.read = p.read /\ q.fault = p.fault  BY <1>1, <1>2, <2>1, <2>3
  <2>6. Knows(q)'  BY <2>1, <2>4, <2>5 DEF Knows
  <2> QED  BY <1>17, <1>18, <2>1, <2>2, <2>6, OneRuns
<1>20. CASE BucketFails(r)
  <2>1. PICK q \in RunSet(i) : run' = [run EXCEPT ![r] = q] /\ Knows(q)
    BY <1>1, <1>2, <1>20, BucketFailed
  <2>2. RunOK(q) /\ Knows(q)'  BY <1>17, <2>1, SetOK, KnowsKept DEF IInv
  <2> QED  BY <1>17, <1>18, <2>1, <2>2, OneRuns
<1> QED  BY <1>2, <1>19, <1>20

LEMMA PruneStep == ASSUME IInv, NEW r \in Runners, PruneArchived(r)  PROVE IInv'
<1>1. /\ run[r].pc = "prune" /\ Goto(r, "report")
      /\ events' \subseteq events /\ \A e \in events : e > state.verified => e \in events'
      /\ UNCHANGED <<recorded, intents, seals, state, bucket, receiver, orphans, damaged>>
  <2>1. PICK aged \in SUBSET {e \in events : e <= Ceiling} : events' = events \ aged  BY DEF PruneArchived
  <2>2. \A e \in events : e \in Nat /\ state.verified \in Nat  BY DEF IInv, Store, StoreTyped, StateType
  <2> QED  BY <2>1, <2>2 DEF PruneArchived, Ceiling
<1>2. ChainHead' = ChainHead  BY <1>1 DEF ChainHead
<1>3. StoreTyped' /\ Alarm(state.fault)'  BY <1>1 DEF IInv, Store, StoreTyped, Alarm
<1>4. Rows'
  <2>1. \A e \in state.verified + 1 .. recorded : e > state.verified  BY DEF IInv, Store, StoreTyped, StateType
  <2> QED  BY <1>1, <2>1 DEF IInv, Store, Rows
<1>5. Chain'
  BY <1>1 DEF IInv, Store, Chain, Linked, Link, Position, Ordered, Prefixes, EachIsSealed, Counted, Covered, Topped
<1>6. Frozen'  BY <1>1, <1>2 DEF IInv, Store, Frozen, Stretches, Link, Position
<1>7. ReadBackStands' /\ Undamaged' /\ Accounted' /\ Receiver'
  BY <1>1 DEF IInv, Store, ReadBackStands, Undamaged, Stored, Position, Accounted, Receiver, HandedOver
<1>8. Later  BY <1>1, <1>2, VerifiedBehindHead DEF IInv, Later, Stored
<1>9. Store'  BY <1>3, <1>4, <1>5, <1>6, <1>7 DEF Store
<1>10. PICK q \in RunSet(run[r].intent) :
        run' = [run EXCEPT ![r] = q] /\ q.pc = "report" /\ q.read = run[r].read /\ q.fault = run[r].fault
  BY <1>1, Went DEF Steps
<1>11. Knows(q)  BY <1>1, <1>10, Busy, Carry DEF Knows
<1>12. RunOK(q) /\ Knows(q)'  BY <1>8, <1>11, SetOK, KnowsKept DEF IInv
<1> QED  BY <1>8, <1>9, <1>10, <1>12, OneRuns

LEMMA DamageStep == ASSUME IInv, Damage  PROVE IInv'
<1>1. /\ damaged' = TRUE /\ UNCHANGED <<recorded, events, intents, seals, state, receiver, orphans, run>>
      /\ \E k \in Unread :
            bucket' \in {[bucket EXCEPT ![k].segment = {}], [j \in DOMAIN bucket \ {k} |-> bucket[j]]}
  BY DEF Damage
<1>2. PICK k \in DOMAIN bucket :
        /\ k[2] > state.verified
        /\ bucket' \in {[bucket EXCEPT ![k].segment = {}], [j \in DOMAIN bucket \ {k} |-> bucket[j]]}
  BY <1>1 DEF Unread
<1>3. bucket \in [DOMAIN bucket -> Object]  BY DEF IInv, Store, StoreTyped
<1>4. /\ DOMAIN bucket' \subseteq DOMAIN bucket /\ bucket' \in [DOMAIN bucket' -> Object]
      /\ \A j \in DOMAIN bucket : j # k => j \in DOMAIN bucket' /\ bucket'[j] = bucket[j]
  <2>1. CASE bucket' = [j \in DOMAIN bucket \ {k} |-> bucket[j]]  BY <1>3, <2>1
  <2>2. CASE bucket' = [bucket EXCEPT ![k].segment = {}]
    <3> DEFINE o == [bucket[k] EXCEPT !.segment = {}]
    <3>1. o \in Object  BY <1>3 DEF Object
    <3>2. bucket' = [bucket EXCEPT ![k] = o]  BY <2>2
    <3> HIDE DEF o
    <3> QED  BY <1>3, <3>1, <3>2
  <2> QED  BY <1>2, <2>1, <2>2
<1>5. ChainHead' = ChainHead  BY <1>1 DEF ChainHead
<1>6. StoreTyped' /\ Rows' /\ Alarm(state.fault)'
  BY <1>1, <1>4 DEF IInv, Store, StoreTyped, Rows, Alarm
<1>7. Chain'
  BY <1>1 DEF IInv, Store, Chain, Linked, Link, Position, Ordered, Prefixes, EachIsSealed, Counted, Covered, Topped
<1>8. Frozen' /\ Receiver'  BY <1>1, <1>5 DEF IInv, Store, Frozen, Stretches, Link, Position, Receiver, HandedOver
<1>9. ReadBackStands'
  <2>1. ASSUME NEW s \in seals, s.last <= state.verified  PROVE Stored(s)'
    <3>1. Key(s)[2] = s.last /\ s.last \in Nat /\ state.verified \in Nat
      BY DEF Key, IInv, Store, StoreTyped, SealType, StateType
    <3>2. Key(s) # k  BY <1>2, <2>1, <3>1
    <3> QED  BY <1>4, <2>1, <3>2 DEF IInv, Store, ReadBackStands, Stored
  <2> QED  BY <1>1, <2>1 DEF IInv, Store, ReadBackStands, Position
<1>10. Undamaged'  BY <1>1 DEF Undamaged
<1>11. Accounted'  BY <1>1, <1>4 DEF IInv, Store, Accounted
<1>12. Later  BY <1>1, <1>5, VerifiedBehindHead DEF IInv, Later
<1>13. Store'  BY <1>6, <1>7, <1>8, <1>9, <1>10, <1>11 DEF Store
<1> QED  BY <1>1, <1>12, <1>13, NoneRuns

LEMMA SealStep == ASSUME IInv, NEW r \in Runners, SealIntent(r)  PROVE IInv'
<1>1. PICK i : i = run[r].intent  OBVIOUS
<1>2. /\ run[r].pc = "seal"
      /\ seals' = IF MaySeal(i) THEN seals \cup {SealOf(i)} ELSE seals
      /\ intents' = IF Sealed(i, seals') THEN {j \in intents : j.cursor # i.cursor \/ j.segment # i.segment}
                    ELSE intents
      /\ Goto(r, IF MaySeal(i) THEN "verify" ELSE "twin")
      /\ UNCHANGED <<recorded, events, state, bucket, receiver, orphans, damaged>>
  BY <1>1 DEF SealIntent
<1>3. run[r] \in RunSet(i) /\ Knows(run[r])  BY <1>1, <1>2, Busy DEF RunSet
<1>4. Honoured(i) /\ Stretches(i) /\ Link(i) /\ i \in IntentType /\ i.first = i.cursor + 1
      /\ (~damaged => Stored(i))
  BY <1>1, <1>2, <1>3 DEF Knows, Honoured, Stretches
<1>5. ChainHead \in Nat /\ i.cursor \in Nat /\ i.last \in Nat /\ i.cursor < i.last
  BY <1>4, HeadFacts DEF IInv, Store, IntentType, Link
<1>6. ChainHead = i.cursor => ~Sealed(i, seals)
  <2> SUFFICES ASSUME ChainHead = i.cursor, NEW s \in seals, s.last = i.last  PROVE FALSE
    BY DEF Sealed
  <2> QED  BY <1>5, HeadFacts DEF IInv, Store
<1>7. CASE MaySeal(i)
  <2>1. ChainHead = i.cursor /\ HeadHash = i.prev  BY <1>7 DEF MaySeal
  <2>2. i \in intents  BY <1>4, <1>6, <2>1 DEF Honoured
  <2>3. PICK n : n = SealOf(i)  OBVIOUS
  <2>4. /\ n.first = i.first /\ n.last = i.last /\ n.segment = i.segment /\ n.prev = i.prev /\ n.rolling = i.rolling
        /\ n \in SealType
    BY <1>4, <2>3 DEF SealOf, IntentType, SealType
  <2>5. Link(n)  BY <1>4, <2>4 DEF Link
  <2>6. seals' = seals \cup {n}  BY <1>2, <1>7, <2>3
  <2>7. Chain' /\ ChainHead' = n.last /\ ChainHead < n.last
    BY <1>2, <1>4, <2>1, <2>4, <2>5, <2>6, ChainGrows DEF IInv, Store
  <2>8. Sealed(i, seals')  BY <2>4, <2>6 DEF Sealed
  <2>9. intents' = {}
    <3>1. \A j \in intents : j = i  BY <2>2 DEF IInv, Store, Frozen
    <3> QED  BY <1>2, <2>8, <3>1
  <2>10. \A j \in intents : j = i  BY <2>2 DEF IInv, Store, Frozen
  <2>11. Key(n) = Key(i)  BY <2>4 DEF Key
  <2>12. StoreTyped' /\ Rows' /\ Alarm(state.fault)'
    BY <1>2, <2>4, <2>6, <2>9 DEF IInv, Store, StoreTyped, Rows, Alarm
  <2>13. Frozen'  BY <2>9 DEF Frozen
  <2>14. n.last \in Nat /\ ~(n.last <= state.verified)
    BY <1>5, <2>1, <2>4, VerifiedBehindHead DEF IInv
  <2>15. ReadBackStands'
    <3>1. Position(state.verified, state.hash)'
      BY <1>2, <2>6 DEF IInv, Store, ReadBackStands, Position
    <3>2. \A s \in seals' : s.last <= state.verified => Stored(s)'
      BY <1>2, <2>6, <2>14 DEF IInv, Store, ReadBackStands, Stored
    <3> QED  BY <1>2, <3>1, <3>2 DEF ReadBackStands
  <2>16. Undamaged'
    <3>1. ~damaged => Stored(n)  BY <1>4, <2>4, <2>11 DEF Stored
    <3> QED  BY <1>2, <2>6, <2>9, <3>1 DEF IInv, Store, Undamaged, Stored
  <2>17. Accounted'  BY <1>2, <2>6, <2>10, <2>11 DEF IInv, Store, Accounted
  <2>18. Receiver'  BY <1>2, <2>6, <2>14, VerifiedBehindHead DEF IInv, Store, Receiver, HandedOver, StoreTyped, StateType
  <2>19. Later
    <3>1. \A s \in seals' \ seals : ChainHead < s.last /\ s.last \in Nat  BY <2>6, <2>7, <2>14
    <3>2. \A j \in intents : Sealed(j, seals')  BY <2>8, <2>10
    <3>3. /\ recorded <= recorded' /\ state.verified <= state'.verified /\ recorded' \in Nat /\ state'.verified \in Nat
      BY <1>2, VerifiedBehindHead DEF IInv
    <3>4. ChainHead' \in Nat /\ ChainHead <= ChainHead'  BY <1>5, <2>7, <2>14
    <3>5. \A j : Stored(j) => Stored(j)'  BY <1>2 DEF Stored
    <3>6. seals \subseteq seals' /\ receiver \subseteq receiver' /\ (damaged => damaged')  BY <1>2, <2>6
    <3> QED  BY <3>1, <3>2, <3>3, <3>4, <3>5, <3>6 DEF Later
  <2>20. Store'  BY <2>7, <2>12, <2>13, <2>15, <2>16, <2>17, <2>18 DEF Store
  <2>21. PICK q \in RunSet(i) :
           run' = [run EXCEPT ![r] = q] /\ q.pc = "verify" /\ q.read = run[r].read /\ q.fault = run[r].fault
    BY <1>1, <1>2, <1>7, Went DEF Steps
  <2>22. Knows(q)  BY <1>3, <2>21, Carry DEF Knows
  <2>23. RunOK(q) /\ Knows(q)'  BY <2>19, <2>22, SetOK, KnowsKept DEF IInv
  <2> QED  BY <2>19, <2>20, <2>21, <2>23, OneRuns
<1>8. CASE ~MaySeal(i)
  <2>1. seals' = seals  BY <1>2, <1>8
  <2>2. i \notin intents
    <3> SUFFICES ASSUME i \in intents  PROVE MaySeal(i)
      BY <1>8
    <3>1. i.cursor = ChainHead  BY DEF IInv, Store, Frozen
    <3>2. i.first - 1 = ChainHead  BY <1>4, <1>5, <3>1
    <3>3. i.prev = HeadHash  BY <1>4, <3>2, HeadFacts DEF IInv, Store, Link
    <3> QED  BY <3>1, <3>3 DEF MaySeal
  <2>3. Sealed(i, seals)  BY <1>4, <2>2 DEF Honoured
  <2>4. \A j \in intents : j.cursor # i.cursor  BY <1>6, <2>3 DEF IInv, Store, Frozen
  <2>5. intents' = intents  BY <1>2, <2>4
  <2>6. UNCHANGED <<store, damaged>>  BY <1>2, <2>1, <2>5 DEF store
  <2>7. PICK q \in RunSet(i) :
          /\ run' = [run EXCEPT ![r] = q] /\ q.pc = "twin" /\ q.read = run[r].read /\ q.fault = run[r].fault
          /\ q.intent = i
    BY <1>1, <1>2, <1>8, Went DEF Steps
  <2>8. Knows(q)  BY <1>3, <1>4, <2>3, <2>7 DEF Knows
  <2> QED  BY <2>6, <2>7, <2>8, SetOK, RunMoves
<1> QED  BY <1>7, <1>8

(* The seal found before s behind a position is the one s continues.        *)
Latest(before) == CHOOSE d \in before : \A o \in before : o.last <= d.last
Continues(s, known, hash, before) ==
    /\ s.prev = IF before = {} THEN hash ELSE Latest(before).rolling
    /\ s.first - 1 = IF before = {} THEN known ELSE MaxOf({d.last : d \in before})
LEMMA Predecessor ==
    ASSUME Store, NEW known, NEW hash, Position(known, hash), NEW s \in seals, known < s.last,
           NEW before, before = {d \in seals : d.last > known /\ d.last < s.last}
    PROVE  Continues(s, known, hash, before)
<1>1. /\ \A d \in seals : d.last \in Nat /\ d.first \in Nat /\ 1 <= d.first /\ d.first <= d.last
      /\ known \in Nat /\ Position(s.first - 1, s.prev)
  BY HeadFacts DEF Store, StoreTyped, SealType, Chain, Linked, Link
<1>2. \A d \in seals : d.last < s.last => d.last <= s.first - 1  BY <1>1 DEF Store, Chain, Ordered
<1>3. known <= s.first - 1
  <2>1. known = 0 \/ \E k \in seals : k.last = known  BY DEF Position
  <2> QED  BY <1>1, <1>2, <2>1
<1>4. CASE before = {}
  <2>1. s.first - 1 = known
    <3>1. s.first - 1 = 0 \/ \E p \in seals : p.last = s.first - 1  BY <1>1 DEF Position
    <3> QED  BY <1>1, <1>3, <1>4, <3>1
  <2>2. s.prev = hash  BY <1>1, <2>1, HeadFacts DEF Store
  <2> QED  BY <1>4, <2>1, <2>2 DEF Continues
<1>5. CASE before # {}
  <2>1. PICK p \in seals : p.last = s.first - 1 /\ p.rolling = s.prev
    <3>1. PICK d \in seals : d.last < s.last /\ d.last > known  BY <1>5
    <3>2. s.first - 1 # 0  BY <1>1, <1>2, <3>1
    <3> QED  BY <1>1, <3>2 DEF Position
  <2>2. p \in before  BY <1>1, <1>2, <1>5, <2>1
  <2>3. \A o \in before : o.last <= p.last  BY <1>2, <2>1
  <2>4. \A d \in before : (\A o \in before : o.last <= d.last) => d = p
    <3> SUFFICES ASSUME NEW d \in before, \A o \in before : o.last <= d.last  PROVE d = p
      OBVIOUS
    <3>1. d \in seals /\ d.last = p.last  BY <1>1, <2>2, <2>3
    <3> QED  BY <3>1 DEF Store, Chain, Ordered
  <2>5. Latest(before) = p  BY <2>2, <2>3, <2>4 DEF Latest
  <2>6. MaxOf({d.last : d \in before}) = p.last
    <3>1. before \subseteq SealType  BY DEF Store, StoreTyped
    <3> QED  BY <2>2, <2>3, <3>1, LastIs
  <2> QED  BY <1>5, <2>1, <2>5, <2>6 DEF Continues
<1> QED  BY <1>4, <1>5

LEMMA IntactIs ==
    ASSUME Store, NEW s \in seals, NEW prev
    PROVE  /\ Intact(s, prev) => Stored(s)
           /\ s.prev = prev /\ Stored(s) => Intact(s, prev)
<1>1. Key(s) = <<s.first, s.last>>  BY DEF Key
<1>2. s.rolling = Append(s.prev, s.segment)  BY DEF Store, Chain, Linked, Link
<1>3. ASSUME Stored(s)  PROVE bucket[Key(s)] = [segment |-> s.segment, rolling |-> s.rolling]
  <2>1. PICK o \in Object : o = bucket[Key(s)]  BY <1>3 DEF Stored, Store, StoreTyped
  <2>2. o.segment = s.segment /\ o.rolling = s.rolling  BY <1>3, <2>1 DEF Stored
  <2>3. o = [segment |-> s.segment, rolling |-> s.rolling]  BY <2>2 DEF Object
  <2> QED  BY <2>1, <2>3
<1>4. ASSUME Intact(s, prev)  PROVE Stored(s)
  <2>1. Key(s) \in DOMAIN bucket /\ bucket[Key(s)] = [segment |-> s.segment, rolling |-> s.rolling]
    BY <1>1, <1>4 DEF Intact
  <2> QED  BY <2>1 DEF Stored
<1>5. ASSUME s.prev = prev, Stored(s)  PROVE Intact(s, prev)
  <2>1. Key(s) \in DOMAIN bucket  BY <1>5 DEF Stored
  <2> QED  BY <1>1, <1>2, <1>3, <1>5, <2>1 DEF Intact
<1> QED  BY <1>4, <1>5

(* What a run reads back is what the bucket holds as sealed, and without     *)
(* damage it reads all of it back.                                          *)
LEMMA ReadBackIs ==
    ASSUME IInv, NEW r \in Runners, Knows(run[r])
    PROVE  /\ Verified(r) \subseteq {s \in seals : s.last > run[r].read.verified}
           /\ \A s \in Verified(r) : \A d \in seals :
                run[r].read.verified < d.last /\ d.last <= s.last => Stored(d)
           /\ ~damaged => Verified(r) = {s \in seals : s.last > run[r].read.verified}
<1> DEFINE known == run[r].read.verified
           behind == {s \in seals : s.last > known}
           before(s) == {d \in behind : d.last < s.last}
           prev(s) == IF before(s) = {} THEN run[r].read.hash
                      ELSE (CHOOSE d \in before(s) : \A o \in before(s) : o.last <= d.last).rolling
           from(s) == IF before(s) = {} THEN known ELSE MaxOf({d.last : d \in before(s)})
           good(s) == s.first > from(s) /\ Intact(s, prev(s))
<1>1. Verified(r) = {s \in behind : good(s) /\ \A d \in before(s) : good(d)}  BY DEF Verified
<1>2. Position(known, run[r].read.hash)  BY DEF Knows
<1>3. ASSUME NEW s \in behind  PROVE s.prev = prev(s) /\ s.first - 1 = from(s) /\ s.first \in Nat
  <2>1. PICK b : b = before(s)  OBVIOUS
  <2>2. known \in Nat /\ s.last \in Nat /\ s.first \in Nat  BY <1>2, HeadFacts DEF IInv, Store
  <2>3. known < s.last /\ s \in seals /\ b = {d \in seals : d.last > known /\ d.last < s.last}  BY <2>1, <2>2
  <2>4. Continues(s, known, run[r].read.hash, b)  BY <1>2, <2>3, Predecessor DEF IInv
  <2> QED  BY <2>1, <2>2, <2>4 DEF Continues, Latest
<1>4. \A s \in behind : good(s) => Stored(s)  BY IntactIs DEF IInv
<1>5. ~damaged => \A s \in behind : good(s)
  <2> SUFFICES ASSUME ~damaged, NEW s \in behind  PROVE good(s)
    OBVIOUS
  <2>1. Stored(s)  BY DEF IInv, Store, Undamaged
  <2>2. Intact(s, prev(s))  BY <1>3, <2>1, IntactIs DEF IInv
  <2>3. s.first > s.first - 1
    <3>1. s.first \in Nat  BY <1>3
    <3> QED  BY <3>1
  <2>4. s.first > from(s)  BY <1>3, <2>3
  <2> QED  BY <2>2, <2>4
<1>6. \A d, s \in seals : d.last < s.last \/ d = s \/ ~(d.last <= s.last)
  BY HeadFacts DEF IInv, Store, Chain, Ordered
<1> HIDE DEF good, prev, from
<1>7. \A s \in Verified(r) : \A d \in seals : known < d.last /\ d.last <= s.last => Stored(d)
  <2> SUFFICES ASSUME NEW s \in Verified(r), NEW d \in seals, known < d.last, d.last <= s.last  PROVE Stored(d)
    OBVIOUS
  <2>1. d \in behind /\ s \in behind  BY <1>1, <1>2, HeadFacts DEF IInv, Store
  <2>2. d = s \/ d \in before(s)  BY <1>6, <2>1
  <2> QED  BY <1>1, <1>4, <2>1, <2>2
<1> QED  BY <1>1, <1>5, <1>7

LEMMA AdvanceStep == ASSUME IInv, NEW r \in Runners, AdvanceVerified(r)  PROVE IInv'
<1>1. run[r].pc = "verify"  BY DEF AdvanceVerified
<1>2. run[r] \in RunSet(run[r].intent) /\ Knows(run[r])  BY <1>1, Busy DEF RunSet
<1>3. PICK known : known = run[r].read.verified  OBVIOUS
<1>4. PICK all : all = Verified(r)  OBVIOUS
<1>5. PICK upto \in {known} \cup {s.last : s \in all} :
        /\ state' = IF upto # known /\ state.verified = known
                    THEN [state EXCEPT !.verified = upto, !.hash = (CHOOSE s \in all : s.last = upto).rolling]
                    ELSE state
        /\ IF \E s \in all : s.last > upto
           THEN BucketFails(r)
           ELSE \/ Goto(r, "anchor")
                \/ /\ {s \in seals : s.last > known} # all
                   /\ \E s \in seals : Throw(r, "verification-failed", Key(s), "anchor")
  BY <1>3, <1>4 DEF AdvanceVerified
<1>6. UNCHANGED <<recorded, events, intents, seals, bucket, receiver, orphans, damaged>>  BY DEF AdvanceVerified
<1>7. /\ all \subseteq {s \in seals : s.last > known}
      /\ \A s \in all : \A d \in seals : known < d.last /\ d.last <= s.last => Stored(d)
      /\ ~damaged => all = {s \in seals : s.last > known}
  BY <1>2, <1>3, <1>4, ReadBackIs
<1>8. state \in StateType /\ \A s \in seals : s.last \in Nat /\ s.rolling \in Hash
  BY DEF IInv, Store, StoreTyped, SealType
<1>9. /\ state' \in StateType /\ state.verified <= state'.verified /\ state'.verified \in Nat
      /\ state'.anchored = state.anchored /\ state'.fault = state.fault
      /\ Position(state'.verified, state'.hash)
      /\ \A s \in seals : s.last <= state'.verified => Stored(s)
  <2>1. CASE upto # known /\ state.verified = known
    <3>1. PICK s \in all : s = CHOOSE x \in all : x.last = upto  BY <1>5, <2>1
    <3>2. s \in seals /\ s.last = upto /\ s.last > known  BY <1>5, <1>7, <2>1, <3>1
    <3>3. state' = [state EXCEPT !.verified = upto, !.hash = s.rolling]  BY <1>5, <2>1, <3>1
    <3>4. /\ state' \in StateType /\ state'.verified = upto /\ state'.hash = s.rolling
          /\ state'.anchored = state.anchored /\ state'.fault = state.fault
      BY <1>8, <3>2, <3>3 DEF StateType
    <3>5. state.verified \in Nat /\ upto \in Nat /\ state.verified <= upto  BY <1>8, <2>1, <3>2 DEF StateType
    <3>6. Position(upto, s.rolling)  BY <3>2 DEF Position
    <3>7. ASSUME NEW d \in seals, d.last <= upto  PROVE Stored(d)
      <4>1. d.last <= known \/ known < d.last  BY <1>8, <2>1, <3>5
      <4> QED  BY <1>7, <2>1, <3>2, <3>7, <4>1 DEF IInv, Store, ReadBackStands
    <3> QED  BY <3>4, <3>5, <3>6, <3>7
  <2>2. CASE ~(upto # known /\ state.verified = known)
    <3>1. state' = state /\ state.verified \in Nat  BY <1>5, <1>8, <2>2 DEF StateType
    <3> QED  BY <1>8, <3>1 DEF IInv, Store, ReadBackStands
  <2> QED  BY <2>1, <2>2
<1>10. ChainHead' = ChainHead  BY <1>6 DEF ChainHead
<1>11. state.verified \in Nat /\ state.anchored \in Nat  BY <1>8 DEF StateType
<1>12. StoreTyped' /\ Alarm(state.fault)'  BY <1>6, <1>9 DEF IInv, Store, StoreTyped, Alarm
<1>13. Rows'
  <2>1. \A e \in state'.verified + 1 .. recorded : e \in state.verified + 1 .. recorded
    BY <1>9, <1>11 DEF IInv, Store, StoreTyped
  <2> QED  BY <1>6, <2>1 DEF IInv, Store, Rows
<1>14. Chain'
  BY <1>6 DEF IInv, Store, Chain, Linked, Link, Position, Ordered, Prefixes, EachIsSealed, Counted, Covered, Topped
<1>15. Frozen' /\ Undamaged' /\ Accounted'
  BY <1>6, <1>10 DEF IInv, Store, Frozen, Stretches, Link, Position, Undamaged, Stored, Accounted
<1>16. ReadBackStands'  BY <1>6, <1>9 DEF ReadBackStands, Position, Stored
<1>17. Receiver'
  <2>1. \A c \in receiver : \E s \in seals : c = Checkpoint(s) /\ s.last <= state'.verified
    BY <1>8, <1>9, <1>11 DEF IInv, Store, Receiver
  <2>2. state.anchored <= state'.verified /\ HandedOver(state.anchored)  BY <1>9, <1>11 DEF IInv, Store, Receiver
  <2> QED  BY <1>6, <1>9, <2>1, <2>2 DEF Receiver, HandedOver, Checkpoint
<1>18. Later  BY <1>6, <1>9, <1>10, VerifiedBehindHead DEF IInv, Later, Stored
<1>19. Store'  BY <1>12, <1>13, <1>14, <1>15, <1>16, <1>17 DEF Store
<1>20. ASSUME NEW q \in RunSet(run[r].intent), run' = [run EXCEPT ![r] = q], q.pc \in {"prune", "anchor"},
              q.read = run[r].read, Alarm(q.fault)
       PROVE  IInv'
  <2>1. Knows(q)  BY <1>2, <1>20, Carry
  <2>2. RunOK(q) /\ Knows(q)'  BY <1>18, <2>1, SetOK, KnowsKept DEF IInv
  <2> QED  BY <1>18, <1>19, <1>20, <2>2, OneRuns
<1>21. Alarm(run[r].fault)  BY <1>2 DEF Knows
<1>22. CASE BucketFails(r)
  BY <1>1, <1>20, <1>22, BucketFailed
<1>23. ASSUME damaged, NEW s \in seals, Throw(r, "verification-failed", Key(s), "anchor")  PROVE IInv'
  <2>0. Key(s) \in Nat \X Nat  BY DEF IInv, Store, StoreTyped, SealType, Key
  <2>1. PICK q \in RunSet(run[r].intent) :
          /\ run' = [run EXCEPT ![r] = q] /\ q.pc = "anchor" /\ q.read = run[r].read
          /\ q.fault.kind = "verification-failed" \/ q.fault = run[r].fault
    BY <1>1, <1>23, <2>0, Thrown, Named
  <2>2. Alarm(q.fault)  BY <1>21, <1>23, <2>1 DEF Alarm
  <2> QED  BY <1>20, <2>1, <2>2
<1>24. CASE Goto(r, "anchor")
  <2>1. PICK q \in RunSet(run[r].intent) :
          run' = [run EXCEPT ![r] = q] /\ q.pc = "anchor" /\ q.read = run[r].read /\ q.fault = run[r].fault
    BY <1>1, <1>24, Went DEF Steps
  <2> QED  BY <1>20, <1>21, <2>1
<1> QED  BY <1>5, <1>7, <1>22, <1>23, <1>24

(* The receiver takes every checkpoint it is given: the one before it is    *)
(* there, and nothing else ever was in its place.                           *)
LEMMA AlwaysAccepted ==
    ASSUME Store, NEW n \in Nat, HandedOver(n), NEW d \in seals, d.first <= n + 1
    PROVE  Accepts(Checkpoint(d))
<1> DEFINE c == Checkpoint(d)
<1>1. \A s \in seals : /\ s.last \in Nat /\ s.first \in Nat /\ Checkpoint(s).last = s.last
                       /\ Checkpoint(s).prev = s.prev /\ Checkpoint(s).rolling = s.rolling
                       /\ 1 <= s.first /\ s.first <= s.last
  BY DEF Store, StoreTyped, SealType, Checkpoint, Chain, Linked, Link
<1>2. \A e \in receiver : \E s \in seals : e = Checkpoint(s)  BY DEF Store, Receiver
<1>3. CASE \E e \in receiver : e.last = c.last
  <2>1. PICK e \in receiver : e.last = c.last  BY <1>3
  <2>2. PICK s \in seals : e = Checkpoint(s)  BY <1>2
  <2>3. s = d  BY <1>1, <2>1, <2>2 DEF Store, Chain, Ordered
  <2> QED  BY <1>3, <2>2, <2>3 DEF Accepts
<1>4. CASE ~ \E e \in receiver : e.last = c.last
  <2>1. \A s \in seals : s.last < d.last => s.last <= d.first - 1  BY <1>1 DEF Store, Chain, Ordered
  <2>2. CASE d.first - 1 = 0 /\ d.prev = <<>>
    <3>1. {e \in receiver : e.last < c.last} = {}
      <4> SUFFICES ASSUME NEW e \in receiver, e.last < c.last  PROVE FALSE
        OBVIOUS
      <4>1. PICK s \in seals : e = Checkpoint(s)  BY <1>2
      <4> QED  BY <1>1, <2>1, <2>2, <4>1
    <3> QED  BY <1>1, <1>4, <2>2, <3>1 DEF Accepts
  <2>3. CASE \E p \in seals : p.last = d.first - 1 /\ p.rolling = d.prev
    <3>1. PICK p \in seals : p.last = d.first - 1 /\ p.rolling = d.prev  BY <2>3
    <3>2. p.last <= n /\ p.last < d.last  BY <1>1, <3>1
    <3>3. Checkpoint(p) \in receiver /\ Checkpoint(p).last < c.last /\ Checkpoint(p).rolling = c.prev
      BY <1>1, <3>1, <3>2 DEF HandedOver
    <3>4. ASSUME NEW o \in receiver, o.last < c.last  PROVE o.last <= Checkpoint(p).last
      <4>1. PICK s \in seals : o = Checkpoint(s)  BY <1>2
      <4> QED  BY <1>1, <2>1, <3>1, <3>4, <4>1
    <3> HIDE DEF c
    <3>5. \E x \in {e \in receiver : e.last < c.last} :
            x.rolling = c.prev /\ \A o \in {e \in receiver : e.last < c.last} : o.last <= x.last
      BY <3>3, <3>4
    <3>6. Accepts(c)  BY <1>4, <3>5 DEF Accepts
    <3> QED  BY <3>6 DEF c
  <2> QED  BY <2>2, <2>3 DEF Store, Chain, Linked, Link, Position
<1> QED  BY <1>3, <1>4

LEMMA NextPendingIs ==
    ASSUME IInv, NEW r \in Runners, run[r].cursor \in Nat, run[r].upto \in Nat, Pending(r) # {}
    PROVE  \E d \in seals : /\ NextPending(r) = d /\ d.first <= run[r].cursor + 1
                            /\ d.last \in Nat /\ d.last <= run[r].upto
                            /\ \A s \in seals : s.last <= d.last => s = d \/ s.last <= run[r].cursor
<1>1. \A s \in seals : s.last \in Nat /\ s.first \in Nat  BY DEF IInv, Store, StoreTyped, SealType
<1>2. PICK n \in Nat : n = run[r].cursor  OBVIOUS
<1>3. \A s, d \in seals : (d.last < s.last => d.last < s.first) /\ (d.last = s.last => d = s)
  BY DEF IInv, Store, Chain, Ordered
<1>4. PICK o \in seals : o.last > n /\ o.last <= run[r].upto  BY <1>2 DEF Pending
<1>5. PICK d \in seals : d.first <= n + 1 /\ n + 1 <= d.last /\ d.last <= o.last
  <2>1. n + 1 \in 1..o.last  BY <1>1, <1>4
  <2> QED  BY <1>4, <2>1 DEF IInv, Store, Chain, Covered
<1>6. \A s \in seals : s.last <= d.last => s = d \/ s.last <= n  BY <1>1, <1>3, <1>5
<1>7. d \in Pending(r)  BY <1>1, <1>2, <1>4, <1>5 DEF Pending
<1>8. \A x \in Pending(r) : x \in seals /\ d.last <= x.last /\ (x.last <= d.last => x = d)
  BY <1>1, <1>2, <1>6 DEF Pending
<1>9. NextPending(r) = d
  <2>1. \A x \in Pending(r) : (\A y \in Pending(r) : x.last <= y.last) => x = d  BY <1>7, <1>8
  <2> QED  BY <1>7, <1>8, <2>1 DEF NextPending
<1>10. d.last <= run[r].upto  BY <1>7 DEF Pending
<1> QED  BY <1>1, <1>2, <1>5, <1>6, <1>9, <1>10

LEMMA PostStep == ASSUME IInv, NEW r \in Runners, Post(r)  PROVE IInv'
<1>1. PICK d : d = NextPending(r)  OBVIOUS
<1>2. PICK c : c = Checkpoint(d)  OBVIOUS
<1>3. /\ run[r].pc = "post" /\ Pending(r) # {}
      /\ \/ IF Accepts(c) THEN receiver' = receiver \cup {c} /\ run' = [run EXCEPT ![r].cursor = d.last]
            ELSE receiver' = receiver /\ Throw(r, "anchor-conflict", Key(d), "anchored")
         \/ /\ receiver' \in {receiver, IF Accepts(c) THEN receiver \cup {c} ELSE receiver}
            /\ Goto(r, "anchored")
      /\ UNCHANGED <<recorded, events, intents, seals, state, bucket, orphans, damaged>>
  BY <1>1, <1>2 DEF Post
<1>4. run[r] \in RunSet(run[r].intent) /\ Knows(run[r]) /\ run[r].cursor \in Nat /\ run[r].upto \in Nat
  BY <1>3, Busy DEF RunSet, RunFields
<1>5. PICK n \in Nat : n = run[r].cursor  BY <1>4
<1>6. n <= state.verified /\ HandedOver(n) /\ run[r].upto <= state.verified /\ state.verified \in Nat
  BY <1>3, <1>4, <1>5 DEF Knows, IInv, Store, StoreTyped, StateType
<1>7. /\ d \in seals /\ d.first <= n + 1 /\ d.last \in Nat /\ d.last <= run[r].upto
      /\ \A s \in seals : s.last <= d.last => s = d \/ s.last <= n
  BY <1>1, <1>3, <1>4, <1>5, NextPendingIs
<1>8. Accepts(c)  BY <1>2, <1>6, <1>7, AlwaysAccepted DEF IInv
<1>9. d.last <= state.verified  BY <1>4, <1>6, <1>7
<1>10. receiver' \in {receiver, receiver \cup {c}}  BY <1>3, <1>8
<1>11. ChainHead' = ChainHead  BY <1>3 DEF ChainHead
<1>12. StoreTyped' /\ Rows' /\ Alarm(state.fault)'  BY <1>3 DEF IInv, Store, StoreTyped, Rows, Alarm
<1>13. Chain'
  BY <1>3 DEF IInv, Store, Chain, Linked, Link, Position, Ordered, Prefixes, EachIsSealed, Counted, Covered, Topped
<1>14. Frozen' /\ Undamaged' /\ Accounted' /\ ReadBackStands'
  BY <1>3, <1>11
  DEF IInv, Store, Frozen, Stretches, Link, Position, Undamaged, Stored, Accounted, ReadBackStands
<1>15. Receiver'
  <2>1. \A x \in receiver' : \E s \in seals : x = Checkpoint(s) /\ s.last <= state.verified
    BY <1>2, <1>7, <1>9, <1>10 DEF IInv, Store, Receiver
  <2> QED  BY <1>3, <1>10, <2>1 DEF IInv, Store, Receiver, HandedOver
<1>16. Store'  BY <1>12, <1>13, <1>14, <1>15 DEF Store
<1>17. Later  BY <1>3, <1>10, <1>11, VerifiedBehindHead DEF IInv, Later, Stored
<1>18. CASE receiver' = receiver \cup {c} /\ run' = [run EXCEPT ![r].cursor = d.last]
  <2> DEFINE new == [run[r] EXCEPT !.cursor = d.last]
  <2>1. PICK q : q = new  OBVIOUS
  <2>2. /\ q \in RunSet(run[r].intent) /\ q.pc = "post" /\ q.read = run[r].read /\ q.fault = run[r].fault
        /\ q.cursor = d.last /\ q.upto = run[r].upto
    BY <1>3, <1>4, <1>7, <2>1 DEF RunSet
  <2>3. run' = [run EXCEPT ![r] = q]  BY <1>18, <2>1
  <2>4. PICK p : p = run[r]  OBVIOUS
  <2>5. Knows(p)'  BY <1>3, <1>4, <1>17, <2>4, Busy, KnowsKept DEF IInv
  <2>6. HandedOver(d.last)'
    <3>1. \A s \in seals : s.last <= d.last => Checkpoint(s) \in receiver \cup {c}
      BY <1>2, <1>6, <1>7 DEF HandedOver
    <3> QED  BY <1>3, <1>18, <3>1 DEF HandedOver
  <2>7. p.pc = "post" /\ q.read = p.read /\ q.fault = p.fault /\ q.upto = p.upto  BY <1>3, <2>2, <2>4
  <2>8. Knows(q)'  BY <1>3, <1>9, <2>2, <2>5, <2>6, <2>7 DEF Knows
  <2> QED  BY <1>16, <1>17, <2>2, <2>3, <2>8, SetOK, OneRuns
<1>19. CASE Goto(r, "anchored")
  <2>1. PICK q \in RunSet(run[r].intent) :
          /\ run' = [run EXCEPT ![r] = q] /\ q.pc = "anchored" /\ q.read = run[r].read /\ q.fault = run[r].fault
          /\ q.cursor = run[r].cursor
    BY <1>3, <1>19, Went DEF Steps
  <2>2. Knows(q)  BY <1>3, <1>4, <2>1 DEF Knows
  <2>3. RunOK(q) /\ Knows(q)'  BY <1>17, <2>2, SetOK, KnowsKept DEF IInv
  <2> QED  BY <1>16, <1>17, <2>1, <2>3, OneRuns
<1> QED  BY <1>3, <1>8, <1>18, <1>19

-----------------------------------------------------------------------------
LEMMA Initially == ASSUME Init  PROVE IInv
<1>1. <<>> \in Hash  BY DEF Hash
<1>2. state \in StateType  BY <1>1 DEF Init, StateType, FaultKinds, Reports, NoFault, ArchiveFault
<1>3. /\ recorded = 0 /\ events = {} /\ intents = {} /\ seals = {} /\ orphans = {} /\ bucket = <<>>
      /\ receiver = {} /\ damaged = FALSE /\ state.verified = 0 /\ state.hash = <<>> /\ state.anchored = 0
      /\ state.fault = NoFault
  BY DEF Init
<1>4. DOMAIN bucket = {}  BY <1>3
<1>5. bucket \in [DOMAIN bucket -> Object]  BY <1>3
<1>6. StoreTyped  BY <1>2, <1>3, <1>4, <1>5 DEF StoreTyped
<1>7. IsFiniteSet({})  BY FS_EmptySet
<1>8. Chain
  BY <1>3, <1>7 DEF Chain, Linked, Ordered, Prefixes, EachIsSealed, Counted, Covered, Topped
<1>9. Frozen /\ Rows /\ ReadBackStands /\ Undamaged /\ Accounted /\ Receiver /\ Alarm(state.fault)
  BY <1>3, <1>4 DEF Frozen, Rows, ReadBackStands, Position, Undamaged, Accounted, Receiver, HandedOver, Alarm, NoFault,
      ArchiveFault, None
<1>10. RunsTyped /\ Known  BY DEF Init, RunsTyped, RunOK, Known
<1> QED  BY <1>6, <1>8, <1>9, <1>10 DEF IInv, Store

LEMMA EachStep == ASSUME IInv, [Next]_vars  PROVE IInv'
<1>1. CASE UNCHANGED vars
  <2>1. Store' /\ Later /\ UNCHANGED run  BY <1>1, StoreSame DEF vars, store, IInv
  <2> QED  BY <2>1, NoneRuns
<1>2. CASE Record \/ Lapse \/ Expire \/ Damage  BY <1>2, RecordStep, LeaseSteps, DamageStep
<1>3. ASSUME NEW r \in Runners, ClaimLease(r) \/ Step(r) \/ Die(r)  PROVE IInv'
  BY <1>3, ClaimLeaseStep, DieStep, ReadHeadStep, LookStep, FreezeStep, RereadStep, ResumeStep, GetStep, PutStep,
     SealStep, TwinStep, AdvanceStep, ReadAnchorsStep, PostStep, AnchoredStep, ReconcileStep, PruneStep, FinishStep
  DEF Step
<1> QED  BY <1>1, <1>2, <1>3 DEF Next

LEMMA AlwaysIInv == Spec => []IInv
<1>1. Init => IInv  BY Initially
<1>2. IInv /\ [Next]_vars => IInv'  BY EachStep
<1> QED  BY <1>1, <1>2, PTL DEF Spec

(* No run accuses another, and no object is without an owner.               *)
THEOREM AlarmsAreTrue == Spec => []NoFalseAlarm
<1>1. IInv => NoFalseAlarm  BY NoneUnknown DEF IInv, Store, Alarm, NoFalseAlarm
<1> QED  BY <1>1, AlwaysIInv, PTL

-----------------------------------------------------------------------------
(* What has been read back.                                                 *)
LEMMA HashTypes ==
    ASSUME Store
    PROVE  /\ state.hash \in Seq(SUBSET Nat) /\ DOMAIN state.hash = 1..Len(state.hash) /\ Len(state.hash) \in Nat
           /\ \A s \in seals : s.rolling \in Seq(SUBSET Nat) /\ s.prev \in Seq(SUBSET Nat) /\ s.segment \in SUBSET Nat
                               /\ Len(s.rolling) \in Nat /\ Len(s.rolling) >= 1 /\ Len(s.prev) = Len(s.rolling) - 1
<1>1. state.hash \in Seq(SUBSET Nat)  BY DEF Store, StoreTyped, StateType, Hash
<1>2. DOMAIN state.hash = 1..Len(state.hash) /\ Len(state.hash) \in Nat  BY <1>1
<1>3. ASSUME NEW s \in seals
      PROVE  s.rolling \in Seq(SUBSET Nat) /\ s.prev \in Seq(SUBSET Nat) /\ s.segment \in SUBSET Nat
             /\ Len(s.rolling) \in Nat /\ Len(s.rolling) >= 1 /\ Len(s.prev) = Len(s.rolling) - 1
  <2>1. s.rolling \in Seq(SUBSET Nat) /\ s.prev \in Seq(SUBSET Nat) /\ s.segment \in SUBSET Nat
        /\ s.rolling = Append(s.prev, s.segment)
    BY DEF Store, StoreTyped, SealType, Hash, Chain, Linked, Link
  <2>2. Len(s.rolling) = Len(s.prev) + 1 /\ Len(s.prev) \in Nat  BY <2>1, Appended
  <2> QED  BY <2>1, <2>2
<1> QED  BY <1>1, <1>2, <1>3

(* A hash names one seal.                                                   *)
LEMMA OneSeal == ASSUME Store, NEW s \in seals, NEW d \in seals, s.rolling = d.rolling  PROVE s = d
<1>1. s.last \in Nat /\ d.last \in Nat  BY DEF Store, StoreTyped, SealType
<1>2. Len(s.rolling) = Len(d.rolling) /\ Len(d.rolling) \in Nat  BY HashTypes
<1>3. ~(s.last < d.last) /\ ~(d.last < s.last)  BY <1>2 DEF Store, Chain, Prefixes
<1> QED  BY <1>1, <1>3 DEF Store, Chain, Ordered

SealAt(d, i) == d \in seals /\ d.rolling = SubSeq(state.hash, 1, i)

LEMMA EndOfReadBack ==
    ASSUME Store, state.verified # 0 \/ state.hash # <<>>
    PROVE  \E h \in seals : h.last = state.verified /\ h.rolling = state.hash
  BY DEF Store, ReadBackStands, Position

LEMMA SealsReadBack ==
    ASSUME Store, NEW d \in seals, d.last <= state.verified
    PROVE  Len(d.rolling) \in DOMAIN state.hash /\ SealAt(d, Len(d.rolling))
<1>1. d.last \in Nat /\ state.verified \in Nat /\ 1 <= d.last
  BY DEF Store, StoreTyped, SealType, StateType, Chain, Linked, Link
<1>2. PICK h \in seals : h.last = state.verified /\ h.rolling = state.hash  BY <1>1, EndOfReadBack
<1>3. CASE d = h  BY <1>2, <1>3, HashTypes, WholePrefix DEF SealAt
<1>4. CASE d # h
  <2>1. d.last < h.last  BY <1>1, <1>2, <1>4 DEF Store, Chain, Ordered
  <2>2. Len(d.rolling) < Len(h.rolling) /\ d.rolling = SubSeq(h.rolling, 1, Len(d.rolling))
    BY <2>1 DEF Store, Chain, Prefixes
  <2> QED  BY <1>2, <2>2, HashTypes DEF SealAt
<1> QED  BY <1>3, <1>4

LEMMA ReadBackAt ==
    ASSUME Store, NEW i \in DOMAIN state.hash
    PROVE  \E d \in seals : /\ SealAt(d, i) /\ d.last <= state.verified /\ Len(d.rolling) = i
                            /\ ReadBack[i] = d.segment
<1>1. i \in 1..Len(state.hash)  BY HashTypes
<1>2. state.hash # <<>>  BY <1>1
<1>3. PICK h \in seals : h.last = state.verified /\ h.rolling = state.hash  BY <1>2, EndOfReadBack
<1>4. PICK d \in seals : d.last <= h.last /\ d.rolling = SubSeq(h.rolling, 1, i)
  BY <1>1, <1>3 DEF Store, Chain, EachIsSealed
<1>5. SealAt(d, i) /\ d.last <= state.verified  BY <1>3, <1>4 DEF SealAt
<1>6. Len(d.rolling) = i  BY <1>1, <1>3, <1>4, HashTypes, Prefix
<1>7. \A s \in seals : s.rolling = SubSeq(state.hash, 1, i) => s = d  BY <1>5, OneSeal DEF SealAt
<1>8. (CHOOSE s \in seals : s.rolling = SubSeq(state.hash, 1, i)) = d  BY <1>5, <1>7 DEF SealAt
<1>9. bucket[Key(d)].segment = d.segment  BY <1>5 DEF Store, ReadBackStands, Stored
<1>10. ReadBack[i] = d.segment  BY <1>8, <1>9 DEF ReadBack
<1> QED  BY <1>5, <1>6, <1>10

LEMMA SegmentOf ==
    ASSUME Store, NEW i \in DOMAIN state.hash, NEW d, SealAt(d, i)
    PROVE  ReadBack[i] = d.segment
<1>1. PICK s \in seals : SealAt(s, i) /\ ReadBack[i] = s.segment  BY ReadBackAt
<1>2. s = d  BY <1>1, OneSeal DEF SealAt
<1> QED  BY <1>1, <1>2

(* Everything up to the last seal read back is held.                        *)
LEMMA HeldIs == ASSUME Store, NEW e \in 1..state.verified  PROVE e \in Archive!Held
<1>1. state.verified \in Nat  BY DEF Store, StoreTyped, StateType
<1>2. PICK h \in seals : h.last = state.verified  BY <1>1, EndOfReadBack
<1>3. PICK d \in seals : d.first <= e /\ e <= d.last /\ d.last <= h.last  BY <1>2 DEF Store, Chain, Covered
<1>4. PICK i \in DOMAIN state.hash : SealAt(d, i)  BY <1>2, <1>3, SealsReadBack
<1>5. ReadBack[i] = d.first..d.last  BY <1>4, SegmentOf DEF Store, Chain, Linked, Link
<1>6. d.first \in Nat /\ d.last \in Nat  BY DEF Store, StoreTyped, SealType
<1>7. e \in ReadBack[i] /\ i \in DOMAIN ReadBack  BY <1>1, <1>3, <1>5, <1>6 DEF ReadBack
<1> QED  BY <1>7 DEF Archive!Held

LEMMA Everything == ASSUME Store  PROVE Archive!NothingLost
<1> SUFFICES ASSUME NEW e \in 1..recorded  PROVE e \in events \/ e \in Archive!Held
  BY DEF Archive!NothingLost
<1>1. state.verified \in Nat /\ recorded \in Nat  BY DEF Store, StoreTyped, StateType
<1>2. CASE e <= state.verified  BY <1>1, <1>2, HeldIs
<1>3. CASE ~(e <= state.verified)  BY <1>1, <1>3 DEF Store, Rows
<1> QED  BY <1>2, <1>3

LEMMA NoFork == ASSUME Store  PROVE Unforked
<1>1. \A s \in seals : /\ s.last \in Nat /\ s.first \in Nat /\ 1 <= s.first /\ s.first <= s.last
                       /\ s.segment = s.first..s.last /\ s.rolling = Append(s.prev, s.segment)
  BY DEF Store, StoreTyped, SealType, Chain, Linked, Link
<1>2. ASSUME NEW s \in seals, NEW before, before = {d \in seals : d.last < s.last}
      PROVE  Continues(s, 0, <<>>, before)
  <2>1. before = {d \in seals : d.last > 0 /\ d.last < s.last}  BY <1>1, <1>2
  <2>2. Position(0, <<>>) /\ 0 < s.last  BY <1>1 DEF Position
  <2> QED  BY <2>1, <2>2, Predecessor
<1>3. ASSUME NEW s \in seals, NEW before, before = {d \in seals : d.last < s.last}
      PROVE  /\ s.first = MaxOf({d.last : d \in before}) + 1 /\ Len(s.rolling) = Cardinality(before) + 1
             /\ \A d \in before : d.rolling = SubSeq(s.rolling, 1, Len(d.rolling))
  <2>1. s.first - 1 = MaxOf({d.last : d \in before})
    <3>1. CASE before = {}
      <4>1. {d.last : d \in before} = {}  BY <3>1
      <4> QED  BY <1>2, <1>3, <3>1, <4>1 DEF Continues, MaxOf
    <3>2. CASE before # {}  BY <1>2, <1>3, <3>2 DEF Continues
    <3> QED  BY <3>1, <3>2
  <2>2. s.first = (s.first - 1) + 1  BY <1>1
  <2> QED  BY <1>3, <2>1, <2>2 DEF Store, Chain, Counted, Prefixes
<1>4. ASSUME NEW c \in receiver
      PROVE  c.last <= state.verified /\ c.rolling = SubSeq(state.hash, 1, Len(c.rolling))
  <2>1. PICK s \in seals : c = Checkpoint(s) /\ s.last <= state.verified  BY DEF Store, Receiver
  <2>2. c.last = s.last /\ c.rolling = s.rolling  BY <2>1 DEF Checkpoint
  <2> QED  BY <2>1, <2>2, SealsReadBack DEF SealAt
<1>5. ASSUME NEW s \in seals  PROVE ChainOk(s)
  <2>1. PICK before : before = {d \in seals : d.last < s.last}  OBVIOUS
  <2>2. s.prev = IF before = {} THEN <<>> ELSE (CHOOSE d \in before : \A o \in before : o.last <= d.last).rolling
    <3>1. Continues(s, 0, <<>>, before)  BY <1>2, <2>1
    <3> QED  BY <3>1 DEF Continues, Latest
  <2> QED  BY <1>1, <2>1, <2>2 DEF ChainOk
<1>6. \A n : VerifyAuditArchive(n)  BY <1>5 DEF VerifyAuditArchive, Newest
<1> QED  BY <1>1, <1>3, <1>4, <1>6 DEF Unforked

(* The chain never forks, and with the table it holds every event.          *)
THEOREM ChainHolds == Spec => []OneChain
<1>1. IInv => OneChain  BY NoFork, Everything DEF IInv, OneChain
<1> QED  BY <1>1, AlwaysIInv, PTL

-----------------------------------------------------------------------------
(* AuditArchive implements AuditChain.                                      *)
(* The facts above of the state a step leads to.                            *)
ReadBackFacts ==
    /\ \A i \in DOMAIN state.hash : \A d : SealAt(d, i) => ReadBack[i] = d.segment
    /\ \A d \in seals : d.last <= state.verified =>
            Len(d.rolling) \in DOMAIN state.hash /\ SealAt(d, Len(d.rolling))
    /\ state.verified # 0 => \E h \in seals : h.last = state.verified /\ h.rolling = state.hash
    /\ ReadBack \in Seq(SUBSET Nat) /\ Len(ReadBack) = Len(state.hash) /\ Len(state.hash) \in Nat
    /\ DOMAIN state.hash = 1..Len(state.hash)
    /\ Archive!Contiguous(ReadBack)

LEMMA ReadBackTypes ==
    ASSUME Store
    PROVE  /\ ReadBack \in Seq(SUBSET Nat) /\ Len(ReadBack) = Len(state.hash)
           /\ Len(state.hash) \in Nat /\ DOMAIN state.hash = 1..Len(state.hash)
<1>1. Len(state.hash) \in Nat /\ DOMAIN state.hash = 1..Len(state.hash)  BY HashTypes
<1>2. ReadBack \in [1..Len(state.hash) -> SUBSET Nat]
  <2>1. ReadBack = [i \in DOMAIN state.hash |-> ReadBack[i]] /\ DOMAIN ReadBack = DOMAIN state.hash
    BY DEF ReadBack
  <2>2. \A i \in 1..Len(state.hash) : ReadBack[i] \in SUBSET Nat  BY <1>1, ReadBackAt, HashTypes
  <2> QED  BY <1>1, <2>1, <2>2
<1> QED  BY <1>1, <1>2

LEMMA ReadBackFollows == ASSUME Store  PROVE Archive!Contiguous(ReadBack)
<1> DEFINE n == Len(state.hash)
           at(i) == CHOOSE d \in seals : SealAt(d, i)
           ends == [i \in 0..n |-> IF i = 0 THEN 0 ELSE at(i).last]
<1>1. n \in Nat /\ DOMAIN state.hash = 1..n /\ state.hash \in Seq(SUBSET Nat)  BY HashTypes
<1>2. ASSUME NEW i \in 1..n
      PROVE  at(i) \in seals /\ SealAt(at(i), i) /\ ReadBack[i] = at(i).segment /\ Len(at(i).rolling) = i
  BY <1>1, ReadBackAt, OneSeal DEF SealAt
<1>3. \A s \in seals : /\ s.last \in Nat /\ s.first \in Nat /\ 1 <= s.first /\ s.first <= s.last
                       /\ s.last <= recorded /\ s.segment = s.first..s.last
                       /\ s.rolling = Append(s.prev, s.segment) /\ Position(s.first - 1, s.prev)
  BY DEF Store, StoreTyped, SealType, Chain, Linked, Link
<1>4. recorded \in Nat  BY DEF Store, StoreTyped
<1> HIDE DEF at
<1>5. ends \in [0..n -> 0..recorded]  BY <1>1, <1>2, <1>3, <1>4
<1>6. ASSUME NEW i \in 1..n  PROVE at(i).first = ends[i - 1] + 1
  <2>1. PICK d \in seals : d = at(i) /\ SealAt(d, i) /\ Len(d.rolling) = i  BY <1>2
  <2>2. Len(d.prev) = i - 1  BY <2>1, HashTypes
  <2>3. CASE i = 1
    <3>1. ~ \E p \in seals : p.rolling = d.prev  BY <2>2, <2>3, HashTypes
    <3>2. d.first - 1 = 0  BY <1>3, <3>1 DEF Position
    <3>3. ends[i - 1] = 0  BY <1>1, <2>3
    <3> QED  BY <1>3, <2>1, <3>2, <3>3
  <2>4. CASE i # 1
    <3>1. i - 1 \in 1..n /\ i - 1 \in 0..n /\ i - 1 # 0  BY <1>1, <2>4
    <3>2. d.prev # <<>>  BY <2>2, <3>1
    <3>3. PICK p \in seals : p.last = d.first - 1 /\ p.rolling = d.prev  BY <1>3, <3>2 DEF Position
    <3>4. SubSeq(d.rolling, 1, i - 1) = d.prev
      <4>1. d.prev \in Seq(SUBSET Nat) /\ d.segment \in SUBSET Nat /\ i - 1 \in 0..Len(d.prev)
        BY <2>2, <3>1, HashTypes
      <4> QED  BY <1>3, <2>2, <4>1, PrefixOfAppended, WholePrefix
    <3>5. SubSeq(d.rolling, 1, i - 1) = SubSeq(state.hash, 1, i - 1)
      <4>1. i \in 0..Len(state.hash) /\ i - 1 \in 0..i  BY <1>1, <3>1
      <4> QED  BY <1>1, <2>1, <4>1, PrefixOfPrefix DEF SealAt
    <3>6. SealAt(p, i - 1)  BY <3>3, <3>4, <3>5 DEF SealAt
    <3>7. at(i - 1) = p  BY <1>2, <3>1, <3>6, OneSeal DEF SealAt
    <3>8. ends[i - 1] = p.last  BY <3>1, <3>7
    <3> QED  BY <1>3, <2>1, <3>3, <3>8
  <2> QED  BY <2>3, <2>4
<1>7. ends[0] = 0  BY <1>1
<1>8. ASSUME NEW i \in 1..n  PROVE Archive!Stretch(ReadBack[i], ends[i - 1] + 1, ends[i])
  <2>1. ends[i] = at(i).last  BY <1>1
  <2> HIDE DEF ends
  <2> QED  BY <1>2, <1>3, <1>6, <2>1 DEF Archive!Stretch
<1>9. ReadBack \in Seq(SUBSET Nat) /\ Len(ReadBack) = n  BY ReadBackTypes
<1> HIDE DEF ends
<1> QED  BY <1>5, <1>7, <1>8, <1>9 DEF Archive!Contiguous

LEMMA ReadBackNow == Store => ReadBackFacts
<1> SUFFICES ASSUME Store  PROVE ReadBackFacts
  OBVIOUS
<1>2. \A i \in DOMAIN state.hash : \A d : SealAt(d, i) => ReadBack[i] = d.segment  BY SegmentOf
<1>3. \A d \in seals : d.last <= state.verified =>
            Len(d.rolling) \in DOMAIN state.hash /\ SealAt(d, Len(d.rolling))
  BY SealsReadBack
<1>4. state.verified # 0 => \E h \in seals : h.last = state.verified /\ h.rolling = state.hash  BY EndOfReadBack
<1> QED  BY <1>2, <1>3, <1>4, ReadBackTypes, ReadBackFollows DEF ReadBackFacts
LEMMA ReadBackNext == Store' => ReadBackFacts'
  BY ReadBackNow, PTL

LEMMA MoreReadBack ==
    ASSUME Store, Store', seals' = seals, UNCHANGED <<recorded, events>>, state.verified < state'.verified
    PROVE  Archive!Keep
<1>1. state.verified \in Nat /\ state'.verified \in Nat  BY DEF Store, StoreTyped, StateType
<1>2. ASSUME NEW i \in DOMAIN state.hash  PROVE i \in DOMAIN state'.hash /\ ReadBack'[i] = ReadBack[i]
  <2>1. PICK d \in seals : d.last <= state.verified /\ Len(d.rolling) = i /\ ReadBack[i] = d.segment
    BY ReadBackAt
  <2>2. d.last <= state'.verified /\ d \in seals'  BY <1>1, <2>1 DEF Store, StoreTyped, SealType
  <2> QED  BY <2>1, <2>2, ReadBackNext DEF ReadBackFacts
<1>3. PICK h \in seals : h.last = state'.verified /\ h.rolling = state'.hash
  BY <1>1, ReadBackNext DEF ReadBackFacts
<1>4. Len(state.hash) \in Nat /\ Len(state'.hash) \in Nat /\ Len(state'.hash) >= 1  BY <1>3, HashTypes
<1>5. Len(state.hash) < Len(state'.hash)
  <2>1. CASE Len(state.hash) = 0  BY <1>4, <2>1
  <2>2. CASE Len(state.hash) # 0
    <3>1. state.hash # <<>>  BY <2>2
    <3>2. PICK k \in seals : k.last = state.verified /\ k.rolling = state.hash  BY <3>1, EndOfReadBack
    <3> QED  BY <1>3, <3>2 DEF Store, Chain, Prefixes
  <2> QED  BY <2>1, <2>2
<1>6. /\ Len(ReadBack) = Len(state.hash) /\ DOMAIN state.hash = 1..Len(state.hash)
      /\ Len(ReadBack') = Len(state'.hash)
  BY ReadBackTypes, ReadBackNext DEF ReadBackFacts
<1>7. Archive!Contiguous(ReadBack')  BY ReadBackNext DEF ReadBackFacts, Archive!Contiguous
<1> QED  BY <1>2, <1>4, <1>5, <1>6, <1>7 DEF Archive!Keep

LEMMA Advances ==
    ASSUME IInv, NEW r \in Runners, AdvanceVerified(r)
    PROVE  /\ UNCHANGED <<recorded, events, seals>>
           /\ state' = state \/ state.verified < state'.verified
<1>1. run[r].pc = "verify" /\ UNCHANGED <<recorded, events, seals>>  BY DEF AdvanceVerified
<1>2. Knows(run[r])  BY <1>1, Busy
<1>3. PICK known : known = run[r].read.verified  OBVIOUS
<1>4. PICK upto \in {known} \cup {s.last : s \in Verified(r)} :
        state' = IF upto # known /\ state.verified = known
                 THEN [state EXCEPT !.verified = upto, !.hash = (CHOOSE s \in Verified(r) : s.last = upto).rolling]
                 ELSE state
  BY <1>3 DEF AdvanceVerified
<1>5. CASE upto # known /\ state.verified = known
  <2>1. PICK s \in Verified(r) : s.last = upto  BY <1>4, <1>5
  <2>2. upto > known /\ upto \in Nat /\ known \in Nat
    BY <1>2, <1>3, <1>5, <2>1, ReadBackIs DEF IInv, Store, StoreTyped, SealType, StateType
  <2>3. state'.verified = upto  BY <1>4, <1>5 DEF IInv, Store, StoreTyped, StateType
  <2> QED  BY <1>1, <1>5, <2>2, <2>3
<1>6. CASE ~(upto # known /\ state.verified = known)  BY <1>1, <1>4, <1>6
<1> QED  BY <1>5, <1>6

AbstractVars == <<recorded, events, ReadBack>>

LEMMA Implements == ASSUME IInv, IInv', [Next]_vars  PROVE [Archive!Next]_AbstractVars
<1>1. Store /\ Store'  BY DEF IInv
<1>2. ASSUME seals \subseteq seals', state'.hash = state.hash  PROVE ReadBack' = ReadBack
  <2>1. ASSUME NEW i \in DOMAIN state.hash  PROVE ReadBack'[i] = ReadBack[i]
    <3>1. PICK d \in seals : SealAt(d, i) /\ ReadBack[i] = d.segment  BY <1>1, ReadBackAt
    <3>2. SealAt(d, i)'  BY <1>2, <3>1 DEF SealAt
    <3> QED  BY <1>1, <1>2, <3>1, <3>2, ReadBackNext DEF ReadBackFacts
  <2> QED  BY <1>2, <2>1 DEF ReadBack
<1>3. CASE UNCHANGED vars  BY <1>2, <1>3 DEF vars, AbstractVars
<1>4. CASE Record  BY <1>2, <1>4 DEF Record, Archive!Next, Archive!Record
<1>5. CASE Lapse \/ Expire
  <2>1. state'.hash = state.hash  BY <1>1, <1>5 DEF Lapse, Expire, Store, StoreTyped, StateType
  <2> QED  BY <1>2, <1>5, <2>1 DEF Lapse, Expire, AbstractVars
<1>6. CASE Damage  BY <1>2, <1>6 DEF Damage, AbstractVars
<1>7. ASSUME NEW r \in Runners, ClaimLease(r) \/ Die(r) \/ Step(r)
      PROVE  [Archive!Next]_AbstractVars
  <2>1. CASE ClaimLease(r) \/ Anchored(r) \/ Finish(r)
    <3>1. state'.hash = state.hash
      BY <1>1, <2>1 DEF ClaimLease, Anchored, Finish, Store, StoreTyped, StateType
    <3> QED  BY <1>2, <2>1, <3>1 DEF ClaimLease, Anchored, Finish, AbstractVars
  <2>2. CASE \/ Die(r) \/ ReadHead(r) \/ Look(r) \/ Freeze(r) \/ Reread(r) \/ Resume(r) \/ Get(r) \/ Put(r)
             \/ Twin(r) \/ ReadAnchors(r) \/ Post(r) \/ ReconcileOrphans(r)
    <3>1. UNCHANGED <<recorded, events, seals, state>>
      BY <2>2 DEF Die, ReadHead, Look, Freeze, Reread, Resume, Get, Put, Twin, ReadAnchors, Post,
         ReconcileOrphans, store
    <3> QED  BY <1>2, <3>1 DEF AbstractVars
  <2>3. CASE SealIntent(r)
    <3>1. seals \subseteq seals' /\ UNCHANGED <<recorded, events, state>>  BY <2>3 DEF SealIntent
    <3> QED  BY <1>2, <3>1 DEF AbstractVars
  <2>4. CASE AdvanceVerified(r)
    <3>1. UNCHANGED <<recorded, events, seals>> /\ (state' = state \/ state.verified < state'.verified)
      BY <2>4, Advances
    <3>2. CASE state' = state  BY <1>2, <3>1, <3>2 DEF AbstractVars
    <3>3. CASE state.verified < state'.verified  BY <1>1, <3>1, <3>3, MoreReadBack DEF Archive!Next
    <3> QED  BY <3>1, <3>2, <3>3
  <2>5. CASE PruneArchived(r)
    <3>1. PICK aged \in SUBSET {e \in events : e <= state.verified} : events' = events \ aged
      BY <2>5 DEF PruneArchived, Ceiling
    <3>2. UNCHANGED <<recorded, seals, state>>  BY <2>5 DEF PruneArchived
    <3>3. ReadBack' = ReadBack  BY <1>2, <3>2
    <3>4. events \ events' \subseteq Archive!Held
      <4>1. \A e \in events : e <= state.verified => e \in 1..state.verified
        BY <1>1 DEF Store, StoreTyped, StateType
      <4> QED  BY <1>1, <3>1, <4>1, HeldIs
    <3> QED  BY <3>1, <3>2, <3>3, <3>4 DEF Archive!Next, Archive!Forget
  <2> QED  BY <1>7, <2>1, <2>2, <2>3, <2>4, <2>5 DEF Step
<1> QED  BY <1>3, <1>4, <1>5, <1>6, <1>7 DEF Next

LEMMA InitImplements == Init => Archive!Init
<1> SUFFICES ASSUME Init  PROVE Archive!Init
  OBVIOUS
<1>1. recorded = 0 /\ events = {} /\ state.hash = <<>>  BY DEF Init
<1>2. ReadBack = <<>>  BY <1>1 DEF ReadBack
<1> QED  BY <1>1, <1>2 DEF Archive!Init

(* The sweep implements the append-only chain.                              *)
THEOREM SweepKeepsTheChain == Spec => KeepsTheChain
<1>1. Init => Archive!Init  BY InitImplements
<1>2. IInv /\ IInv' /\ [Next]_vars => [Archive!Next]_Archive!vars
  BY Implements DEF AbstractVars, Archive!vars
<1> QED  BY <1>1, <1>2, AlwaysIInv, PTL DEF Spec, KeepsTheChain, Archive!Spec
=============================================================================
