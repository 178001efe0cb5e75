------------------------- MODULE ConversationProofs -------------------------
(***************************************************************************)
(* Machine-checked proofs about what the model is told and asked, for any  *)
(* budgets, any number of rounds and provider attempts.                    *)
(***************************************************************************)
EXTENDS Conversation, FiniteSetTheorems, FunctionTheorems, WellFoundedInduction, TLAPS

-----------------------------------------------------------------------------
(* Messages and blocks.                                                    *)

(* The blocks of a context, one by one.                                    *)
LEMMA BlockPlaces ==
  ASSUME NEW c, NEW b
  PROVE  b \in BlocksIn(c) <=>
           \E i \in DOMAIN c : \E j \in DOMAIN c[i].blocks : b = c[i].blocks[j]
  BY DEF BlocksIn, ToSet

(* What the assistant says leaves the messages before the last alone, and  *)
(* adds just its blocks.                                                   *)
LEMMA SaidParts ==
  ASSUME NEW c \in Seq(MessageType), NEW blocks \in Seq(BlockType)
  PROVE  /\ Said(c, blocks) \in Seq(MessageType)
         /\ Len(Said(c, blocks)) >= Len(c) /\ Len(Said(c, blocks)) >= 1
         /\ \A i \in 1 .. Len(c) - 1 : Said(c, blocks)[i] = c[i]
         /\ BlocksIn(Said(c, blocks)) = BlocksIn(c) \cup ToSet(blocks)
<1> DEFINE s == Said(c, blocks)
<1>1. CASE c # <<>> /\ Last(c).role = "assistant"
  <2> DEFINE m == Message("assistant", c[Len(c)].blocks \o blocks)
  <2>1. Len(c) \in Nat \ {0} /\ c[Len(c)] \in MessageType  BY <1>1
  <2>2. m \in MessageType /\ m.blocks = c[Len(c)].blocks \o blocks
    BY <2>1 DEF Message, MessageType
  <2>3. s = SubSeq(c, 1, Len(c) - 1) \o <<m>>  BY <1>1 DEF Said, Front, Last
  <2> HIDE DEF m
  <2>4. SubSeq(c, 1, Len(c) - 1) \in Seq(MessageType)  BY <2>1
  <2>5. /\ s \in Seq(MessageType) /\ Len(s) = Len(c) /\ s[Len(c)] = m
        /\ \A i \in 1 .. Len(c) - 1 : s[i] = c[i]
    BY <2>1, <2>2, <2>3, <2>4
  <2> HIDE DEF s
  <2>6. ASSUME NEW b PROVE b \in BlocksIn(s) <=> b \in BlocksIn(c) \cup ToSet(blocks)
    <3>1. \A x \in ToSet(blocks) : \E j \in DOMAIN m.blocks : x = m.blocks[j]
      <4> SUFFICES ASSUME NEW k \in DOMAIN blocks
                   PROVE  \E j \in DOMAIN m.blocks : blocks[k] = m.blocks[j]
        BY DEF ToSet
      <4>1. Len(c[Len(c)].blocks) + k \in DOMAIN m.blocks
              /\ m.blocks[Len(c[Len(c)].blocks) + k] = blocks[k]
        BY <2>1, <2>2 DEF MessageType
      <4> QED BY <4>1
    <3>2. \A j \in DOMAIN c[Len(c)].blocks : j \in DOMAIN m.blocks
                                             /\ m.blocks[j] = c[Len(c)].blocks[j]
      BY <2>1, <2>2 DEF MessageType
    <3>3. ASSUME NEW j \in DOMAIN m.blocks
          PROVE  m.blocks[j] \in ToSet(blocks)
                   \/ \E k \in DOMAIN c[Len(c)].blocks : m.blocks[j] = c[Len(c)].blocks[k]
      <4>1. CASE j <= Len(c[Len(c)].blocks)
        BY <2>1, <2>2, <4>1 DEF MessageType
      <4>2. CASE j > Len(c[Len(c)].blocks)
        <5>1. j - Len(c[Len(c)].blocks) \in DOMAIN blocks
                /\ m.blocks[j] = blocks[j - Len(c[Len(c)].blocks)]
          BY <2>1, <2>2, <4>2 DEF MessageType
        <5> QED BY <5>1 DEF ToSet
      <4> QED BY <2>1, <2>2, <4>1, <4>2 DEF MessageType
    <3>4. DOMAIN s = 1 .. Len(c) /\ DOMAIN c = 1 .. Len(c)  BY <2>5
    <3> QED BY <2>1, <2>5, <3>1, <3>2, <3>3, <3>4, BlockPlaces
  <2> QED BY <2>1, <2>5, <2>6 DEF s
<1>2. CASE ~ (c # <<>> /\ Last(c).role = "assistant")
  <2> DEFINE m == Message("assistant", blocks)
  <2>1. m \in MessageType /\ m.blocks = blocks  BY DEF Message, MessageType
  <2>2. s = Append(c, m)  BY <1>2 DEF Said
  <2> HIDE DEF m
  <2>3. /\ s \in Seq(MessageType) /\ Len(s) = Len(c) + 1 /\ s[Len(c) + 1] = m
        /\ \A i \in 1 .. Len(c) : s[i] = c[i]
    BY <2>1, <2>2
  <2> HIDE DEF s
  <2>4. ASSUME NEW b PROVE b \in BlocksIn(s) <=> b \in BlocksIn(c) \cup ToSet(blocks)
    BY <2>1, <2>3, BlockPlaces DEF ToSet
  <2> QED BY <2>3, <2>4 DEF s
<1> QED BY <1>1, <1>2

(* What is appended adds just its blocks.                                  *)
LEMMA AppendParts ==
  ASSUME NEW c \in Seq(MessageType), NEW m \in MessageType
  PROVE  /\ Append(c, m) \in Seq(MessageType)
         /\ Append(c, m) # <<>>
         /\ BlocksIn(Append(c, m)) = BlocksIn(c) \cup ToSet(m.blocks)
<1> DEFINE s == Append(c, m)
<1>1. /\ s \in Seq(MessageType) /\ Len(s) = Len(c) + 1 /\ s[Len(c) + 1] = m
      /\ \A i \in 1 .. Len(c) : s[i] = c[i]
  OBVIOUS
<1> HIDE DEF s
<1>2. ASSUME NEW b PROVE b \in BlocksIn(s) <=> b \in BlocksIn(c) \cup ToSet(m.blocks)
  BY <1>1, BlockPlaces DEF ToSet
<1> QED BY <1>1, <1>2 DEF s

(* The blocks of a context are blocks.                                     *)
LEMMA BlockTypes ==
  ASSUME NEW c \in Seq(MessageType), NEW b \in BlocksIn(c)
  PROVE  b \in BlockType
<1>1. PICK i \in DOMAIN c : \E j \in DOMAIN c[i].blocks : b = c[i].blocks[j]
  BY BlockPlaces
<1>2. c[i] \in MessageType  BY <1>1
<1>3. c[i].blocks \in Seq(BlockType)  BY <1>2 DEF MessageType
<1> QED BY <1>1, <1>3

(* A restore keeps the messages before the last of the checkpoint, and      *)
(* puts back the last as it was.                                           *)
LEMMA RestoredParts ==
  ASSUME NEW c \in Seq(MessageType), saved.last \in Seq(MessageType),
         saved.length \in 1 .. Len(c), Len(saved.last) = 1
  PROVE  /\ Restored(c) \in Seq(MessageType)
         /\ Len(Restored(c)) = saved.length
         /\ Restored(c)[saved.length] = saved.last[1]
         /\ \A i \in 1 .. saved.length - 1 : Restored(c)[i] = c[i]
<1> DEFINE before == SubSeq(c, 1, saved.length - 1)
<1>1. Restored(c) = before \o saved.last  BY DEF Restored
<1>2. /\ before \in Seq(MessageType)
      /\ Len(before) = saved.length - 1
      /\ \A i \in 1 .. saved.length - 1 : before[i] = c[i]
  OBVIOUS
<1> HIDE DEF before
<1>3. before \o saved.last \in Seq(MessageType)  BY <1>2
<1>4. /\ Len(before \o saved.last) = saved.length
      /\ (before \o saved.last)[saved.length] = saved.last[1]
  <2> DEFINE m == saved.last[1]
             n == saved.length - 1
  <2>1. saved.last = <<m>> /\ saved.length = n + 1 /\ n \in Nat  OBVIOUS
  <2> HIDE DEF m, n
  <2>2. Len(before \o <<m>>) = n + 1 /\ (before \o <<m>>)[n + 1] = m
    BY <1>2, <2>1
  <2> QED BY <2>1, <2>2 DEF m
<1>5. \A i \in 1 .. saved.length - 1 : (before \o saved.last)[i] = before[i]
  BY <1>2
<1> QED BY <1>1, <1>2, <1>3, <1>4, <1>5

(* It does not depend on what the assistant has said since.                *)
LEMMA RestoredAfterSaid ==
  ASSUME NEW c \in Seq(MessageType), NEW blocks \in Seq(BlockType),
         saved.last \in Seq(MessageType),
         saved.length \in 1 .. Len(c), Len(saved.last) = 1
  PROVE  Restored(Said(c, blocks)) = Restored(c)
<1> DEFINE s == Said(c, blocks)
<1>1. s \in Seq(MessageType) /\ Len(s) >= Len(c) /\ \A i \in 1 .. Len(c) - 1 : s[i] = c[i]
  BY SaidParts
<1> HIDE DEF s
<1>2. \A i \in 1 .. saved.length - 1 : SubSeq(s, 1, saved.length - 1)[i]
                                        = SubSeq(c, 1, saved.length - 1)[i]
  BY <1>1
<1>3. SubSeq(s, 1, saved.length - 1) = SubSeq(c, 1, saved.length - 1)
  BY <1>1, <1>2
<1> QED BY <1>3 DEF Restored, s

(* Of a context just saved, a restore makes the context itself.             *)
LEMMA RestoredAtOnce ==
  ASSUME NEW c \in Seq(MessageType), c # <<>>, saved = Checkpoint(c)
  PROVE  Restored(c) = c
<1>1. saved.length = Len(c) /\ saved.last = <<c[Len(c)]>> /\ Len(c) \in Nat \ {0}
  BY DEF Checkpoint, Last
<1>2. c[Len(c)] \in MessageType  BY <1>1
<1>3. saved.last \in Seq(MessageType) /\ Len(saved.last) = 1 /\ saved.last[1] = c[Len(c)]
  BY <1>1, <1>2
<1> QED BY <1>1, <1>3, RestoredParts

-----------------------------------------------------------------------------
(* Collapsing superseded results.                                          *)

(* The context d is c, except that notes of results may say "superseded".  *)
SameButNotes(c, d) ==
  /\ Len(d) = Len(c)
  /\ \A i \in 1 .. Len(c) :
       /\ Len(d[i].blocks) = Len(c[i].blocks)
       /\ \A j \in 1 .. Len(c[i].blocks) :
            \/ d[i].blocks[j] = c[i].blocks[j]
            \/ /\ c[i].blocks[j].kind = "result"
               /\ d[i].blocks[j] = [c[i].blocks[j] EXCEPT !.note = "superseded"]

(* _compact_ttp_history changes nothing else, whichever results it picks.  *)
LEMMA CollapseParts ==
  ASSUME NEW c \in Seq(MessageType), NEW ids
  PROVE  Collapse(c, ids) \in Seq(MessageType) /\ SameButNotes(c, Collapse(c, ids))
<1> DEFINE After(i) == [j \in DOMAIN c[i].blocks |->
                          IF /\ c[i].blocks[j].kind = "result" /\ c[i].blocks[j].tool = "submit"
                             /\ c[i].blocks[j].id \in ids
                          THEN [c[i].blocks[j] EXCEPT !.note = "superseded"]
                          ELSE c[i].blocks[j]]
           d == Collapse(c, ids)
<1>1. d = [i \in 1 .. Len(c) |-> [c[i] EXCEPT !.blocks = After(i)]]  BY DEF Collapse
<1>2. ASSUME NEW i \in 1 .. Len(c)
      PROVE  /\ d[i] \in MessageType
             /\ Len(d[i].blocks) = Len(c[i].blocks)
             /\ \A j \in 1 .. Len(c[i].blocks) :
                  \/ d[i].blocks[j] = c[i].blocks[j]
                  \/ /\ c[i].blocks[j].kind = "result"
                     /\ d[i].blocks[j] = [c[i].blocks[j] EXCEPT !.note = "superseded"]
  <2>0. c[i] \in MessageType  OBVIOUS
  <2>1. c[i] \in MessageType /\ c[i].blocks \in Seq(BlockType)
    BY <2>0 DEF MessageType
  <2>2. ASSUME NEW j \in 1 .. Len(c[i].blocks)
        PROVE  [c[i].blocks[j] EXCEPT !.note = "superseded"] \in BlockType
    <3>1. c[i].blocks[j] \in BlockType  BY <2>1
    <3> QED BY <3>1 DEF BlockType
  <2>3. /\ After(i) = [j \in 1 .. Len(c[i].blocks) |-> After(i)[j]] /\ Len(c[i].blocks) \in Nat
        /\ \A j \in 1 .. Len(c[i].blocks) : After(i)[j] \in BlockType
    BY <2>1, <2>2
  <2>4. \A j \in 1 .. Len(c[i].blocks) :
          \/ After(i)[j] = c[i].blocks[j]
          \/ /\ c[i].blocks[j].kind = "result"
             /\ After(i)[j] = [c[i].blocks[j] EXCEPT !.note = "superseded"]
    BY <2>1
  <2> HIDE DEF After
  <2>5. After(i) \in [1 .. Len(c[i].blocks) -> BlockType]  BY <2>3
  <2>6. After(i) \in Seq(BlockType) /\ Len(After(i)) = Len(c[i].blocks)
    BY <2>3, <2>5
  <2>7. d[i] = [c[i] EXCEPT !.blocks = After(i)]  BY <1>1
  <2>8. d[i].blocks = After(i) /\ d[i] \in MessageType
    BY <2>1, <2>6, <2>7 DEF MessageType
  <2> QED BY <2>6, <2>4, <2>8
<1> HIDE DEF After
<1>3. d \in [1 .. Len(c) -> MessageType] /\ Len(c) \in Nat
  <2>1. DOMAIN d = 1 .. Len(c) /\ d = [i \in 1 .. Len(c) |-> d[i]]  BY <1>1
  <2> QED BY <1>2, <2>1
<1> HIDE DEF d
<1>4. Len(d) = Len(c) /\ d \in Seq(MessageType)  BY <1>3
<1> QED BY <1>2, <1>4 DEF SameButNotes, d

LEMMA CompactedParts ==
  ASSUME NEW c \in Seq(MessageType), NEW count
  PROVE  Compacted(c, count) \in Seq(MessageType) /\ SameButNotes(c, Compacted(c, count))
<1>1. CASE model.phase = "ttp" /\ MayCompact(c, count)
  BY <1>1, CollapseParts DEF Compacted
<1>2. CASE ~ (model.phase = "ttp" /\ MayCompact(c, count))
  BY <1>2 DEF Compacted, SameButNotes
<1> QED BY <1>1, <1>2

(* Block by block, both ways.                                              *)
LEMMA SameBlocks ==
  ASSUME NEW c \in Seq(MessageType), NEW d \in Seq(MessageType), SameButNotes(c, d)
  PROVE  /\ \A b \in BlocksIn(d) : \E a \in BlocksIn(c) :
              \/ b = a
              \/ a.kind = "result" /\ b.kind = "result" /\ b.round = a.round
                 /\ b.id = a.id /\ b.note = "superseded"
         /\ \A a \in BlocksIn(c) : a.kind # "result" => a \in BlocksIn(d)
<1>1. /\ Len(d) = Len(c) /\ DOMAIN c = 1 .. Len(c) /\ DOMAIN d = 1 .. Len(d)
      /\ \A i \in 1 .. Len(c) : c[i].blocks \in Seq(BlockType) /\ d[i].blocks \in Seq(BlockType)
  <2>1. \A i \in 1 .. Len(c) : c[i] \in MessageType /\ d[i] \in MessageType
    BY DEF SameButNotes
  <2> QED BY <2>1 DEF SameButNotes, MessageType
<1>2. \A i \in 1 .. Len(c) : /\ DOMAIN c[i].blocks = 1 .. Len(c[i].blocks)
                             /\ DOMAIN d[i].blocks = 1 .. Len(c[i].blocks)
  BY <1>1 DEF SameButNotes
<1>3. ASSUME NEW b \in BlocksIn(d)
      PROVE  \E a \in BlocksIn(c) :
                \/ b = a
                \/ a.kind = "result" /\ b.kind = "result" /\ b.round = a.round
                   /\ b.id = a.id /\ b.note = "superseded"
  <2>0. PICK i \in 1 .. Len(c) : \E j \in 1 .. Len(c[i].blocks) : b = d[i].blocks[j]
    BY <1>1, <1>2, BlockPlaces
  <2>1. PICK j \in 1 .. Len(c[i].blocks) : b = d[i].blocks[j]
    BY <2>0
  <2> DEFINE a == c[i].blocks[j]
  <2>2. a \in BlocksIn(c)  BY <1>1, <1>2, BlockPlaces
  <2>3. a \in BlockType  BY <2>2, BlockTypes
  <2>4. b = a \/ (a.kind = "result" /\ b = [a EXCEPT !.note = "superseded"])
    BY <2>1 DEF SameButNotes
  <2> HIDE DEF a
  <2>5. CASE a.kind = "result" /\ b = [a EXCEPT !.note = "superseded"]
    BY <2>2, <2>3, <2>5 DEF BlockType
  <2> QED BY <2>2, <2>4, <2>5
<1>4. ASSUME NEW a \in BlocksIn(c), a.kind # "result"
      PROVE  a \in BlocksIn(d)
  <2>0. PICK i \in 1 .. Len(c) : \E j \in 1 .. Len(c[i].blocks) : a = c[i].blocks[j]
    BY <1>1, <1>2, BlockPlaces
  <2>1. PICK j \in 1 .. Len(c[i].blocks) : a = c[i].blocks[j]
    BY <2>0
  <2>2. a = d[i].blocks[j]  BY <1>4, <2>1 DEF SameButNotes
  <2> QED BY <1>1, <1>2, <2>2, BlockPlaces
<1> QED BY <1>3, <1>4

(* A restore commutes with it.                                             *)
LEMMA SameRestored ==
  ASSUME NEW c \in Seq(MessageType), NEW d \in Seq(MessageType), SameButNotes(c, d),
         saved.last \in Seq(MessageType), saved.length \in 1 .. Len(c), Len(saved.last) = 1
  PROVE  SameButNotes(Restored(c), Restored(d))
<1>1. Len(d) = Len(c)  BY DEF SameButNotes
<1>2. /\ Len(Restored(c)) = saved.length /\ Len(Restored(d)) = saved.length
      /\ Restored(c)[saved.length] = saved.last[1]
      /\ Restored(d)[saved.length] = saved.last[1]
  BY <1>1, RestoredParts
<1>3. \A i \in 1 .. saved.length - 1 : Restored(c)[i] = c[i] /\ Restored(d)[i] = d[i]
  BY <1>1, RestoredParts
<1>4. ASSUME NEW i \in 1 .. saved.length
      PROVE  /\ Len(Restored(d)[i].blocks) = Len(Restored(c)[i].blocks)
             /\ \A j \in 1 .. Len(Restored(c)[i].blocks) :
                  \/ Restored(d)[i].blocks[j] = Restored(c)[i].blocks[j]
                  \/ /\ Restored(c)[i].blocks[j].kind = "result"
                     /\ Restored(d)[i].blocks[j]
                          = [Restored(c)[i].blocks[j] EXCEPT !.note = "superseded"]
  <2>1. CASE i = saved.length  BY <1>2, <2>1
  <2>2. CASE i \in 1 .. saved.length - 1
    <3>1. i \in 1 .. Len(c) /\ Restored(c)[i] = c[i] /\ Restored(d)[i] = d[i]
      BY <1>3, <2>2
    <3> QED BY <3>1 DEF SameButNotes
  <2> QED BY <2>1, <2>2
<1> QED BY <1>2, <1>4 DEF SameButNotes

-----------------------------------------------------------------------------
(* Induction, and contexts laid out flat.                                  *)

LEMMA LeastNat ==
  ASSUME NEW T \in SUBSET Nat, T # {}
  PROVE  \E x \in T : \A y \in T : x <= y
<1> DEFINE R == {ss \in Nat \X Nat : ss[1] < ss[2]}
<1>1. IsWellFoundedOn(R, Nat)  BY NatLessThanWellFounded DEF OpToRel
<1>2. \A x, y \in T : <<y, x>> \in R <=> y < x  OBVIOUS
<1> HIDE DEF R
<1>3. \E x \in T : \A y \in T : ~ (<<y, x>> \in R) BY <1>1, WFMin
<1>4. PICK x \in T : \A y \in T : ~ (<<y, x>> \in R)  BY <1>3
<1>5. ASSUME NEW y \in T PROVE x <= y
  <2>1. ~ (y < x)  BY <1>2, <1>4
  <2>2. x \in Nat /\ y \in Nat  OBVIOUS
  <2> QED BY <2>1, <2>2
<1> QED BY <1>5

LEMMA Induct ==
  ASSUME NEW Holds, 0 \in Holds, \A n \in Nat : n \in Holds => n + 1 \in Holds
  PROVE  Nat \subseteq Holds
<1> DEFINE T == Nat \ Holds
<1>1. SUFFICES ASSUME T # {} PROVE FALSE  OBVIOUS
<1>2. PICK m \in T : \A y \in T : m <= y  BY <1>1, LeastNat
<1>3. m - 1 \in Nat /\ m - 1 \notin T  BY <1>2
<1>4. (m - 1) + 1 = m  BY <1>2
<1> QED BY <1>3, <1>4

(* The function that FlattenSeq takes the last value of.                    *)
Joins(ss, f) ==
  f = [i \in 1 .. Len(ss) |-> IF i = 1 THEN ss[1] ELSE f[i - 1] \o ss[i]]

Begins(ss, tt) == \A i \in 1 .. Len(tt) : i \in 1 .. Len(ss) /\ tt[i] = ss[i]

LEMMA OneJoin ==
  ASSUME NEW S, NEW ss \in Seq(S), NEW tt \in Seq(S), NEW f, NEW g,
         Joins(ss, f), Joins(tt, g), Begins(ss, tt)
  PROVE  \A i \in 1 .. Len(tt) : g[i] = f[i]
<1> DEFINE Holds == {n \in Nat : n + 1 <= Len(tt) => g[n + 1] = f[n + 1]}
<1>1. 0 \in Holds  BY DEF Joins, Begins
<1>2. ASSUME NEW n \in Nat, n \in Holds PROVE n + 1 \in Holds
  <2>1. SUFFICES ASSUME n + 2 <= Len(tt) PROVE g[n + 2] = f[n + 2]  OBVIOUS
  <2>2. g[n + 1] = f[n + 1]  BY <1>2, <2>1
  <2>3. /\ n + 2 \in 1 .. Len(tt) /\ n + 2 \in 1 .. Len(ss) /\ n + 2 # 1 /\ (n + 2) - 1 = n + 1
        /\ tt[n + 2] = ss[n + 2]
    BY <2>1 DEF Begins
  <2>4. g[n + 2] = g[n + 1] \o tt[n + 2] /\ f[n + 2] = f[n + 1] \o ss[n + 2]
    BY <2>3 DEF Joins
  <2> QED BY <2>2, <2>3, <2>4
<1> HIDE DEF Holds
<1>3. Nat \subseteq Holds  BY <1>1, <1>2, Induct
<1>4. ASSUME NEW i \in 1 .. Len(tt) PROVE g[i] = f[i]
  <2>1. i - 1 \in Holds /\ (i - 1) + 1 = i  BY <1>3
  <2> QED BY <2>1 DEF Holds
<1> QED BY <1>4

LEMMA OneMore ==
  ASSUME NEW S, NEW ss \in Seq(S), NEW s \in S, NEW f, NEW g,
         Joins(ss, f), Joins(Append(ss, s), g)
  PROVE  \A i \in 1 .. Len(ss) : f[i] = g[i]
<1>1. /\ Append(ss, s) \in Seq(S)
      /\ \A i \in 1 .. Len(ss) : i \in 1 .. Len(Append(ss, s)) /\ ss[i] = Append(ss, s)[i]
  OBVIOUS
<1>2. Begins(Append(ss, s), ss)  BY <1>1 DEF Begins
<1> DEFINE tt == Append(ss, s)
<1>3. tt \in Seq(S) /\ Joins(tt, g) /\ Begins(tt, ss)  BY <1>1, <1>2
<1> HIDE DEF tt
<1> QED BY <1>3, OneJoin

LEMMA SomeJoin ==
  ASSUME NEW S, NEW Parts \in SUBSET Seq(S), NEW ss \in Seq(Parts)
  PROVE  \E f \in [1 .. Len(ss) -> Seq(S)] : Joins(ss, f)
<1> DEFINE Has(tt) == \E f \in [1 .. Len(tt) -> Seq(S)] : Joins(tt, f)
           Holds == {n \in Nat : \A tt \in Seq(Parts) : Len(tt) = n => Has(tt)}
<1>1. 0 \in Holds
  <2>1. SUFFICES ASSUME NEW tt \in Seq(Parts), Len(tt) = 0 PROVE Has(tt)  OBVIOUS
  <2> DEFINE f == [i \in 1 .. Len(tt) |-> <<>>]
  <2>2. f \in [1 .. Len(tt) -> Seq(S)]  OBVIOUS
  <2>3. Joins(tt, f)  BY <2>1 DEF Joins
  <2> QED BY <2>2, <2>3
<1>2. ASSUME NEW n \in Nat, n \in Holds PROVE n + 1 \in Holds
  <2>1. SUFFICES ASSUME NEW tt \in Seq(Parts), Len(tt) = n + 1 PROVE Has(tt)  OBVIOUS
  <2> DEFINE short == SubSeq(tt, 1, n)
  <2>2. short \in Seq(Parts) /\ Len(short) = n /\ \A i \in 1 .. n : short[i] = tt[i]
    BY <2>1
  <2> HIDE DEF short
  <2>3. PICK f \in [1 .. n -> Seq(S)] : Joins(short, f)  BY <1>2, <2>2
  <2> DEFINE g == [i \in 1 .. n + 1 |-> IF i <= n THEN f[i]
                                        ELSE IF n = 0 THEN tt[1] ELSE f[n] \o tt[n + 1]]
  <2>4. g \in [1 .. n + 1 -> Seq(S)]  BY <2>1, <2>3
  <2>5. ASSUME NEW i \in 1 .. n + 1
        PROVE  g[i] = IF i = 1 THEN tt[1] ELSE g[i - 1] \o tt[i]
    <3>1. CASE i <= n
      <4>1. g[i] = f[i] /\ i \in 1 .. n /\ (i # 1 => i - 1 \in 1 .. n /\ g[i - 1] = f[i - 1])
        BY <3>1
      <4>2. f[i] = IF i = 1 THEN short[1] ELSE f[i - 1] \o short[i]
        BY <2>2, <2>3, <4>1 DEF Joins
      <4> QED BY <2>2, <4>1, <4>2
    <3>2. CASE i = n + 1 /\ n = 0  BY <3>2
    <3>3. CASE i = n + 1 /\ n # 0
      <4>1. g[n] = f[n] /\ n \in 1 .. n + 1 /\ (n + 1) - 1 = n  BY <3>3
      <4>2. g[n + 1] = f[n] \o tt[n + 1]
        <5>1. ~ (n + 1 <= n) /\ n + 1 \in 1 .. n + 1  OBVIOUS
        <5> QED BY <3>3, <5>1
      <4> QED BY <3>3, <4>1, <4>2
    <3> QED BY <3>1, <3>2, <3>3
  <2>6. g = [i \in 1 .. n + 1 |-> g[i]]  OBVIOUS
  <2> HIDE DEF g
  <2>7. Joins(tt, g)  BY <2>1, <2>5, <2>6 DEF Joins
  <2> QED BY <2>1, <2>4, <2>7
<1> HIDE DEF Holds
<1>3. Len(ss) \in Holds  BY <1>1, <1>2, Induct
<1> QED BY <1>3 DEF Holds

LEMMA FlattenValue ==
  ASSUME NEW S, NEW ss \in Seq(S), Len(ss) # 0, NEW f, Joins(ss, f)
  PROVE  FlattenSeq(ss) = f[Len(ss)]
<1> DEFINE g == CHOOSE h : Joins(ss, h)
<1>1. Joins(ss, g)  OBVIOUS
<1>2. FlattenSeq(ss) = g[Len(ss)]  BY DEF FlattenSeq, Joins
<1> HIDE DEF g
<1>3. g[Len(ss)] = f[Len(ss)]
  <2>1. Begins(ss, ss)  BY DEF Begins
  <2> QED BY <1>1, <2>1, OneJoin
<1> QED BY <1>2, <1>3

LEMMA FlattenEmpty == FlattenSeq(<<>>) = <<>>
  BY DEF FlattenSeq

LEMMA FlattenAppend ==
  ASSUME NEW S, NEW Parts \in SUBSET Seq(S), NEW ss \in Seq(Parts), NEW s \in Parts
  PROVE  /\ FlattenSeq(ss) \in Seq(S)
         /\ FlattenSeq(Append(ss, s)) = FlattenSeq(ss) \o s
<1> DEFINE tt == Append(ss, s)
           n == Len(ss)
<1>1. /\ tt \in Seq(Parts) /\ Len(tt) = n + 1 /\ tt[n + 1] = s /\ n \in Nat /\ Len(ss) = n
      /\ \A i \in 1 .. n : tt[i] = ss[i]
  OBVIOUS
<1>2. n = 0 => ss = <<>>  OBVIOUS
<1> HIDE DEF tt, n
<1>3. PICK f : f \in [1 .. n -> Seq(S)] /\ Joins(ss, f)  BY <1>1, SomeJoin
<1>4. PICK g : g \in [1 .. n + 1 -> Seq(S)] /\ Joins(tt, g)  BY <1>1, SomeJoin
<1>0. Joins(ss, f) /\ Joins(tt, g)  BY <1>3, <1>4
<1>5. FlattenSeq(tt) = g[n + 1]  BY <1>0, <1>1, FlattenValue
<1>6. g[n + 1] = IF n + 1 = 1 THEN tt[1] ELSE g[(n + 1) - 1] \o tt[n + 1]
  <2>1. \A i \in 1 .. n + 1 : g[i] = IF i = 1 THEN tt[1] ELSE g[i - 1] \o tt[i]
    <3>1. g = [i \in 1 .. n + 1 |-> IF i = 1 THEN tt[1] ELSE g[i - 1] \o tt[i]]
      BY <1>1, <1>4 DEF Joins
    <3> QED BY <3>1
  <2>2. n + 1 \in 1 .. n + 1  BY <1>1
  <2> QED BY <2>1, <2>2
<1>7. CASE n = 0
  <2>1. FlattenSeq(ss) = <<>>  BY <1>2, <1>7, FlattenEmpty
  <2>2. FlattenSeq(tt) = s  BY <1>1, <1>5, <1>6, <1>7
  <2> QED BY <2>1, <2>2 DEF tt
<1>8. CASE n # 0
  <2>1. FlattenSeq(ss) = f[n]  BY <1>0, <1>1, <1>8, FlattenValue
  <2>3. \A i \in 1 .. Len(ss) : f[i] = g[i]  BY <1>0, OneMore DEF tt
  <2>4. n \in 1 .. Len(ss) /\ n + 1 # 1 /\ (n + 1) - 1 = n  BY <1>1, <1>8
  <2>5. FlattenSeq(tt) = f[n] \o s  BY <1>1, <1>5, <1>6, <2>3, <2>4
  <2>6. f[n] \in Seq(S)  BY <1>1, <1>3, <2>4
  <2> QED BY <2>1, <2>5, <2>6 DEF tt
<1> QED BY <1>1, <1>7, <1>8

(* Concatenation.                                                           *)
LEMMA Assoc ==
  ASSUME NEW S, NEW s \in Seq(S), NEW t \in Seq(S), NEW u \in Seq(S)
  PROVE  (s \o t) \o u = s \o (t \o u) /\ s \o t \in Seq(S) /\ t \o u \in Seq(S)
  OBVIOUS

LEMMA Joined ==
  ASSUME NEW S, NEW s \in Seq(S), NEW t \in Seq(S)
  PROVE  /\ s \o t \in Seq(S) /\ Len(s \o t) = Len(s) + Len(t)
         /\ SubSeq(s \o t, 1, Len(s)) = s
         /\ \A i \in 1 .. Len(s) : (s \o t)[i] = s[i]
         /\ \A i \in 1 .. Len(t) : (s \o t)[Len(s) + i] = t[i]
  OBVIOUS

LEMMA ZeroLength == ASSUME NEW S, NEW s \in Seq(S), Len(s) = 0 PROVE s = <<>>
  OBVIOUS

(* A context as the sequence of its messages' blocks.                       *)
BlockLists == {m.blocks : m \in MessageType}
Lists(c) == [i \in DOMAIN c |-> c[i].blocks]

LEMMA ListTypes ==
  ASSUME NEW c \in Seq(MessageType)
  PROVE  /\ Lists(c) \in Seq(BlockLists) /\ Len(Lists(c)) = Len(c)
         /\ \A i \in 1 .. Len(c) : Lists(c)[i] = c[i].blocks
         /\ Blocks(c) = FlattenSeq(Lists(c))
<1>1. \A i \in 1 .. Len(c) : c[i].blocks \in BlockLists  BY DEF BlockLists
<1>2. Lists(c) = [i \in 1 .. Len(c) |-> c[i].blocks]  BY DEF Lists
<1>3. Lists(c) \in [1 .. Len(c) -> BlockLists] /\ Len(c) \in Nat  BY <1>1, <1>2
<1>4. Lists(c) \in Seq(BlockLists) /\ Len(Lists(c)) = Len(c)  BY <1>3
<1>5. Blocks(c) = FlattenSeq(Lists(c))  BY DEF Blocks, Lists
<1> QED BY <1>2, <1>4, <1>5

LEMMA NoBlocks == Blocks(<<>>) = <<>>
<1>1. <<>> \in Seq(MessageType)  OBVIOUS
<1>2. Len(Lists(<<>>)) = 0 /\ Lists(<<>>) \in Seq(BlockLists)  BY <1>1, ListTypes
<1>3. Lists(<<>>) = <<>>  BY <1>2
<1> QED BY <1>1, <1>3, ListTypes, FlattenEmpty

(* One message more, its blocks more.                                      *)
LEMMA BlocksAppended ==
  ASSUME NEW c \in Seq(MessageType), NEW m \in MessageType
  PROVE  /\ Blocks(c) \in Seq(BlockType)
         /\ m.blocks \in Seq(BlockType)
         /\ Blocks(Append(c, m)) = Blocks(c) \o m.blocks
<1> DEFINE d == Append(c, m)
<1>1. d \in Seq(MessageType) /\ Len(d) = Len(c) + 1 /\ d[Len(c) + 1] = m
      /\ \A i \in 1 .. Len(c) : d[i] = c[i]
  OBVIOUS
<1> HIDE DEF d
<1>2. /\ Lists(c) \in Seq(BlockLists) /\ Len(Lists(c)) = Len(c) /\ Blocks(c) = FlattenSeq(Lists(c))
      /\ \A i \in 1 .. Len(c) : Lists(c)[i] = c[i].blocks
  BY ListTypes
<1>3. /\ Lists(d) \in Seq(BlockLists) /\ Len(Lists(d)) = Len(c) + 1
      /\ Blocks(d) = FlattenSeq(Lists(d))
      /\ \A i \in 1 .. Len(c) + 1 : Lists(d)[i] = d[i].blocks
  BY <1>1, ListTypes
<1>4. m.blocks \in BlockLists /\ BlockLists \subseteq Seq(BlockType) /\ m.blocks \in Seq(BlockType)
  BY DEF BlockLists, MessageType
<1>5. Lists(d) = Append(Lists(c), m.blocks)
  <2> DEFINE e == Append(Lists(c), m.blocks)
  <2>1. /\ e \in Seq(BlockLists) /\ Len(e) = Len(c) + 1 /\ e[Len(c) + 1] = m.blocks
        /\ \A i \in 1 .. Len(c) : e[i] = c[i].blocks
    BY <1>2, <1>4
  <2> HIDE DEF e
  <2>2. \A i \in 1 .. Len(c) + 1 : Lists(d)[i] = e[i]
    <3>1. ASSUME NEW i \in 1 .. Len(c) PROVE Lists(d)[i] = e[i]
      <4>1. i \in 1 .. Len(c) + 1 /\ d[i] = c[i]  BY <1>1
      <4> QED BY <1>3, <2>1, <4>1
    <3>2. Lists(d)[Len(c) + 1] = e[Len(c) + 1]
      <4>1. Len(c) + 1 \in 1 .. Len(c) + 1  OBVIOUS
      <4> QED BY <1>1, <1>3, <2>1, <4>1
    <3> QED BY <3>1, <3>2
  <2>3. Lists(d) = e  BY <1>3, <2>1, <2>2
  <2> QED BY <2>3 DEF e
<1> HIDE DEF BlockLists
<1>6. /\ FlattenSeq(Lists(c)) \in Seq(BlockType)
      /\ FlattenSeq(Append(Lists(c), m.blocks)) = FlattenSeq(Lists(c)) \o m.blocks
  <2>1. /\ Lists(c) \in Seq(BlockLists) /\ m.blocks \in BlockLists
        /\ BlockLists \in SUBSET Seq(BlockType)
    BY <1>2, <1>4
  <2> DEFINE ss == Lists(c)
             s == m.blocks
  <2> HIDE DEF ss, s
  <2>2. ss \in Seq(BlockLists) /\ s \in BlockLists  BY <2>1 DEF ss, s
  <2>3. /\ FlattenSeq(ss) \in Seq(BlockType)
        /\ FlattenSeq(Append(ss, s)) = FlattenSeq(ss) \o s
    BY <2>1, <2>2, FlattenAppend
  <2> QED BY <2>3 DEF ss, s
<1> QED BY <1>2, <1>3, <1>4, <1>5, <1>6 DEF d

(* What holds of no message, and of one more, holds of every context.      *)
LEMMA ByMessages ==
  ASSUME NEW C, <<>> \in C,
         \A c \in Seq(MessageType), m \in MessageType : c \in C => Append(c, m) \in C
  PROVE  Seq(MessageType) \subseteq C
<1> DEFINE Holds == {n \in Nat : \A c \in Seq(MessageType) : Len(c) = n => c \in C}
<1>1. 0 \in Holds
  <2>1. SUFFICES ASSUME NEW c \in Seq(MessageType), Len(c) = 0 PROVE c \in C  OBVIOUS
  <2>2. c = <<>>  BY <2>1
  <2> QED BY <2>2
<1>2. ASSUME NEW n \in Nat, n \in Holds PROVE n + 1 \in Holds
  <2>1. SUFFICES ASSUME NEW c \in Seq(MessageType), Len(c) = n + 1 PROVE c \in C  OBVIOUS
  <2> DEFINE b == SubSeq(c, 1, n)
  <2>2. b \in Seq(MessageType) /\ Len(b) = n /\ c[n + 1] \in MessageType  BY <2>1
  <2>3. c = Append(b, c[n + 1])  BY <2>1
  <2>4. b \in C  BY <1>2, <2>2
  <2> HIDE DEF b
  <2> QED BY <2>2, <2>3, <2>4
<1> HIDE DEF Holds
<1>3. Nat \subseteq Holds  BY <1>1, <1>2, Induct
<1>4. \A c \in Seq(MessageType) : c \in C
  <2>1. SUFFICES ASSUME NEW c \in Seq(MessageType) PROVE c \in C  OBVIOUS
  <2>2. Len(c) \in Holds  BY <1>3
  <2> QED BY <2>2 DEF Holds
<1> QED BY <1>4

(* The elements of a concatenation.                                         *)
LEMMA BothSets ==
  ASSUME NEW S, NEW s \in Seq(S), NEW t \in Seq(S)
  PROVE  ToSet(s \o t) = ToSet(s) \cup ToSet(t)
<1>1. ASSUME NEW b \in ToSet(s \o t) PROVE b \in ToSet(s) \cup ToSet(t)
  <2>1. PICK i \in 1 .. Len(s) + Len(t) : b = (s \o t)[i]  BY DEF ToSet
  <2>2. CASE i <= Len(s)  BY <2>1, <2>2 DEF ToSet
  <2>3. CASE i > Len(s)
    <3>1. i - Len(s) \in 1 .. Len(t) /\ b = t[i - Len(s)]  BY <2>1, <2>3
    <3> QED BY <3>1 DEF ToSet
  <2> QED BY <2>2, <2>3
<1>2. ASSUME NEW i \in 1 .. Len(s) PROVE s[i] \in ToSet(s \o t)
  <2>1. i \in 1 .. Len(s \o t) /\ (s \o t)[i] = s[i]  OBVIOUS
  <2> QED BY <2>1 DEF ToSet
<1>3. ASSUME NEW i \in 1 .. Len(t) PROVE t[i] \in ToSet(s \o t)
  <2>1. Len(s) + i \in 1 .. Len(s \o t) /\ (s \o t)[Len(s) + i] = t[i]  OBVIOUS
  <2> QED BY <2>1 DEF ToSet
<1>4. ToSet(s) = {s[i] : i \in 1 .. Len(s)} /\ ToSet(t) = {t[i] : i \in 1 .. Len(t)}
  BY DEF ToSet
<1>5. ToSet(s) \subseteq ToSet(s \o t) /\ ToSet(t) \subseteq ToSet(s \o t)
  BY <1>2, <1>3, <1>4
<1> QED BY <1>1, <1>5

LEMMA FlatBlocks ==
  ASSUME NEW c \in Seq(MessageType)
  PROVE  Blocks(c) \in Seq(BlockType) /\ ToSet(Blocks(c)) = BlocksIn(c)
<1> DEFINE C == {d \in Seq(MessageType) : ToSet(Blocks(d)) = BlocksIn(d)}
<1>1. <<>> \in C
  <2>1. ToSet(<<>>) = {} /\ BlocksIn(<<>>) = {}  BY DEF ToSet, BlocksIn
  <2>2. ToSet(Blocks(<<>>)) = BlocksIn(<<>>)  BY <2>1, NoBlocks
  <2>3. <<>> \in Seq(MessageType)  OBVIOUS
  <2> QED BY <2>2, <2>3
<1>2. ASSUME NEW d \in Seq(MessageType), NEW m \in MessageType, d \in C
      PROVE  Append(d, m) \in C
  <2>1. /\ Blocks(d) \in Seq(BlockType) /\ m.blocks \in Seq(BlockType)
        /\ Blocks(Append(d, m)) = Blocks(d) \o m.blocks
    BY BlocksAppended
  <2>2. ToSet(Blocks(d) \o m.blocks) = ToSet(Blocks(d)) \cup ToSet(m.blocks)
    BY <2>1, BothSets
  <2>3. BlocksIn(Append(d, m)) = BlocksIn(d) \cup ToSet(m.blocks)  BY AppendParts
  <2>4. Append(d, m) \in Seq(MessageType)  OBVIOUS
  <2> QED BY <1>2, <2>1, <2>2, <2>3, <2>4
<1> HIDE DEF C
<1>3. c \in C  BY <1>1, <1>2, ByMessages
<1>4. Blocks(c) \in Seq(BlockType)
  <2>1. PICK m : m \in MessageType
    <3>1. [role |-> "user", blocks |-> <<>>] \in MessageType  BY DEF MessageType
    <3> QED BY <3>1
  <2> QED BY <2>1, BlocksAppended
<1> QED BY <1>3, <1>4 DEF C

LEMMA InSequenceConcat ==
  ASSUME NEW s \in Seq(BlockType), NEW t \in Seq(BlockType)
  PROVE  InSequence(s \o t) <=>
           /\ InSequence(s) /\ InSequence(t)
           /\ \A b \in ToSet(s), d \in ToSet(t) : Precedes(b, d)
<1> DEFINE st == s \o t
<1>1. /\ Len(st) = Len(s) + Len(t) /\ DOMAIN st = 1 .. Len(s) + Len(t)
      /\ Len(s) \in Nat /\ Len(t) \in Nat
      /\ DOMAIN s = 1 .. Len(s) /\ DOMAIN t = 1 .. Len(t)
      /\ \A i \in 1 .. Len(s) : st[i] = s[i]
      /\ \A i \in 1 .. Len(t) : st[Len(s) + i] = t[i]
  OBVIOUS
<1> HIDE DEF st
<1>2. ASSUME InSequence(st)
      PROVE  /\ InSequence(s) /\ InSequence(t)
             /\ \A b \in ToSet(s), d \in ToSet(t) : Precedes(b, d)
  <2>1. InSequence(s)
    <3> SUFFICES ASSUME NEW i \in 1 .. Len(s), NEW j \in 1 .. Len(s), i < j
                 PROVE  Precedes(s[i], s[j])
      BY <1>1 DEF InSequence
    <3>1. i \in DOMAIN st /\ j \in DOMAIN st /\ st[i] = s[i] /\ st[j] = s[j]  BY <1>1
    <3> QED BY <1>2, <3>1 DEF InSequence
  <2>2. InSequence(t)
    <3> SUFFICES ASSUME NEW i \in 1 .. Len(t), NEW j \in 1 .. Len(t), i < j
                 PROVE  Precedes(t[i], t[j])
      BY <1>1 DEF InSequence
    <3>1. /\ Len(s) + i \in DOMAIN st /\ Len(s) + j \in DOMAIN st /\ Len(s) + i < Len(s) + j
          /\ st[Len(s) + i] = t[i] /\ st[Len(s) + j] = t[j]
      BY <1>1
    <3> QED BY <1>2, <3>1 DEF InSequence
  <2>3. ASSUME NEW i \in 1 .. Len(s), NEW j \in 1 .. Len(t) PROVE Precedes(s[i], t[j])
    <3>1. /\ i \in DOMAIN st /\ Len(s) + j \in DOMAIN st /\ i < Len(s) + j
          /\ st[i] = s[i] /\ st[Len(s) + j] = t[j]
      BY <1>1
    <3> QED BY <1>2, <3>1 DEF InSequence
  <2> QED BY <1>1, <2>1, <2>2, <2>3 DEF ToSet
<1>3. ASSUME InSequence(s), InSequence(t),
             \A b \in ToSet(s), d \in ToSet(t) : Precedes(b, d)
      PROVE  InSequence(st)
  <2> SUFFICES ASSUME NEW i \in 1 .. Len(s) + Len(t), NEW j \in 1 .. Len(s) + Len(t), i < j
               PROVE  Precedes(st[i], st[j])
    BY <1>1 DEF InSequence
  <2>1. CASE j <= Len(s)
    <3>1. i \in DOMAIN s /\ j \in DOMAIN s /\ st[i] = s[i] /\ st[j] = s[j]  BY <1>1, <2>1
    <3> QED BY <1>3, <3>1 DEF InSequence
  <2>2. CASE i > Len(s)
    <3> DEFINE k == i - Len(s)
               l == j - Len(s)
    <3>1. k \in DOMAIN t /\ l \in DOMAIN t /\ k < l /\ i = Len(s) + k /\ j = Len(s) + l
      BY <1>1, <2>2
    <3> HIDE DEF k, l
    <3>2. st[i] = t[k] /\ st[j] = t[l]  BY <1>1, <3>1
    <3> QED BY <1>3, <3>1, <3>2 DEF InSequence
  <2>3. CASE i <= Len(s) /\ j > Len(s)
    <3> DEFINE l == j - Len(s)
    <3>1. i \in DOMAIN s /\ l \in DOMAIN t /\ j = Len(s) + l  BY <1>1, <2>3
    <3> HIDE DEF l
    <3>2. st[i] = s[i] /\ st[j] = t[l]  BY <1>1, <3>1
    <3>3. s[i] \in ToSet(s) /\ t[l] \in ToSet(t)  BY <3>1 DEF ToSet
    <3> QED BY <1>3, <3>2, <3>3
  <2> QED BY <1>1, <2>1, <2>2, <2>3
<1> QED BY <1>2, <1>3 DEF st

(* What the assistant says comes after everything else.                    *)
LEMMA SaidBlocks ==
  ASSUME NEW c \in Seq(MessageType), NEW blocks \in Seq(BlockType)
  PROVE  /\ Blocks(Said(c, blocks)) = Blocks(c) \o blocks
         /\ Last(Said(c, blocks)).role = "assistant"
         /\ Last(Said(c, blocks)).blocks = IF c # <<>> /\ Last(c).role = "assistant"
                                           THEN Last(c).blocks \o blocks ELSE blocks
<1>1. CASE c # <<>> /\ Last(c).role = "assistant"
  <2> DEFINE f == SubSeq(c, 1, Len(c) - 1)
             l == Last(c)
             m == Message("assistant", l.blocks \o blocks)
  <2>1. /\ Len(c) \in Nat \ {0} /\ l \in MessageType /\ f \in Seq(MessageType)
        /\ c = Append(f, l)
    BY <1>1 DEF Last
  <2>2. l.blocks \in Seq(BlockType)  BY <2>1 DEF MessageType
  <2>3. Said(c, blocks) = Append(f, m)  BY <1>1, <2>1 DEF Said, Front
  <2>4. m \in MessageType /\ m.blocks = l.blocks \o blocks /\ m.role = "assistant"
    BY <2>2 DEF Message, MessageType
  <2> HIDE DEF f, l, m
  <2>5. Blocks(c) = Blocks(f) \o l.blocks /\ Blocks(f) \in Seq(BlockType)
    BY <2>1, BlocksAppended
  <2>6. Blocks(Append(f, m)) = Blocks(f) \o (l.blocks \o blocks)
    BY <2>1, <2>4, BlocksAppended
  <2>7. Blocks(f) \o (l.blocks \o blocks) = (Blocks(f) \o l.blocks) \o blocks
    <3> DEFINE x == Blocks(f)
               y == l.blocks
    <3>1. x \in Seq(BlockType) /\ y \in Seq(BlockType)  BY <2>2, <2>5
    <3> HIDE DEF x, y
    <3>2. x \o (y \o blocks) = (x \o y) \o blocks  BY <3>1, Assoc
    <3> QED BY <3>2 DEF x, y
  <2>8. Last(Append(f, m)) = m  BY <2>1, <2>4 DEF Last
  <2> QED BY <1>1, <2>3, <2>4, <2>5, <2>6, <2>7, <2>8 DEF l
<1>2. CASE ~ (c # <<>> /\ Last(c).role = "assistant")
  <2> DEFINE m == Message("assistant", blocks)
  <2>1. m \in MessageType /\ m.blocks = blocks /\ m.role = "assistant"
    BY DEF Message, MessageType
  <2>2. Said(c, blocks) = Append(c, m)  BY <1>2 DEF Said
  <2> HIDE DEF m
  <2>3. Last(Append(c, m)) = m  BY <2>1 DEF Last
  <2> QED BY <1>2, <2>1, <2>2, <2>3, BlocksAppended
<1> QED BY <1>1, <1>2

(* The blocks of the first messages are the first blocks.                   *)
LEMMA FirstBlocks ==
  ASSUME NEW c \in Seq(MessageType), NEW k \in 0 .. Len(c)
  PROVE  \E t \in Seq(BlockType) : Blocks(c) = Blocks(SubSeq(c, 1, k)) \o t
<1> DEFINE Has(d, n) == \E t \in Seq(BlockType) : Blocks(d) = Blocks(SubSeq(d, 1, n)) \o t
           C == {d \in Seq(MessageType) : \A n \in 0 .. Len(d) : Has(d, n)}
<1>0. ASSUME NEW d \in Seq(MessageType) PROVE Has(d, Len(d))
  <2>1. SubSeq(d, 1, Len(d)) = d /\ Blocks(d) \in Seq(BlockType)  BY FlatBlocks
  <2>2. Blocks(d) = Blocks(d) \o <<>> /\ <<>> \in Seq(BlockType)  BY <2>1
  <2> QED BY <2>1, <2>2
<1>1. <<>> \in C
  <2>1. <<>> \in Seq(MessageType) /\ Len(<<>>) = 0  OBVIOUS
  <2>2. \A n \in 0 .. Len(<<>>) : n = Len(<<>>)  BY <2>1
  <2> QED BY <1>0, <2>1, <2>2
<1>2. ASSUME NEW d \in Seq(MessageType), NEW m \in MessageType, d \in C
      PROVE  Append(d, m) \in C
  <2> DEFINE e == Append(d, m)
  <2>1. e \in Seq(MessageType) /\ Len(e) = Len(d) + 1  OBVIOUS
  <2>2. ASSUME NEW n \in 0 .. Len(d) PROVE Has(e, n)
    <3>1. PICK t \in Seq(BlockType) : Blocks(d) = Blocks(SubSeq(d, 1, n)) \o t
      BY <1>2
    <3>2. SubSeq(e, 1, n) = SubSeq(d, 1, n) /\ SubSeq(d, 1, n) \in Seq(MessageType)  OBVIOUS
    <3>3. Blocks(e) = Blocks(d) \o m.blocks /\ m.blocks \in Seq(BlockType)
      BY BlocksAppended
    <3>4. Blocks(SubSeq(d, 1, n)) \in Seq(BlockType)  BY <3>2, FlatBlocks
    <3>5. /\ (Blocks(SubSeq(d, 1, n)) \o t) \o m.blocks
             = Blocks(SubSeq(d, 1, n)) \o (t \o m.blocks)
          /\ t \o m.blocks \in Seq(BlockType)
      <4> DEFINE x == Blocks(SubSeq(d, 1, n))
                 y == m.blocks
      <4>1. x \in Seq(BlockType) /\ y \in Seq(BlockType)  BY <3>3, <3>4
      <4> HIDE DEF x, y
      <4>2. (x \o t) \o y = x \o (t \o y) /\ t \o y \in Seq(BlockType)  BY <4>1, Assoc
      <4> QED BY <4>2 DEF x, y
    <3> QED BY <3>1, <3>2, <3>3, <3>5
  <2>3. Has(e, Len(e))  BY <1>0, <2>1
  <2> HIDE DEF e, Has
  <2>4. \A n \in 0 .. Len(e) : Has(e, n)  BY <2>1, <2>2, <2>3
  <2> QED BY <2>1, <2>4 DEF e
<1> HIDE DEF C
<1>3. c \in C  BY <1>1, <1>2, ByMessages
<1> QED BY <1>3 DEF C

LEMMA LastBlocks ==
  ASSUME NEW c \in Seq(MessageType), c # <<>>
  PROVE  /\ SubSeq(c, 1, Len(c) - 1) \in Seq(MessageType)
         /\ Last(c) \in MessageType /\ Last(c).blocks \in Seq(BlockType)
         /\ Blocks(c) = Blocks(SubSeq(c, 1, Len(c) - 1)) \o Last(c).blocks
<1> DEFINE f == SubSeq(c, 1, Len(c) - 1)
           l == Last(c)
<1>1. /\ Len(c) \in Nat \ {0} /\ l \in MessageType /\ f \in Seq(MessageType)
      /\ c = Append(f, l)
  BY DEF Last
<1> HIDE DEF f, l
<1>2. Blocks(c) = Blocks(f) \o l.blocks /\ l.blocks \in Seq(BlockType)
  BY <1>1, BlocksAppended
<1> QED BY <1>1, <1>2 DEF f, l

LEMMA RestoredBlocks ==
  ASSUME NEW c \in Seq(MessageType), saved.last \in Seq(MessageType),
         saved.length \in 1 .. Len(c), Len(saved.last) = 1
  PROVE  /\ SubSeq(c, 1, saved.length - 1) \in Seq(MessageType)
         /\ saved.last[1] \in MessageType /\ saved.last[1].blocks \in Seq(BlockType)
         /\ Last(Restored(c)) = saved.last[1] /\ Restored(c) # <<>>
         /\ Blocks(Restored(c)) = Blocks(SubSeq(c, 1, saved.length - 1)) \o saved.last[1].blocks
<1> DEFINE r == Restored(c)
           k == SubSeq(c, 1, saved.length - 1)
<1>0. r = k \o saved.last  BY DEF Restored
<1>1. /\ r \in Seq(MessageType) /\ Len(r) = saved.length /\ r[saved.length] = saved.last[1]
  BY RestoredParts
<1>4. k \in Seq(MessageType) /\ Len(k) = saved.length - 1  OBVIOUS
<1> HIDE DEF r, k
<1>2. r # <<>> /\ Last(r) = saved.last[1]  BY <1>1 DEF Last
<1>3. SubSeq(r, 1, Len(r) - 1) = k
  <2>1. SubSeq(k \o saved.last, 1, Len(k)) = k  BY <1>4, Joined
  <2> QED BY <1>0, <1>1, <1>4, <2>1
<1> QED BY <1>1, <1>2, <1>3, <1>4, LastBlocks DEF r, k

-----------------------------------------------------------------------------
(* Collapsing, block by block.                                             *)
OneCollapsed(b, ids) ==
  IF IsSubmitResult(b) /\ b.id \in ids THEN [b EXCEPT !.note = "superseded"] ELSE b
Collapsed(blocks, ids) == [j \in DOMAIN blocks |-> OneCollapsed(blocks[j], ids)]

LEMMA CollapsedTypes ==
  ASSUME NEW s \in Seq(BlockType), NEW ids
  PROVE  /\ Collapsed(s, ids) \in Seq(BlockType) /\ Len(Collapsed(s, ids)) = Len(s)
         /\ \A j \in 1 .. Len(s) : Collapsed(s, ids)[j] = OneCollapsed(s[j], ids)
<1>0. \A b \in BlockType : OneCollapsed(b, ids) \in BlockType
  BY DEF OneCollapsed, BlockType
<1>1. \A j \in 1 .. Len(s) : OneCollapsed(s[j], ids) \in BlockType  BY <1>0
<1>2. Collapsed(s, ids) \in [1 .. Len(s) -> BlockType] /\ Len(s) \in Nat
  BY <1>1 DEF Collapsed
<1> QED BY <1>2 DEF Collapsed

LEMMA CollapsedConcat ==
  ASSUME NEW s \in Seq(BlockType), NEW t \in Seq(BlockType), NEW ids
  PROVE  Collapsed(s \o t, ids) = Collapsed(s, ids) \o Collapsed(t, ids)
<1> DEFINE st == s \o t
           a == Collapsed(s, ids)
           b == Collapsed(t, ids)
           l == Collapsed(st, ids)
<1>1. /\ st \in Seq(BlockType) /\ Len(st) = Len(s) + Len(t)
      /\ \A i \in 1 .. Len(s) : st[i] = s[i]
      /\ \A i \in 1 .. Len(t) : st[Len(s) + i] = t[i]
  OBVIOUS
<1>0. st \in Seq(BlockType)  OBVIOUS
<1> HIDE DEF st
<1>2. /\ a \in Seq(BlockType) /\ Len(a) = Len(s) /\ b \in Seq(BlockType) /\ Len(b) = Len(t)
      /\ l \in Seq(BlockType) /\ Len(l) = Len(s) + Len(t)
  BY <1>1, CollapsedTypes
<1>3. \A i \in 1 .. Len(s) : l[i] = a[i]
  <2> SUFFICES ASSUME NEW i \in 1 .. Len(s) PROVE l[i] = a[i]  OBVIOUS
  <2>1. i \in 1 .. Len(st) /\ st[i] = s[i]  BY <1>1
  <2>2. l[i] = OneCollapsed(st[i], ids)  BY <1>0, <2>1, CollapsedTypes
  <2>3. a[i] = OneCollapsed(s[i], ids)  BY CollapsedTypes
  <2> HIDE DEF l, a
  <2> QED BY <2>1, <2>2, <2>3
<1>4. \A i \in 1 .. Len(t) : l[Len(s) + i] = b[i]
  <2> SUFFICES ASSUME NEW i \in 1 .. Len(t) PROVE l[Len(s) + i] = b[i]  OBVIOUS
  <2>1. Len(s) + i \in 1 .. Len(st) /\ st[Len(s) + i] = t[i]  BY <1>1
  <2>2. l[Len(s) + i] = OneCollapsed(st[Len(s) + i], ids)  BY <1>0, <2>1, CollapsedTypes
  <2>3. b[i] = OneCollapsed(t[i], ids)  BY CollapsedTypes
  <2> HIDE DEF l, b
  <2> QED BY <2>1, <2>2, <2>3
<1> HIDE DEF a, b, l
<1>5. l = a \o b
  <2> DEFINE ab == a \o b
  <2>1. /\ ab \in Seq(BlockType) /\ Len(ab) = Len(s) + Len(t)
        /\ \A i \in 1 .. Len(s) : ab[i] = a[i]
        /\ \A i \in 1 .. Len(t) : ab[Len(s) + i] = b[i]
    <3>0. a \in Seq(BlockType) /\ b \in Seq(BlockType)  BY <1>2
    <3>1. /\ ab \in Seq(BlockType) /\ Len(ab) = Len(a) + Len(b)
          /\ \A i \in 1 .. Len(a) : ab[i] = a[i]
          /\ \A i \in 1 .. Len(b) : ab[Len(a) + i] = b[i]
      BY <3>0
    <3>2. Len(a) = Len(s) /\ Len(b) = Len(t)  BY <1>2
    <3> HIDE DEF ab
    <3> QED BY <3>1, <3>2
  <2> HIDE DEF ab
  <2>4. \A i \in 1 .. Len(t) : ab[Len(s) + i] = b[i]  BY <2>1
  <2>2. ASSUME NEW i \in 1 .. Len(s) + Len(t) PROVE l[i] = ab[i]
    <3>1. CASE i <= Len(s)  BY <1>3, <2>1, <3>1
    <3>2. CASE i > Len(s)
      <4> DEFINE k == i - Len(s)
      <4>1. k \in 1 .. Len(t) /\ i = Len(s) + k  BY <3>2
      <4> HIDE DEF k
      <4>2. l[Len(s) + k] = b[k]  BY <1>4, <4>1
      <4>3. ab[Len(s) + k] = b[k]  BY <2>4, <4>1
      <4> QED BY <4>1, <4>2, <4>3
    <3> QED BY <3>1, <3>2
  <2>3. l = ab  BY <1>2, <2>1, <2>2
  <2> QED BY <2>3 DEF ab
<1> QED BY <1>5 DEF a, b, l, st

LEMMA CollapseMessages ==
  ASSUME NEW c \in Seq(MessageType), NEW ids
  PROVE  /\ Collapse(c, ids) \in Seq(MessageType) /\ Len(Collapse(c, ids)) = Len(c)
         /\ \A i \in 1 .. Len(c) :
              Collapse(c, ids)[i] = [role |-> c[i].role, blocks |-> Collapsed(c[i].blocks, ids)]
<1>1. Collapse(c, ids) \in Seq(MessageType) /\ Len(Collapse(c, ids)) = Len(c)
  BY CollapseParts DEF SameButNotes
<1>2. ASSUME NEW i \in 1 .. Len(c)
      PROVE  Collapse(c, ids)[i] = [role |-> c[i].role, blocks |-> Collapsed(c[i].blocks, ids)]
  <2>1. c[i] \in MessageType /\ i \in DOMAIN c  OBVIOUS
  <2>2. Collapse(c, ids)[i] = [c[i] EXCEPT !.blocks = Collapsed(c[i].blocks, ids)]
    BY <2>1 DEF Collapse, Collapsed, OneCollapsed, IsSubmitResult
  <2> QED BY <2>1, <2>2 DEF MessageType
<1> QED BY <1>1, <1>2

LEMMA CollapsedBlocks ==
  ASSUME NEW c \in Seq(MessageType), NEW ids
  PROVE  Blocks(Collapse(c, ids)) = Collapsed(Blocks(c), ids)
<1> DEFINE C == {d \in Seq(MessageType) : Blocks(Collapse(d, ids)) = Collapsed(Blocks(d), ids)}
<1>1. <<>> \in C
  <2>1. <<>> \in Seq(MessageType)  OBVIOUS
  <2>2. Collapse(<<>>, ids) = <<>>
    <3>1. Collapse(<<>>, ids) \in Seq(MessageType) /\ Len(Collapse(<<>>, ids)) = 0
      BY <2>1, CollapseMessages
    <3> QED BY <3>1, ZeroLength
  <2>3. Collapsed(<<>>, ids) = <<>>  BY DEF Collapsed
  <2>4. Blocks(Collapse(<<>>, ids)) = Collapsed(Blocks(<<>>), ids)  BY <2>2, <2>3, NoBlocks
  <2> QED BY <2>1, <2>4
<1>2. ASSUME NEW d \in Seq(MessageType), NEW m \in MessageType, d \in C
      PROVE  Append(d, m) \in C
  <2> DEFINE e == Append(d, m)
             n == [role |-> m.role, blocks |-> Collapsed(m.blocks, ids)]
             cd == Collapse(d, ids)
             ce == Collapse(e, ids)
  <2>1. /\ e \in Seq(MessageType) /\ Len(e) = Len(d) + 1 /\ e[Len(d) + 1] = m
        /\ \A i \in 1 .. Len(d) : e[i] = d[i]
    OBVIOUS
  <2>2. m.blocks \in Seq(BlockType) /\ m.role \in {"user", "assistant"}  BY DEF MessageType
  <2>3. n \in MessageType /\ n.blocks = Collapsed(m.blocks, ids)
    BY <2>2, CollapsedTypes DEF MessageType
  <2>4. /\ cd \in Seq(MessageType) /\ Len(cd) = Len(d)
        /\ \A i \in 1 .. Len(d) :
             cd[i] = [role |-> d[i].role, blocks |-> Collapsed(d[i].blocks, ids)]
    BY CollapseMessages
  <2> HIDE DEF e
  <2>5. /\ ce \in Seq(MessageType) /\ Len(ce) = Len(d) + 1
        /\ \A i \in 1 .. Len(d) + 1 :
             ce[i] = [role |-> e[i].role, blocks |-> Collapsed(e[i].blocks, ids)]
    BY <2>1, CollapseMessages
  <2> HIDE DEF cd, ce
  <2>6. ce[Len(d) + 1] = n
    <3>1. Len(d) + 1 \in 1 .. Len(d) + 1  OBVIOUS
    <3> QED BY <2>1, <2>5, <3>1
  <2>7. \A i \in 1 .. Len(d) : ce[i] = cd[i]
    <3> SUFFICES ASSUME NEW i \in 1 .. Len(d) PROVE ce[i] = cd[i]  OBVIOUS
    <3>1. i \in 1 .. Len(d) + 1 /\ e[i] = d[i]  BY <2>1
    <3> QED BY <2>4, <2>5, <3>1
  <2> HIDE DEF n
  <2>8. ce = Append(cd, n)
    <3> DEFINE x == Append(cd, n)
    <3>1. /\ x \in Seq(MessageType) /\ Len(x) = Len(d) + 1 /\ x[Len(d) + 1] = n
          /\ \A i \in 1 .. Len(d) : x[i] = cd[i]
      BY <2>3, <2>4
    <3> HIDE DEF x
    <3>2. \A i \in 1 .. Len(d) + 1 : ce[i] = x[i]  BY <2>6, <2>7, <3>1
    <3>3. ce = x  BY <2>5, <3>1, <3>2
    <3> QED BY <3>3 DEF x
  <2>9. Blocks(ce) = Collapsed(Blocks(d), ids) \o Collapsed(m.blocks, ids)
    <3>1. Blocks(cd) = Collapsed(Blocks(d), ids)  BY <1>2 DEF cd
    <3> QED BY <2>3, <2>4, <2>8, <3>1, BlocksAppended
  <2>10. Blocks(e) = Blocks(d) \o m.blocks /\ Blocks(d) \in Seq(BlockType)
    BY BlocksAppended DEF e
  <2>11. Blocks(ce) = Collapsed(Blocks(e), ids)
    BY <2>2, <2>9, <2>10, CollapsedConcat
  <2> QED BY <2>1, <2>11 DEF ce, e
<1> HIDE DEF C
<1>3. c \in C  BY <1>1, <1>2, ByMessages
<1> QED BY <1>3 DEF C

-----------------------------------------------------------------------------
(* Which results a compaction collapses.                                   *)

SubmitResults(blocks) == {i \in DOMAIN blocks : IsSubmitResult(blocks[i])}

LEMMA AllAnswers ==
  ASSUME NEW c \in Seq(MessageType), \A i \in DOMAIN c : Answers(c[i].blocks)
  PROVE  Answers(Blocks(c))
<1>1. ToSet(Blocks(c)) = BlocksIn(c)  BY FlatBlocks
<1>2. ASSUME NEW b \in BlocksIn(c), b.kind = "result", rejected[b.round] = 0
      PROVE  \E a \in BlocksIn(c) :
               a.kind = "call" /\ a.id = b.id /\ a.tool = b.tool /\ a.round = b.round
  <2>1. PICK i \in DOMAIN c : b \in ToSet(c[i].blocks)  BY DEF BlocksIn
  <2>2. PICK a \in ToSet(c[i].blocks) :
          a.kind = "call" /\ a.id = b.id /\ a.tool = b.tool /\ a.round = b.round
    BY <1>2, <2>1 DEF Answers
  <2>3. a \in BlocksIn(c)  BY DEF BlocksIn
  <2> QED BY <2>2, <2>3
<1> QED BY <1>1, <1>2 DEF Answers

(* A call, seen as that of a result.                                       *)
CallsOne(blocks, p, q) ==
  /\ p \in DOMAIN blocks
  /\ blocks[p].kind = "call" /\ blocks[p].id = blocks[q].id
  /\ blocks[p].tool = blocks[q].tool /\ blocks[p].round = blocks[q].round

LEMMA CalledFor ==
  ASSUME NEW blocks, Answers(blocks), NEW q \in DOMAIN blocks, blocks[q].kind = "result",
         rejected[blocks[q].round] = 0
  PROVE  \E p : CallsOne(blocks, p, q)
<1>1. blocks[q] \in ToSet(blocks)  BY DEF ToSet
<1>2. PICK a \in ToSet(blocks) :
        /\ a.kind = "call" /\ a.id = blocks[q].id
        /\ a.tool = blocks[q].tool /\ a.round = blocks[q].round
  BY <1>1 DEF Answers
<1>3. PICK p \in DOMAIN blocks : a = blocks[p]  BY DEF ToSet
<1> QED BY <1>2, <1>3 DEF CallsOne

(* What is not ambiguous has one call and one result to an id.             *)
LEMMA OneToAnId ==
  ASSUME NEW c \in Seq(MessageType), ~ Ambiguous(c), NEW kind \in {"call", "result"},
         NEW i \in Of(c, kind), NEW j \in Of(c, kind), Blocks(c)[i].id = Blocks(c)[j].id
  PROVE  i = j
<1> DEFINE S == Of(c, kind)
           T == IdsOf(c, kind)
           f == [k \in S |-> Blocks(c)[k].id]
<1>1. Cardinality(T) = Cardinality(S)  BY DEF Ambiguous
<1>2. IsFiniteSet(S)
  <2>1. Blocks(c) \in Seq(BlockType)  BY FlatBlocks
  <2>2. S \subseteq 1 .. Len(Blocks(c)) /\ Len(Blocks(c)) \in Nat  BY <2>1 DEF Of
  <2>3. IsFiniteSet(1 .. Len(Blocks(c)))  BY <2>2, FS_Interval
  <2> QED BY <2>2, <2>3, FS_Subset
<1>3. f \in Surjection(S, T)
  <2>1. T = {Blocks(c)[k].id : k \in S}  BY DEF IdsOf
  <2>2. f \in [S -> T] /\ \A t \in T : \E k \in S : f[k] = t  BY <2>1
  <2> HIDE DEF S, T, f
  <2> QED BY <2>2, Fun_IsSurj
<1>4. f[i] = f[j]  OBVIOUS
<1>5. i \in S /\ j \in S  OBVIOUS
<1> HIDE DEF S, T, f
<1>6. f \in Injection(S, T)  BY <1>1, <1>2, <1>3, FS_SurjSameCardinalityImpliesInj
<1> QED BY <1>4, <1>5, <1>6, Fun_InjectionProperties

LEMMA ResultFor ==
  ASSUME NEW c \in Seq(MessageType), ~ Ambiguous(c), NEW i \in Of(c, "call")
  PROVE  \E j \in Of(c, "result") :
           Blocks(c)[j].id = Blocks(c)[i].id /\ Blocks(c)[j].tool = Blocks(c)[i].tool
<1>1. IdsOf(c, "call") = IdsOf(c, "result")  BY DEF Ambiguous
<1>2. Blocks(c)[i].id \in IdsOf(c, "result")  BY <1>1 DEF IdsOf
<1>3. PICK j \in Of(c, "result") : Blocks(c)[j].id = Blocks(c)[i].id  BY <1>2 DEF IdsOf
<1>4. Blocks(c)[j].tool = Blocks(c)[i].tool  BY <1>3 DEF Ambiguous
<1> QED BY <1>3, <1>4

(* Of two results, the calls are in the same order.                         *)
LEMMA CallsInOrder ==
  ASSUME NEW blocks \in Seq(BlockType), InSequence(blocks),
         NEW q1 \in DOMAIN blocks, NEW q2 \in DOMAIN blocks, q1 < q2,
         blocks[q1].kind = "result", blocks[q2].kind = "result",
         NEW p1, NEW p2, CallsOne(blocks, p1, q1), CallsOne(blocks, p2, q2)
  PROVE  p1 < p2 \/ (p1 = p2 /\ blocks[q1].id = blocks[q2].id)
<1>1. \A i \in DOMAIN blocks : blocks[i] \in BlockType /\ i \in Nat  OBVIOUS
<1>2. \A b \in BlockType : b.round \in Nat /\ b.id \in Nat
  <2>1. MaxRounds \in Nat  BY ConversationAssumption
  <2> QED BY <2>1 DEF BlockType
<1>3. p1 \in DOMAIN blocks /\ p2 \in DOMAIN blocks  BY DEF CallsOne
<1>4. SUFFICES ASSUME p2 < p1 PROVE FALSE  BY <1>1, <1>3 DEF CallsOne
<1>5. Precedes(blocks[p2], blocks[p1]) /\ Precedes(blocks[q1], blocks[q2])
  BY <1>3, <1>4 DEF InSequence
<1>6. /\ blocks[p2].round <= blocks[p1].round /\ blocks[q1].round <= blocks[q2].round
      /\ blocks[p1].round = blocks[q1].round /\ blocks[p2].round = blocks[q2].round
      /\ blocks[p1].round \in Nat /\ blocks[p2].round \in Nat
  BY <1>1, <1>2, <1>3, <1>5 DEF Precedes, CallsOne
<1>7. blocks[p2].round = blocks[p1].round /\ blocks[q1].round = blocks[q2].round
  BY <1>6
<1>8. blocks[p2].id < blocks[p1].id /\ blocks[q1].id < blocks[q2].id
  BY <1>5, <1>7 DEF Precedes, CallsOne
<1>9. blocks[p1].id = blocks[q1].id /\ blocks[p2].id = blocks[q2].id  BY DEF CallsOne
<1>10. blocks[q1].id \in Nat /\ blocks[q2].id \in Nat  BY <1>1, <1>2
<1> QED BY <1>8, <1>9, <1>10

(* No submission's result is one that came late.                           *)
NoStray(c) == \A b \in BlocksIn(c) : IsSubmitResult(b) => rejected[b.round] = 0

(* The results a compaction takes for superseded are all but the last.     *)
LEMMA SupersededResults ==
  ASSUME NEW c \in Seq(MessageType), InSequence(Blocks(c)),
         \A i \in DOMAIN c : Answers(c[i].blocks), ~ Ambiguous(c), NoStray(c),
         NEW q \in SubmitResults(Blocks(c))
  PROVE  Blocks(c)[q].id \in Superseded(c) <=> \E k \in SubmitResults(Blocks(c)) : k > q
<1> DEFINE B == Blocks(c)
<1>1. B \in Seq(BlockType) /\ Answers(B) /\ InSequence(B)  BY FlatBlocks, AllAnswers
<1>2. \A k \in SubmitResults(B) : /\ k \in DOMAIN B /\ B[k].kind = "result"
                                  /\ B[k].tool = "submit" /\ k \in Of(c, "result")
                                  /\ rejected[B[k].round] = 0
  <2>1. \A k \in DOMAIN B : B[k] \in BlocksIn(c)  BY FlatBlocks DEF ToSet
  <2> QED BY <2>1 DEF SubmitResults, IsSubmitResult, Of, NoStray
<1>3. \A p, k : k \in SubmitResults(B) /\ CallsOne(B, p, k) =>
                  p \in SubmitCalls(c) /\ p \in Of(c, "call") /\ B[p].id = B[k].id
  BY <1>2 DEF SubmitCalls, Of, CallsOne
<1>4. \A p \in SubmitCalls(c) : p \in Of(c, "call") /\ p \in DOMAIN B /\ B[p].kind = "call"
                                /\ B[p].tool = "submit"
  BY DEF SubmitCalls, Of
<1>5. DOMAIN B \subseteq Nat  BY <1>1
<1>6. ASSUME NEW k \in SubmitResults(B), k > q
      PROVE  B[q].id \in Superseded(c)
  <2>1. PICK p1 : CallsOne(B, p1, q)  BY <1>1, <1>2, CalledFor
  <2>2. PICK p2 : CallsOne(B, p2, k)  BY <1>1, <1>2, CalledFor
  <2>3. B[q].id # B[k].id
    <3>1. q \in Of(c, "result") /\ k \in Of(c, "result") /\ q # k  BY <1>2, <1>5, <1>6
    <3> QED BY <3>1, OneToAnId
  <2>4. q < k  BY <1>2, <1>5, <1>6
  <2>5. p1 < p2
    <3>1. /\ q \in DOMAIN B /\ k \in DOMAIN B
          /\ B[q].kind = "result" /\ B[k].kind = "result"
      BY <1>2
    <3> HIDE DEF B
    <3>2. p1 < p2 \/ (p1 = p2 /\ B[q].id = B[k].id)
      BY <1>1, <2>1, <2>2, <2>4, <3>1, CallsInOrder
    <3> QED BY <2>3, <3>2
  <2>6. p1 \in SubmitCalls(c) /\ p2 \in SubmitCalls(c) /\ B[p1].id = B[q].id /\ p2 > p1
    BY <1>3, <1>4, <1>5, <2>1, <2>2, <2>5
  <2> QED BY <2>6 DEF Superseded
<1>7. ASSUME B[q].id \in Superseded(c)
      PROVE  \E k \in SubmitResults(B) : k > q
  <2>1. PICK p1 \in SubmitCalls(c) : B[q].id = B[p1].id /\ \E p2 \in SubmitCalls(c) : p2 > p1
    BY <1>7 DEF Superseded
  <2>2. PICK p2 \in SubmitCalls(c) : p2 > p1  BY <2>1
  <2>3. PICK q2 \in Of(c, "result") : B[q2].id = B[p2].id /\ B[q2].tool = B[p2].tool
    BY <1>4, ResultFor
  <2>4. q2 \in SubmitResults(B)
    BY <1>4, <2>3 DEF SubmitResults, IsSubmitResult, Of
  <2>5. PICK r1 : CallsOne(B, r1, q)  BY <1>1, <1>2, CalledFor
  <2>6. PICK r2 : CallsOne(B, r2, q2)  BY <1>1, <1>2, <2>4, CalledFor
  <2>7. r1 = p1 /\ r2 = p2
    <3>1. r1 \in Of(c, "call") /\ B[r1].id = B[p1].id /\ p1 \in Of(c, "call")
      BY <1>3, <1>4, <2>1, <2>5
    <3>2. r2 \in Of(c, "call") /\ B[r2].id = B[p2].id /\ p2 \in Of(c, "call")
      BY <1>3, <1>4, <2>3, <2>4, <2>6
    <3> QED BY <3>1, <3>2, OneToAnId
  <2>8. p1 \in Nat /\ p2 \in Nat /\ q \in Nat /\ q2 \in Nat  BY <1>2, <1>4, <1>5, <2>4
  <2>9. CASE q2 < q
    <3>1. /\ q \in DOMAIN B /\ q2 \in DOMAIN B
          /\ B[q].kind = "result" /\ B[q2].kind = "result"
      BY <1>2, <2>4
    <3> HIDE DEF B
    <3>2. CallsOne(B, p1, q) /\ CallsOne(B, p2, q2)  BY <2>5, <2>6, <2>7
    <3>3. p2 < p1 \/ (p2 = p1 /\ B[q2].id = B[q].id)
      BY <1>1, <2>9, <3>1, <3>2, CallsInOrder
    <3> QED BY <2>2, <2>8, <3>3
  <2>10. CASE q2 = q
    <3>1. B[p1].id = B[p2].id /\ p1 \in Of(c, "call") /\ p2 \in Of(c, "call")
      BY <1>4, <2>1, <2>3, <2>10
    <3>2. p1 = p2  BY <3>1, OneToAnId
    <3> QED BY <2>2, <2>8, <3>2
  <2>11. CASE q2 > q  BY <2>4, <2>11
  <2> QED BY <2>8, <2>9, <2>10, <2>11
<1> QED BY <1>6, <1>7

LEMMA LastOf ==
  ASSUME NEW n \in Nat, NEW T \in SUBSET (1 .. n), T # {}
  PROVE  \E x \in T : \A y \in T : y <= x
<1> DEFINE U == {k \in 0 .. n : n - k \in T}
<1>1. PICK t \in T : TRUE  OBVIOUS
<1>2. n - t \in U  BY <1>1
<1>6. U \in SUBSET Nat  OBVIOUS
<1>7. \E k \in U : \A l \in U : k <= l
  <2> HIDE DEF U
  <2> QED BY <1>2, <1>6, LeastNat
<1>3. PICK k \in U : \A l \in U : k <= l  BY <1>7
<1>4. n - k \in T  OBVIOUS
<1>5. ASSUME NEW y \in T PROVE y <= n - k
  <2>1. n - y \in U  OBVIOUS
  <2>2. k <= n - y  BY <1>3, <2>1
  <2> QED BY <2>2
<1> QED BY <1>4, <1>5

(* A collapsed block is the same but for its note.                         *)
SameButNote(d, b) ==
  /\ d.kind = b.kind /\ d.tool = b.tool /\ d.id = b.id /\ d.round = b.round
  /\ d.note = "whole" => b.note = "whole"
  /\ ~ IsSubmitResult(b) => d = b

LEMMA CollapsedFields ==
  ASSUME NEW s \in Seq(BlockType), NEW ids, NEW j \in 1 .. Len(s)
  PROVE  /\ SameButNote(Collapsed(s, ids)[j], s[j])
         /\ IsSubmitResult(s[j]) =>
              Collapsed(s, ids)[j].note = IF s[j].id \in ids THEN "superseded" ELSE s[j].note
<1>1. s[j] \in BlockType  OBVIOUS
<1>2. Collapsed(s, ids)[j] = IF IsSubmitResult(s[j]) /\ s[j].id \in ids
                             THEN [s[j] EXCEPT !.note = "superseded"] ELSE s[j]
  BY CollapsedTypes DEF OneCollapsed
<1> QED BY <1>1, <1>2 DEF BlockType, SameButNote

LEMMA PrecedesStill ==
  ASSUME NEW b, NEW d, NEW e, NEW f, Precedes(b, d), SameButNote(e, b), SameButNote(f, d),
         IsSubmitResult(b) /\ IsSubmitResult(d) /\ e.note = "whole" => f.note = "whole"
  PROVE  Precedes(e, f)
  BY DEF Precedes, SameButNote, IsSubmitResult

LEMMA AnswersStill ==
  ASSUME NEW s \in Seq(BlockType), NEW ids, Answers(s)
  PROVE  Answers(Collapsed(s, ids))
<1> DEFINE t == Collapsed(s, ids)
<1>1. /\ t \in Seq(BlockType) /\ Len(t) = Len(s) /\ DOMAIN t = 1 .. Len(s)
      /\ DOMAIN s = 1 .. Len(s)
      /\ \A j \in 1 .. Len(s) : SameButNote(t[j], s[j])
  BY CollapsedTypes, CollapsedFields
<1> HIDE DEF t
<1>2. ASSUME NEW i \in 1 .. Len(s), t[i].kind = "result", rejected[t[i].round] = 0
      PROVE  \E j \in 1 .. Len(s) : /\ t[j].kind = "call" /\ t[j].id = t[i].id
                                    /\ t[j].tool = t[i].tool /\ t[j].round = t[i].round
  <2>1. s[i] \in ToSet(s) /\ s[i].kind = "result" /\ rejected[s[i].round] = 0
    BY <1>1, <1>2 DEF ToSet, SameButNote
  <2>2. PICK a \in ToSet(s) : /\ a.kind = "call" /\ a.id = s[i].id
                              /\ a.tool = s[i].tool /\ a.round = s[i].round
    BY <2>1 DEF Answers
  <2>3. PICK j \in 1 .. Len(s) : a = s[j]  BY <1>1 DEF ToSet
  <2>4. SameButNote(t[j], s[j]) /\ SameButNote(t[i], s[i])  BY <1>1
  <2> QED BY <2>2, <2>3, <2>4 DEF SameButNote
<1>3. ToSet(t) = {t[j] : j \in 1 .. Len(s)}  BY <1>1 DEF ToSet
<1>4. Answers(t)  BY <1>2, <1>3 DEF Answers
<1> QED BY <1>4 DEF t

(* The last result stands, so no collapsed one is without a later one.     *)
LEMMA CollapsedInSequence ==
  ASSUME NEW c \in Seq(MessageType), InSequence(Blocks(c)),
         \A i \in DOMAIN c : Answers(c[i].blocks), ~ Ambiguous(c), NoStray(c)
  PROVE  LET B == Blocks(c)
             D == Collapsed(Blocks(c), Superseded(c))
         IN  /\ InSequence(D)
             /\ \A q \in SubmitResults(B) : B[q].note = "whole" /\ D[q].note = "superseded" =>
                  \E k \in SubmitResults(D) : k > q /\ D[k].note = "whole"
<1> DEFINE B == Blocks(c)
           D == Collapsed(Blocks(c), Superseded(c))
           R == SubmitResults(B)
<1>1. B \in Seq(BlockType)  BY FlatBlocks
<1>2. /\ D \in Seq(BlockType) /\ Len(D) = Len(B) /\ DOMAIN D = 1 .. Len(B)
      /\ DOMAIN B = 1 .. Len(B) /\ Len(B) \in Nat
      /\ \A j \in 1 .. Len(B) :
           /\ SameButNote(D[j], B[j])
           /\ IsSubmitResult(B[j]) =>
                D[j].note = IF B[j].id \in Superseded(c) THEN "superseded" ELSE B[j].note
  BY <1>1, CollapsedTypes, CollapsedFields
<1>3. \A q \in R : B[q].id \in Superseded(c) <=> \E k \in R : k > q
  BY SupersededResults
<1>4. \A i, j \in 1 .. Len(B) : i < j => Precedes(B[i], B[j])
  BY <1>2 DEF InSequence
<1>5. \A q : q \in R <=> q \in 1 .. Len(B) /\ IsSubmitResult(B[q])
  BY <1>2 DEF SubmitResults
<1> HIDE DEF B, D, R
<1>6. InSequence(D)
  <2> SUFFICES ASSUME NEW i \in 1 .. Len(B), NEW j \in 1 .. Len(B), i < j
               PROVE  Precedes(D[i], D[j])
    BY <1>2 DEF InSequence
  <2>1. ASSUME IsSubmitResult(B[i]), IsSubmitResult(B[j]), D[i].note = "whole"
        PROVE  FALSE
    <3>1. i \in R /\ j \in R /\ j > i  BY <1>5, <2>1
    <3>2. B[i].id \in Superseded(c)  BY <1>3, <3>1
    <3> QED BY <1>2, <2>1, <3>2
  <2>2. Precedes(B[i], B[j]) /\ SameButNote(D[i], B[i]) /\ SameButNote(D[j], B[j])
    BY <1>2, <1>4
  <2> QED BY <2>1, <2>2, PrecedesStill
<1>7. ASSUME NEW q \in R, B[q].note = "whole", D[q].note = "superseded"
      PROVE  \E k \in SubmitResults(D) : k > q /\ D[k].note = "whole"
  <2>1. q \in 1 .. Len(B) /\ IsSubmitResult(B[q])  BY <1>5
  <2>2. B[q].id \in Superseded(c)  BY <1>2, <1>7, <2>1
  <2>3. PICK l \in R : l > q  BY <1>3, <2>2
  <2>4. R \in SUBSET (1 .. Len(B)) /\ R # {}  BY <1>5, <2>3
  <2>5. PICK k \in R : \A y \in R : y <= k  BY <1>2, <2>4, LastOf
  <2>6. k \in 1 .. Len(B) /\ IsSubmitResult(B[k]) /\ k > q
    <3>1. k \in 1 .. Len(B) /\ l \in 1 .. Len(B) /\ l <= k  BY <1>5, <2>3, <2>5
    <3> QED BY <1>5, <2>1, <2>3, <3>1
  <2>7. ~ \E y \in R : y > k
    <3> SUFFICES ASSUME NEW y \in R, y > k PROVE FALSE  OBVIOUS
    <3>1. y \in 1 .. Len(B) /\ y <= k  BY <1>5, <2>5
    <3> QED BY <2>6, <3>1
  <2>8. B[k].id \notin Superseded(c)  BY <1>3, <2>7
  <2>9. B[k].note = "whole"
    <3>1. Precedes(B[q], B[k])  BY <1>4, <2>1, <2>6
    <3> QED BY <1>7, <2>1, <2>6, <3>1 DEF Precedes
  <2>10. D[k].note = "whole"  BY <1>2, <2>6, <2>8, <2>9
  <2>11. k \in SubmitResults(D)
    BY <1>2, <2>6 DEF SubmitResults, IsSubmitResult, SameButNote
  <2> QED BY <2>6, <2>10, <2>11
<1> QED BY <1>6, <1>7 DEF B, D, R

LEMMA CollapsedLatest ==
  ASSUME NEW c \in Seq(MessageType), InSequence(Blocks(c)),
         \A i \in DOMAIN c : Answers(c[i].blocks), ~ Ambiguous(c), NoStray(c),
         c # <<>>, LatestIsWhole(Last(c).blocks)
  PROVE  LatestIsWhole(Collapsed(Last(c).blocks, Superseded(c)))
<1> DEFINE B == Blocks(c)
           F == Blocks(SubSeq(c, 1, Len(c) - 1))
           L == Last(c).blocks
           S == Superseded(c)
           M == Collapsed(L, S)
           R == SubmitResults(B)
           n == Len(F)
<1>1. B \in Seq(BlockType) /\ F \in Seq(BlockType) /\ L \in Seq(BlockType) /\ B = F \o L
  BY FlatBlocks, LastBlocks
<1>2. \A q \in R : B[q].id \in S <=> \E k \in R : k > q
  BY SupersededResults
<1>3. LatestIsWhole(L)  OBVIOUS
<1>4. /\ M \in Seq(BlockType) /\ Len(M) = Len(L) /\ Len(L) \in Nat
      /\ DOMAIN M = 1 .. Len(L) /\ DOMAIN L = 1 .. Len(L)
      /\ \A j \in 1 .. Len(L) :
           /\ SameButNote(M[j], L[j])
           /\ IsSubmitResult(L[j]) => M[j].note = IF L[j].id \in S THEN "superseded" ELSE L[j].note
  <2>1. L \in Seq(BlockType)  BY <1>1
  <2> HIDE DEF L, S
  <2>2. M \in Seq(BlockType) /\ Len(M) = Len(L)  BY <2>1, CollapsedTypes
  <2>3. ASSUME NEW j \in 1 .. Len(L)
        PROVE  /\ SameButNote(M[j], L[j])
               /\ IsSubmitResult(L[j]) =>
                    M[j].note = IF L[j].id \in S THEN "superseded" ELSE L[j].note
    BY <2>1, CollapsedFields
  <2> HIDE DEF M
  <2> QED BY <2>1, <2>2, <2>3
<1> HIDE DEF B, F, L, S, M
<1>5. /\ n \in Nat /\ Len(B) = n + Len(L) /\ DOMAIN B = 1 .. n + Len(L)
      /\ \A j \in 1 .. Len(L) : B[n + j] = L[j]
  BY <1>1
<1>6. \A q : q \in R <=> q \in 1 .. n + Len(L) /\ IsSubmitResult(B[q])
  BY <1>5 DEF SubmitResults
<1> HIDE DEF n, R
<1>7. \A j \in 1 .. Len(L) : n + j \in R <=> IsSubmitResult(L[j])
  <2> SUFFICES ASSUME NEW j \in 1 .. Len(L) PROVE n + j \in R <=> IsSubmitResult(L[j])
    OBVIOUS
  <2>1. n + j \in 1 .. n + Len(L) /\ B[n + j] = L[j]  BY <1>4, <1>5
  <2> QED BY <1>6, <2>1
<1>8. ASSUME NEW i \in 1 .. Len(L), IsSubmitResult(M[i]), M[i].note # "whole"
      PROVE  \E j \in 1 .. Len(L) : j > i /\ IsSubmitResult(M[j]) /\ M[j].note = "whole"
  <2>1. IsSubmitResult(L[i])  BY <1>4, <1>8 DEF SameButNote, IsSubmitResult
  <2>2. n + i \in R  BY <1>7, <2>1
  <2>3. R \in SUBSET (1 .. n + Len(L)) /\ R # {} /\ n + Len(L) \in Nat  BY <1>4, <1>5, <1>6, <2>2
  <2>4. PICK k \in R : \A y \in R : y <= k  BY <2>3, LastOf
  <2>5. k \in 1 .. n + Len(L) /\ n + i <= k  BY <2>2, <2>3, <2>4
  <2> DEFINE j == k - n
  <2>6. j \in 1 .. Len(L) /\ k = n + j /\ i <= j  BY <1>4, <1>5, <2>5
  <2> HIDE DEF j
  <2>7. IsSubmitResult(L[j])  BY <1>7, <2>4, <2>6
  <2>8. L[j].note = "whole"
    <3> SUFFICES ASSUME L[j].note # "whole" PROVE FALSE  OBVIOUS
    <3>1. PICK l \in 1 .. Len(L) : l > j /\ IsSubmitResult(L[l])
      BY <1>3, <1>4, <2>6, <2>7 DEF LatestIsWhole
    <3>2. n + l \in R  BY <1>7, <3>1
    <3>3. n + l <= n + j  BY <2>4, <2>6, <3>2
    <3> QED BY <1>5, <2>6, <3>1, <3>3
  <2>9. L[j].id \notin S
    <3>1. ~ \E y \in R : y > k
      <4> SUFFICES ASSUME NEW y \in R, y > k PROVE FALSE  OBVIOUS
      <4>1. y <= k /\ y \in Nat /\ k \in Nat  BY <2>3, <2>4, <1>5
      <4> QED BY <4>1
    <3>2. B[k].id \notin S  BY <1>2, <2>4, <3>1
    <3> QED BY <1>5, <2>6, <3>2
  <2>10. M[j].note = "whole" /\ IsSubmitResult(M[j])
    BY <1>4, <2>6, <2>7, <2>8, <2>9 DEF SameButNote, IsSubmitResult
  <2>11. j # i  BY <1>8, <2>10
  <2> QED BY <2>6, <2>10, <2>11
<1>9. LatestIsWhole(M)  BY <1>4, <1>8 DEF LatestIsWhole
<1> QED BY <1>9 DEF M, L, S

(* A compaction leaves the context consistent,                              *)
LEMMA CollapseConsistent ==
  ASSUME NEW c \in Seq(MessageType), Consistent(c), ~ Ambiguous(c), NoStray(c)
  PROVE  Consistent(Collapse(c, Superseded(c)))
<1> DEFINE S == Superseded(c)
           d == Collapse(c, S)
<1>1. /\ InSequence(Blocks(c)) /\ \A i \in DOMAIN c : Answers(c[i].blocks)
      /\ c # <<>> => LatestIsWhole(Last(c).blocks)
  BY DEF Consistent
<1>2. InSequence(Collapsed(Blocks(c), S))  BY <1>1, CollapsedInSequence
<1>3. c # <<>> => LatestIsWhole(Collapsed(Last(c).blocks, S))  BY <1>1, CollapsedLatest
<1> HIDE DEF S
<1>4. Blocks(d) = Collapsed(Blocks(c), S)  BY CollapsedBlocks
<1>5. /\ d \in Seq(MessageType) /\ Len(d) = Len(c)
      /\ \A i \in 1 .. Len(c) :
           d[i] = [role |-> c[i].role, blocks |-> Collapsed(c[i].blocks, S)]
  BY CollapseMessages
<1> HIDE DEF d
<1>6. \A i \in 1 .. Len(c) : Answers(d[i].blocks)
  <2> SUFFICES ASSUME NEW i \in 1 .. Len(c) PROVE Answers(d[i].blocks)  OBVIOUS
  <2>1. c[i].blocks \in Seq(BlockType) /\ Answers(c[i].blocks)
    <3>1. c[i] \in MessageType /\ i \in DOMAIN c  OBVIOUS
    <3> QED BY <1>1, <3>1 DEF MessageType
  <2>2. d[i].blocks = Collapsed(c[i].blocks, S)
    <3>1. d[i] = [role |-> c[i].role, blocks |-> Collapsed(c[i].blocks, S)]  BY <1>5
    <3> QED BY <3>1
  <2> QED BY <2>1, <2>2, AnswersStill
<1>7. d # <<>> => LatestIsWhole(Last(d).blocks)
  <2> SUFFICES ASSUME d # <<>> PROVE LatestIsWhole(Last(d).blocks)  OBVIOUS
  <2>1. Len(c) \in 1 .. Len(c) /\ c # <<>>  BY <1>5
  <2>2. Last(d).blocks = Collapsed(Last(c).blocks, S)
    <3>1. d[Len(c)] = [role |-> c[Len(c)].role, blocks |-> Collapsed(c[Len(c)].blocks, S)]
      BY <1>5, <2>1
    <3>2. d[Len(c)].blocks = Collapsed(c[Len(c)].blocks, S)  BY <3>1
    <3> QED BY <1>5, <2>1, <3>2 DEF Last
  <2> QED BY <1>3, <2>1, <2>2
<1>8. DOMAIN d = 1 .. Len(c)  BY <1>5
<1>9. Consistent(d)  BY <1>2, <1>4, <1>6, <1>7, <1>8 DEF Consistent
<1> QED BY <1>9 DEF d, S

(* and what a restore would make of it.                                    *)
LEMMA RestoredConsistent ==
  ASSUME NEW c \in Seq(MessageType), Consistent(c), ~ Ambiguous(c), NoStray(c),
         Consistent(Restored(c)),
         saved.last \in Seq(MessageType), saved.length \in 1 .. Len(c), Len(saved.last) = 1
  PROVE  Consistent(Restored(Collapse(c, Superseded(c))))
<1> DEFINE S == Superseded(c)
           d == Collapse(c, S)
           n == saved.length - 1
           P == SubSeq(c, 1, n)
           Q == SubSeq(d, 1, n)
           L == saved.last[1].blocks
<1>0. Consistent(d)  BY CollapseConsistent
<1> HIDE DEF S
<1>1. /\ d \in Seq(MessageType) /\ Len(d) = Len(c) /\ saved.length \in 1 .. Len(d)
      /\ n \in 0 .. Len(c)
      /\ \A i \in 1 .. Len(c) :
           d[i] = [role |-> c[i].role, blocks |-> Collapsed(c[i].blocks, S)]
  BY CollapseMessages
<1> HIDE DEF d
<1>2. /\ P \in Seq(MessageType) /\ Q \in Seq(MessageType) /\ L \in Seq(BlockType)
      /\ Blocks(Restored(c)) = Blocks(P) \o L
      /\ Blocks(Restored(d)) = Blocks(Q) \o L
      /\ Restored(c) # <<>> /\ Restored(d) # <<>>
      /\ Last(Restored(c)) = saved.last[1] /\ Last(Restored(d)) = saved.last[1]
  BY <1>1, RestoredBlocks
<1>3. Q = Collapse(P, S)
  <2> DEFINE T == Collapse(P, S)
  <2>1. /\ Len(P) = n /\ Len(Q) = n /\ n \in Nat
        /\ \A i \in 1 .. n : P[i] = c[i] /\ Q[i] = d[i] /\ i \in 1 .. Len(c)
    BY <1>1
  <2> HIDE DEF P, Q, n
  <2>2. /\ T \in Seq(MessageType) /\ Len(T) = n
        /\ \A i \in 1 .. n : T[i] = [role |-> P[i].role, blocks |-> Collapsed(P[i].blocks, S)]
    BY <1>2, <2>1, CollapseMessages
  <2> HIDE DEF T
  <2>3. \A i \in 1 .. n : Q[i] = T[i]
    <3> SUFFICES ASSUME NEW i \in 1 .. n PROVE Q[i] = T[i]  OBVIOUS
    <3>1. P[i] = c[i] /\ Q[i] = d[i] /\ i \in 1 .. Len(c)  BY <2>1
    <3>2. d[i] = [role |-> c[i].role, blocks |-> Collapsed(c[i].blocks, S)]  BY <1>1, <3>1
    <3>3. T[i] = [role |-> P[i].role, blocks |-> Collapsed(P[i].blocks, S)]  BY <2>2
    <3> QED BY <3>1, <3>2, <3>3
  <2>4. Q = T  BY <1>2, <2>1, <2>2, <2>3
  <2> QED BY <2>4 DEF T
<1>4. Blocks(Q) = Collapsed(Blocks(P), S) /\ Blocks(P) \in Seq(BlockType)
      /\ Blocks(Q) \in Seq(BlockType)
  BY <1>2, <1>3, CollapsedBlocks, FlatBlocks
<1>5. InSequence(Blocks(Q))
  <2>1. PICK t \in Seq(BlockType) : Blocks(d) = Blocks(Q) \o t  BY <1>1, FirstBlocks
  <2>2. InSequence(Blocks(d))  BY <1>0 DEF Consistent
  <2>3. InSequence(Blocks(Q) \o t)  BY <2>1, <2>2
  <2> QED BY <1>4, <2>3, InSequenceConcat
<1>6. InSequence(L) /\ \A b \in ToSet(Blocks(P)), e \in ToSet(L) : Precedes(b, e)
  <2>1. InSequence(Blocks(P) \o L)  BY <1>2 DEF Consistent
  <2> QED BY <1>2, <1>4, <2>1, InSequenceConcat
<1> HIDE DEF P, Q, L
<1>7. ASSUME NEW e \in ToSet(Blocks(Q)), NEW f \in ToSet(L) PROVE Precedes(e, f)
  <2> DEFINE s == Blocks(P)
  <2>1. s \in Seq(BlockType) /\ Blocks(Q) = Collapsed(s, S)  BY <1>4
  <2> HIDE DEF s
  <2>2. PICK j \in 1 .. Len(s) : e = Collapsed(s, S)[j]  BY <2>1, CollapsedTypes DEF ToSet
  <2>3. SameButNote(e, s[j])  BY <2>1, <2>2, CollapsedFields
  <2>4. Precedes(s[j], f)
    <3>1. s[j] \in ToSet(s)  BY <2>1 DEF ToSet
    <3> QED BY <1>6, <3>1 DEF s
  <2>5. SameButNote(f, f)  BY DEF SameButNote
  <2>6. IsSubmitResult(s[j]) /\ IsSubmitResult(f) /\ e.note = "whole" => f.note = "whole"
    BY <2>3, <2>4 DEF SameButNote, Precedes
  <2> QED BY <2>3, <2>4, <2>5, <2>6, PrecedesStill
<1>8. InSequence(Blocks(Restored(d)))
  BY <1>2, <1>4, <1>5, <1>6, <1>7, InSequenceConcat
<1>9. \A i \in DOMAIN Restored(d) : Answers(Restored(d)[i].blocks)
  <2>1. /\ Restored(d) \in Seq(MessageType) /\ Len(Restored(d)) = saved.length
        /\ Restored(d)[saved.length] = saved.last[1]
        /\ \A i \in 1 .. saved.length - 1 : Restored(d)[i] = d[i]
        /\ Len(Restored(c)) = saved.length /\ Restored(c)[saved.length] = saved.last[1]
        /\ Restored(c) \in Seq(MessageType)
    BY <1>1, RestoredParts
  <2>2. Answers(saved.last[1].blocks)  BY <2>1 DEF Consistent
  <2>3. \A i \in 1 .. Len(d) : Answers(d[i].blocks)  BY <1>0, <1>1 DEF Consistent
  <2> SUFFICES ASSUME NEW i \in 1 .. saved.length PROVE Answers(Restored(d)[i].blocks)
    BY <2>1
  <2>4. CASE i = saved.length  BY <2>1, <2>2, <2>4
  <2>5. CASE i # saved.length
    <3>1. i \in 1 .. saved.length - 1 /\ i \in 1 .. Len(d)  BY <1>1, <2>5
    <3>2. Restored(d)[i] = d[i]  BY <2>1, <3>1
    <3> QED BY <2>3, <3>1, <3>2
  <2> QED BY <2>4, <2>5
<1>10. LatestIsWhole(Last(Restored(d)).blocks)  BY <1>2 DEF Consistent
<1>11. Consistent(Restored(d))  BY <1>8, <1>9, <1>10 DEF Consistent
<1> QED BY <1>11 DEF d, S

-----------------------------------------------------------------------------
(* What is added to a consistent context.                                  *)

LEMMA NothingConsistent == Consistent(<<>>)
  BY NoBlocks DEF Consistent, InSequence

LEMMA AppendConsistent ==
  ASSUME NEW c \in Seq(MessageType), NEW m \in MessageType, Consistent(c),
         InSequence(m.blocks), Answers(m.blocks), LatestIsWhole(m.blocks),
         \A b \in BlocksIn(c), e \in ToSet(m.blocks) : Precedes(b, e)
  PROVE  Consistent(Append(c, m))
<1> DEFINE d == Append(c, m)
<1>1. /\ d \in Seq(MessageType) /\ Len(d) = Len(c) + 1 /\ d[Len(c) + 1] = m
      /\ \A i \in 1 .. Len(c) : d[i] = c[i]
  OBVIOUS
<1>2. Blocks(d) = Blocks(c) \o m.blocks /\ m.blocks \in Seq(BlockType)  BY BlocksAppended
<1>3. Blocks(c) \in Seq(BlockType) /\ ToSet(Blocks(c)) = BlocksIn(c)  BY FlatBlocks
<1> HIDE DEF d
<1>4. InSequence(Blocks(c)) /\ \A i \in 1 .. Len(c) : Answers(c[i].blocks)
  BY DEF Consistent
<1>5. InSequence(Blocks(d))  BY <1>2, <1>3, <1>4, InSequenceConcat
<1>6. \A i \in DOMAIN d : Answers(d[i].blocks)  BY <1>1, <1>4
<1>7. LatestIsWhole(Last(d).blocks)  BY <1>1 DEF Last
<1>8. Consistent(d)  BY <1>5, <1>6, <1>7 DEF Consistent
<1> QED BY <1>8 DEF d

(* A message of one block that is neither a call nor a result.             *)
LEMMA OneMoreConsistent ==
  ASSUME NEW c \in Seq(MessageType), Consistent(c), NEW role \in {"user", "assistant"},
         NEW b \in BlockType, b.kind \notin {"call", "result"},
         \A a \in BlocksIn(c) : a.round <= b.round
  PROVE  Consistent(Append(c, Message(role, <<b>>)))
<1> DEFINE m == Message(role, <<b>>)
<1>1. m \in MessageType /\ m.blocks = <<b>>  BY DEF Message, MessageType
<1>2. DOMAIN <<b>> = {1} /\ <<b>>[1] = b /\ ToSet(<<b>>) = {b}  BY DEF ToSet
<1> HIDE DEF m
<1>3. InSequence(m.blocks) /\ LatestIsWhole(m.blocks) /\ Answers(m.blocks)
  BY <1>1, <1>2 DEF InSequence, LatestIsWhole, Answers, IsSubmitResult
<1>4. \A a \in BlocksIn(c), e \in ToSet(m.blocks) : Precedes(a, e)
  BY <1>1, <1>2 DEF Precedes, IsSubmitResult
<1> QED BY <1>1, <1>3, <1>4, AppendConsistent DEF m

(* What the assistant adds.                                                *)
LEMMA SaidConsistent ==
  ASSUME NEW c \in Seq(MessageType), NEW blocks \in Seq(BlockType), Consistent(c),
         InSequence(blocks), \A b \in BlocksIn(c), e \in ToSet(blocks) : Precedes(b, e),
         Answers(Last(Said(c, blocks)).blocks), LatestIsWhole(Last(Said(c, blocks)).blocks)
  PROVE  Consistent(Said(c, blocks))
<1> DEFINE d == Said(c, blocks)
<1>1. d \in Seq(MessageType) /\ Len(d) >= 1  BY SaidParts
<1>2. Blocks(d) = Blocks(c) \o blocks  BY SaidBlocks
<1>3. Blocks(c) \in Seq(BlockType) /\ ToSet(Blocks(c)) = BlocksIn(c)  BY FlatBlocks
<1>4. \A i \in 1 .. Len(d) - 1 : i \in 1 .. Len(c) /\ d[i] = c[i]
  <2>1. CASE c # <<>> /\ Last(c).role = "assistant"
    <3>1. d = Front(c) \o <<Message("assistant", Last(c).blocks \o blocks)>>
      BY <2>1 DEF Said
    <3> DEFINE m == Message("assistant", Last(c).blocks \o blocks)
               f == SubSeq(c, 1, Len(c) - 1)
    <3>2. d = f \o <<m>>  BY <3>1 DEF Front
    <3>3. /\ f \in Seq(MessageType) /\ Len(f) = Len(c) - 1 /\ Len(c) \in Nat
          /\ \A i \in 1 .. Len(c) - 1 : f[i] = c[i]
      <4> DEFINE n == Len(c) - 1
      <4>1. n \in Nat /\ n <= Len(c) /\ Len(c) \in Nat  BY <2>1
      <4> HIDE DEF n
      <4>2. /\ SubSeq(c, 1, n) \in Seq(MessageType) /\ Len(SubSeq(c, 1, n)) = n
            /\ \A i \in 1 .. n : SubSeq(c, 1, n)[i] = c[i]
        BY <4>1
      <4> QED BY <4>1, <4>2 DEF n
    <3> HIDE DEF m, f, d
    <3>4. Len(d) = Len(c) /\ \A i \in 1 .. Len(c) - 1 : d[i] = f[i]
      BY <3>2, <3>3
    <3> QED BY <3>3, <3>4
  <2>2. CASE ~ (c # <<>> /\ Last(c).role = "assistant")
    <3> DEFINE m == Message("assistant", blocks)
    <3>1. d = Append(c, m)  BY <2>2 DEF Said
    <3> HIDE DEF m, d
    <3> QED BY <3>1
  <2> QED BY <2>1, <2>2
<1> HIDE DEF d
<1>5. InSequence(Blocks(c)) /\ \A i \in 1 .. Len(c) : Answers(c[i].blocks)
  BY DEF Consistent
<1>6. InSequence(Blocks(d))  BY <1>2, <1>3, <1>5, InSequenceConcat
<1>7. Answers(Last(d).blocks) /\ LatestIsWhole(Last(d).blocks)  BY DEF d
<1>8. \A i \in DOMAIN d : Answers(d[i].blocks)
  <2> SUFFICES ASSUME NEW i \in DOMAIN d PROVE Answers(d[i].blocks)  OBVIOUS
  <2>1. i = Len(d) \/ i \in 1 .. Len(d) - 1  BY <1>1
  <2> QED BY <1>4, <1>5, <1>7, <2>1 DEF Last
<1>9. Consistent(d)  BY <1>6, <1>7, <1>8 DEF Consistent
<1> QED BY <1>9 DEF d

(* What a summary leaves.                                                  *)
LEMMA LastConsistent ==
  ASSUME NEW c \in Seq(MessageType), Consistent(c), c # <<>>
  PROVE  Consistent(<<Last(c)>>)
<1> DEFINE l == Last(c)
           F == Blocks(SubSeq(c, 1, Len(c) - 1))
<1>1. l \in MessageType /\ l.blocks \in Seq(BlockType)  BY LastBlocks
<1>2. F \in Seq(BlockType) /\ InSequence(F \o l.blocks)
  BY LastBlocks, FlatBlocks DEF Consistent
<1>3. InSequence(l.blocks)  BY <1>1, <1>2, InSequenceConcat
<1>4. Answers(l.blocks) /\ LatestIsWhole(l.blocks)  BY DEF Consistent, Last
<1> HIDE DEF l
<1>5. BlocksIn(<<>>) = {}  BY DEF BlocksIn
<1>6. <<>> \in Seq(MessageType) /\ Append(<<>>, l) = <<l>>  OBVIOUS
<1>7. Consistent(<<l>>)
  BY <1>1, <1>3, <1>4, <1>5, <1>6, NothingConsistent, AppendConsistent
<1> QED BY <1>7 DEF l

-----------------------------------------------------------------------------
(* What the provider answers.                                              *)

USE ConversationAssumption

FactsType ==
  [round : 0 .. MaxRounds, finish : Finishes, reasoning : BOOLEAN, text : BOOLEAN,
   tools : BOOLEAN, completed : BOOLEAN]
ReplyType == [finish : Finishes, reasoning : BOOLEAN, text : BOOLEAN, calls : Seq(CallType)]

(* A reply's calls are few.                                                *)
LEMMA CallListParts ==
  ASSUME NEW l \in CallLists
  PROVE  l \in Seq(CallType) /\ Len(l) <= MaxCalls
<1>1. AnyCalls \subseteq CallType
  <2>1. \A t \in {"submit", "test", "other"}, v \in BOOLEAN : Call(t, v) \in CallType
    BY DEF Call, CallType
  <2>2. PhaseTools \subseteq {"submit", "test"}  BY DEF PhaseTools
  <2>3. \A c \in ValidCalls : c \in CallType  BY <2>1, <2>2 DEF ValidCalls
  <2>4. Call("submit", FALSE) \in CallType /\ Call("other", FALSE) \in CallType  BY <2>1
  <2> QED BY <2>3, <2>4 DEF AnyCalls
<1>2. PICK n \in 0 .. MaxCalls : l \in [1 .. n -> AnyCalls]  BY DEF CallLists
<1>3. l \in [1 .. n -> CallType] /\ n \in Nat  BY <1>1, <1>2
<1>4. l \in Seq(CallType) /\ Len(l) = n  BY <1>3
<1> QED BY <1>4

LEMMA ReplyParts ==
  ASSUME model \in Models, NEW r \in Replies
  PROVE  /\ r \in ReplyType
         /\ r.reasoning => model.phase = "schema"
         /\ r.calls \in Seq(CallType)
         /\ CallsOf(r) \in Seq(CallType) /\ Len(CallsOf(r)) <= Len(r.calls)
         /\ Len(r.calls) <= MaxCalls
<1>1. /\ r \in [finish : {"stop", "length", "tool_calls"}, reasoning : BOOLEAN,
                text : BOOLEAN, calls : CallLists]
      /\ r.reasoning => model.phase = "schema"
  BY DEF Replies
<1> DEFINE l == r.calls
<1>2. l \in Seq(CallType) /\ Len(l) <= MaxCalls  BY <1>1, CallListParts
<1> HIDE DEF l
<1>3. r \in ReplyType  BY <1>1, <1>2 DEF ReplyType, Finishes, l
<1>4. CASE CallsOf(r) = <<>>  BY <1>1, <1>2, <1>3, <1>4 DEF l
<1>5. CASE CallsOf(r) = l  BY <1>1, <1>2, <1>3, <1>5 DEF l
<1> QED BY <1>4, <1>5 DEF CallsOf, l

(* Where a call stands in its reply, and its id.                           *)
LEMMA CallIds ==
  ASSUME rounds \in 0 .. MaxRounds, NEW p \in Nat
  PROVE  /\ CallId(p) \in Nat /\ CallId(p + 1) = CallId(p) + 1
         /\ p >= 1 => CallId(p) >= 1
         /\ \A q \in Nat : p < q => CallId(p) < CallId(q)
         /\ p \in 1 .. MaxCalls /\ ~ model.reusesIds => CallId(p) \in IdsOfRound(rounds)
<1> DEFINE base == MaxCalls * rounds
<1>1. base \in Nat /\ MaxCalls \in Nat  BY ConversationAssumption
<1>2. \A q \in Nat : CallId(q) = IF model.reusesIds THEN q ELSE base + q
  BY Zenon DEF CallId
<1>3. IdsOfRound(rounds) = base + 1 .. base + MaxCalls  BY Zenon DEF IdsOfRound
<1> HIDE DEF base
<1>4. CASE model.reusesIds  BY <1>1, <1>2, <1>4
<1>5. CASE ~ model.reusesIds
  <2>1. \A q \in Nat : CallId(q) = base + q  BY <1>2, <1>5
  <2>2. CallId(p) = base + p /\ CallId(p + 1) = base + (p + 1)  BY <2>1
  <2>3. CallId(p) \in Nat /\ CallId(p + 1) = CallId(p) + 1 /\ (p >= 1 => CallId(p) >= 1)
    BY <1>1, <2>2
  <2>4. \A q \in Nat : p < q => CallId(p) < CallId(q)  BY <1>1, <2>1
  <2>5. p \in 1 .. MaxCalls => CallId(p) \in IdsOfRound(rounds)  BY <1>1, <1>3, <2>2
  <2> QED BY <2>3, <2>4, <2>5
<1> QED BY <1>4, <1>5

LEMMA Positions ==
  ASSUME TypeOK, PlaceInv
  PROVE  /\ Len(pending) \in 0 .. Len(reply.calls) /\ Len(reply.calls) \in 0 .. MaxCalls
         /\ Position \in 1 .. MaxCalls + 1 /\ CallId(Position) \in Nat \ {0}
         /\ pending # <<>> => Position \in 1 .. Len(reply.calls)
<1>1. Len(pending) \in 0 .. Len(reply.calls) /\ Len(reply.calls) \in 0 .. MaxCalls
  BY DEF TypeOK, PlaceInv
<1>2. pending # <<>> => Len(pending) # 0  BY DEF TypeOK
<1>3. /\ Position \in 1 .. MaxCalls + 1
      /\ pending # <<>> => Position \in 1 .. Len(reply.calls)
  BY <1>1, <1>2 DEF Position
<1>4. CallId(Position) \in Nat /\ CallId(Position) >= 1  BY <1>3, CallIds DEF TypeOK
<1> QED BY <1>1, <1>3, <1>4

(* Two rounds have no id in common.                                        *)
LEMMA IdsApart ==
  ASSUME NEW m \in Nat, NEW n \in Nat, NEW id, id \in IdsOfRound(m), id \in IdsOfRound(n)
  PROVE  m = n
<1>1. ASSUME NEW i \in Nat, NEW j \in Nat, i < j, id \in IdsOfRound(i), id \in IdsOfRound(j)
      PROVE  FALSE
  <2> DEFINE k == j - i - 1
  <2>1. k \in Nat /\ j = i + 1 + k  BY <1>1
  <2> HIDE DEF k
  <2>2. MaxCalls * j = MaxCalls * i + MaxCalls + MaxCalls * k  BY <2>1
  <2>3. MaxCalls * k \in Nat /\ MaxCalls * i \in Nat  BY <2>1
  <2>4. id <= MaxCalls * i + MaxCalls /\ id >= MaxCalls * j + 1 /\ id \in Int
    BY <1>1 DEF IdsOfRound
  <2> QED BY <2>2, <2>3, <2>4
<1> QED BY <1>1

(* The blocks of a reply belong to the round.                              *)
LEMMA ReplyBlocks ==
  ASSUME model \in Models, rounds \in 0 .. MaxRounds, NEW r \in Replies
  PROVE  /\ BlocksOf(r) \in Seq(BlockType)
         /\ \A b \in ToSet(BlocksOf(r)) :
              /\ b.round = rounds /\ b.note # "retained" /\ b.kind # "result"
              /\ b.kind = "call" /\ ~ model.reusesIds => b.id \in IdsOfRound(rounds)
<1> DEFINE Own(b) == /\ b.round = rounds /\ b.note # "retained" /\ b.kind # "result"
                     /\ b.kind = "call" /\ ~ model.reusesIds => b.id \in IdsOfRound(rounds)
           BT == {b \in BlockType : Own(b)}
           said == IF r.reasoning THEN <<Block("thinking", "none", 0, "reply")>> ELSE <<>>
           text == IF r.text THEN <<Block("text", "none", 0, "none")>> ELSE <<>>
           calls == [i \in DOMAIN CallsOf(r) |->
                       Block("call", CallsOf(r)[i].tool, CallId(i), "none")]
<1>1. Block("thinking", "none", 0, "reply") \in BT /\ Block("text", "none", 0, "none") \in BT
  BY DEF Block, BlockType
<1>2. said \in Seq(BT) /\ text \in Seq(BT)
  <2> HIDE DEF BT
  <2>1. \A b \in BT : <<b>> \in Seq(BT)  OBVIOUS
  <2>2. <<>> \in Seq(BT)  OBVIOUS
  <2>3. <<Block("thinking", "none", 0, "reply")>> \in Seq(BT)  BY <1>1, <2>1
  <2>4. <<Block("text", "none", 0, "none")>> \in Seq(BT)  BY <1>1, <2>1
  <2> QED BY <2>2, <2>3, <2>4
<1>3. calls \in Seq(BT)
  <2>1. CallsOf(r) \in Seq(CallType) /\ Len(CallsOf(r)) \in 0 .. MaxCalls
    <3>1. CallsOf(r) \in Seq(CallType) /\ r.calls \in Seq(CallType)  BY ReplyParts
    <3>2. Len(CallsOf(r)) <= Len(r.calls) /\ Len(r.calls) <= MaxCalls  BY ReplyParts
    <3> QED BY <3>1, <3>2
  <2>2. ASSUME NEW i \in 1 .. Len(CallsOf(r))
        PROVE  Block("call", CallsOf(r)[i].tool, CallId(i), "none") \in BT
    <3>1. CallsOf(r)[i] \in CallType  BY <2>1
    <3>2. i \in Nat /\ i \in 1 .. MaxCalls  BY <2>1
    <3>3. CallId(i) \in Nat /\ (~ model.reusesIds => CallId(i) \in IdsOfRound(rounds))
      BY <3>2, CallIds
    <3> QED BY <3>1, <3>3 DEF Block, BlockType, CallType
  <2>3. calls \in [1 .. Len(CallsOf(r)) -> BT]  BY <2>1, <2>2
  <2> QED BY <2>1, <2>3
<1>4. BlocksOf(r) = said \o text \o calls  BY DEF BlocksOf
<1> HIDE DEF said, text, calls, BT
<1>5. BlocksOf(r) \in Seq(BT)  BY <1>2, <1>3, <1>4
<1>6. \A i \in DOMAIN BlocksOf(r) : BlocksOf(r)[i] \in BT  BY <1>5
<1>7. BlocksOf(r) \in Seq(BlockType)  BY <1>5, <1>6 DEF BT
<1>8. \A b \in BT : Own(b)  BY DEF BT
<1> HIDE DEF Own
<1>9. \A b \in ToSet(BlocksOf(r)) : Own(b)  BY <1>6, <1>8 DEF ToSet
<1> QED BY <1>7, <1>9 DEF Own

(* What is delivered is added to the context.                              *)
LEMMA DeliveredParts ==
  ASSUME TypeOK, NEW r \in Replies
  PROVE  /\ Said(ctx, BlocksOf(r)) \in Seq(MessageType)
         /\ Len(Said(ctx, BlocksOf(r))) >= Len(ctx)
         /\ BlocksIn(Said(ctx, BlocksOf(r))) = BlocksIn(ctx) \cup ToSet(BlocksOf(r))
  BY ReplyBlocks, SaidParts DEF TypeOK

(* So is the result of a call.                                             *)
LEMMA ResultParts ==
  ASSUME TypeOK, PlaceInv, pending # <<>>
  PROVE  /\ WithResult \in Seq(MessageType)
         /\ Len(WithResult) >= Len(ctx) /\ Len(WithResult) >= 1
         /\ BlocksIn(WithResult) = BlocksIn(ctx) \cup {ResultOf(Head(pending))}
         /\ ResultOf(Head(pending)) \in BlockType
         /\ ResultOf(Head(pending)).round = rounds
         /\ ResultOf(Head(pending)).note = "whole"
         /\ ResultOf(Head(pending)).kind = "result"
         /\ ResultOf(Head(pending)).id = CallId(Position)
<1> DEFINE b == ResultOf(Head(pending))
<1>1. Head(pending) \in CallType  BY DEF TypeOK
<1>3. CallId(Position) \in Nat  BY Positions
<1>4. b \in BlockType /\ b.round = rounds /\ b.note = "whole" /\ b.kind = "result"
      /\ b.id = CallId(Position)
  BY <1>1, <1>3 DEF ResultOf, Block, BlockType, CallType, TypeOK
<1> HIDE DEF b
<1>5. <<b>> \in Seq(BlockType) /\ ToSet(<<b>>) = {b}  BY <1>4 DEF ToSet
<1>6. WithResult = Said(ctx, <<b>>)  BY DEF WithResult, b
<1>7. ctx \in Seq(MessageType)  BY DEF TypeOK
<1>8. /\ WithResult \in Seq(MessageType)
      /\ Len(WithResult) >= Len(ctx) /\ Len(WithResult) >= 1
      /\ BlocksIn(WithResult) = BlocksIn(ctx) \cup {b}
  BY <1>5, <1>6, <1>7, SaidParts
<1> QED BY <1>4, <1>8 DEF b

-----------------------------------------------------------------------------
(* The types.                                                              *)

LEMMA InitTypes == Init => TypeOK
<1> SUFFICES ASSUME Init PROVE TypeOK  OBVIOUS
<1>1. /\ {ctx, told} \subseteq Seq(MessageType)
      /\ saved \in [length : Nat, last : Seq(MessageType)]
  BY DEF Init, NoCheckpoint
<1>2. reply \in ReplyType /\ pending \in Seq(CallType)
  BY DEF Init, NoReply, Reply, ReplyType, Finishes
<1>3. facts \in FactsType  BY DEF Init, NoFacts, Facts, Finishes, FactsType
<1>4. /\ outcomes \in Seq(Outcomes) /\ retries \in 0 .. Len(outcomes)
      /\ roundAttempts \in [1 .. MaxRounds -> Nat]
      /\ rejected \in [0 .. MaxRounds -> Nat]
      /\ kept \subseteq 1 .. MaxRounds /\ late \subseteq 1 .. MaxRounds
  BY DEF Init
<1>5. formatter \in {"plain", "reasoning"}  BY DEF Init, OwnFormatter
<1>6. {skips, lastPure, forced} \subseteq BOOLEAN /\ summary \in BOOLEAN  BY DEF Init
<1>7. /\ rounds \in 0 .. MaxRounds /\ failures \in 0 .. MaxProtocolFailures
      /\ noToolSeq \in 0 .. MaxNoToolRetries + 1 /\ submissions \in 0 .. MaxSubmissions
  BY DEF Init
<1>8. /\ model \in Models /\ pc \in Places /\ nextMessage \in {"none", "input", "retry"}
      /\ reason \in Reasons
  BY DEF Init, Places, Reasons
<1> QED BY <1>1, <1>2, <1>3, <1>4, <1>5, <1>6, <1>7, <1>8 DEF TypeOK, ReplyType, FactsType

(* An attempt's outcome is set once, and nothing else about it changes.     *)
LEMMA FinishParts ==
  ASSUME outcomes \in Seq(Outcomes), outcomes # <<>>, NEW outcome \in Outcomes
  PROVE  /\ Finish(outcome) \in Seq(Outcomes)
         /\ Len(Finish(outcome)) = Len(outcomes)
         /\ \A i \in 1 .. Len(outcomes) :
              Finish(outcome)[i] = IF i = Len(outcomes) /\ outcomes[i] = "open"
                                   THEN outcome ELSE outcomes[i]
<1>1. CASE outcomes[Len(outcomes)] = "open"
  <2>1. Len(outcomes) \in DOMAIN outcomes /\ Len(outcomes) \in Nat \ {0}  BY <1>1
  <2>2. Finish(outcome) = [outcomes EXCEPT ![Len(outcomes)] = outcome]
    BY <1>1 DEF Finish, Attempt
  <2> QED BY <1>1, <2>1, <2>2
<1>2. CASE outcomes[Len(outcomes)] # "open"
  BY <1>2 DEF Finish, Attempt
<1> QED BY <1>1, <1>2

LEMMA FactsTypes ==
  ASSUME TypeOK
  PROVE  /\ FreshFacts \in FactsType
         /\ \A r \in ReplyType : Observed(r) \in FactsType
<1>1. FreshFacts \in FactsType  BY DEF TypeOK, FreshFacts, Facts, FactsType, Finishes
<1>2. ASSUME NEW r \in ReplyType PROVE Observed(r) \in FactsType
  BY DEF TypeOK, ReplyType, Observed, Facts, FactsType
<1> QED BY <1>1, <1>2

(* The types, by the parts the actions leave alone together.               *)
SessionTypes ==
  /\ rounds \in 0 .. MaxRounds
  /\ failures \in 0 .. MaxProtocolFailures
  /\ noToolSeq \in 0 .. MaxNoToolRetries + 1
  /\ submissions \in 0 .. MaxSubmissions
  /\ skips \in BOOLEAN
ContextTypes ==
  /\ {ctx, told} \subseteq Seq(MessageType)
  /\ saved \in [length : Nat, last : Seq(MessageType)]
  /\ nextMessage \in {"none", "input", "retry"}
  /\ summary \in BOOLEAN
RequestTypes ==
  /\ {lastPure, forced} \subseteq BOOLEAN
  /\ facts \in FactsType
  /\ formatter \in {"plain", "reasoning"}
  /\ outcomes \in Seq(Outcomes)
  /\ roundAttempts \in [1 .. MaxRounds -> Nat]
  /\ retries \in 0 .. Len(outcomes)
ReplyTypes == reply \in ReplyType /\ pending \in Seq(CallType)
HistoryTypes ==
  /\ kept \subseteq 1 .. MaxRounds
  /\ rejected \in [0 .. MaxRounds -> Nat]
  /\ late \subseteq 1 .. MaxRounds
PlaceTypes == pc \in Places /\ reason \in Reasons /\ model \in Models

LEMMA TypeParts ==
  TypeOK <=> /\ SessionTypes /\ ContextTypes /\ RequestTypes
             /\ ReplyTypes /\ HistoryTypes /\ PlaceTypes
  BY DEF TypeOK, SessionTypes, ContextTypes, RequestTypes, ReplyTypes, HistoryTypes,
         PlaceTypes, ReplyType, FactsType

LEMMA PlaceTypesStep ==
  ASSUME TypeOK, Next
  PROVE  PlaceTypes'
<1> USE DEF PlaceTypes, Places, Reasons
<1>1. PlaceTypes  BY TypeParts
<1>2. CASE ReplyOpens \/ HookPasses \/ ContextCompressed \/ GuardStops \/ ModelCallStart
             \/ ReplyExceedsRounds \/ ModelCalled \/ AttemptStarts \/ RequestRefused
  BY <1>1, <1>2 DEF ReplyOpens, HookPasses, ContextCompressed, GuardStops, ModelCallStart,
     ReplyExceedsRounds, ModelCalled, AttemptStarts, RequestRefused, Goes, EndsAs
<1>3. CASE AttemptFails \/ CompletionReturns \/ StreamOpens \/ StreamEnds \/ StreamStops
             \/ StreamClosed
  BY <1>1, <1>3 DEF AttemptFails, CompletionReturns, StreamOpens, StreamEnds, StreamStops,
     StreamClosed, Goes, EndsAs
<1>4. CASE CallSucceeds \/ CallRejected \/ NoToolStops \/ NoToolRetried
  BY <1>1, <1>4 DEF CallSucceeds, CallRejected, NoToolStops, NoToolRetried, Goes, EndsAs,
     NextPlace
<1> QED BY <1>2, <1>3, <1>4 DEF Next

LEMMA SessionTypesStep ==
  ASSUME TypeOK, BudgetInv, Next
  PROVE  SessionTypes'
<1> USE DEF SessionTypes
<1>1. SessionTypes  BY TypeParts
<1>2. CASE UNCHANGED sessionPart  BY <1>1, <1>2 DEF sessionPart
<1>3. CASE ModelCallStart
  BY <1>1, <1>3 DEF ModelCallStart, CompactionSkips
<1>4. CASE CallSucceeds
  BY <1>1, <1>4 DEF CallSucceeds, CompactionSkips, BudgetInv
<1>5. CASE CallRejected
  BY <1>1, <1>5 DEF CallRejected, BudgetInv
<1>6. CASE NoToolStops \/ NoToolRetried
  BY <1>1, <1>6 DEF NoToolStops, NoToolRetried, BudgetInv
<1> QED BY <1>2, <1>3, <1>4, <1>5, <1>6 DEF Next, ReplyOpens, HookPasses, ContextCompressed,
     GuardStops, ReplyExceedsRounds, ModelCalled, AttemptStarts, RequestRefused, AttemptFails,
     CompletionReturns, StreamOpens, StreamEnds, StreamStops, StreamClosed

LEMMA RequestTypesStep ==
  ASSUME TypeOK, ContextInv, AttemptInv, Next
  PROVE  RequestTypes'
<1> USE DEF RequestTypes
<1>1. RequestTypes  BY TypeParts
<1>2. FreshFacts \in FactsType /\ \A r \in ReplyType : Observed(r) \in FactsType
  BY FactsTypes
<1>3. \A r \in Replies : r \in ReplyType  BY ReplyParts DEF TypeOK
<1>4. OwnFormatter \in {"plain", "reasoning"} /\ FormatterAfter \in {"plain", "reasoning"}
  BY DEF OwnFormatter, FormatterAfter
<1>5. outcomes # <<>> => \A o \in Outcomes : Finish(o) \in Seq(Outcomes)
                                            /\ Len(Finish(o)) = Len(outcomes)
  BY <1>1, FinishParts
<1>6. {"open", "exception", "cancelled", "success", "closed"} \subseteq Outcomes  BY DEF Outcomes
<1>7. \A f : PureLength(f) \in BOOLEAN /\ ShouldForce \in BOOLEAN
  BY DEF PureLength, ShouldForce
<1>8. CASE UNCHANGED requestPart  BY <1>1, <1>8 DEF requestPart
<1>9. CASE ModelCalled  BY <1>1, <1>7, <1>9 DEF ModelCalled
<1>10. CASE AttemptStarts
  <2>1. rounds \in 1 .. MaxRounds  BY <1>10 DEF AttemptStarts, ContextInv, Within, TypeOK
  <2>2. roundAttempts' \in [1 .. MaxRounds -> Nat]
    <3>1. roundAttempts' = [roundAttempts EXCEPT ![rounds] = @ + 1]
      BY <1>10 DEF AttemptStarts
    <3>2. roundAttempts[rounds] + 1 \in Nat  BY <1>1, <2>1
    <3> QED BY <1>1, <2>1, <3>1, <3>2
  <2>3. outcomes' \in Seq(Outcomes) /\ Len(outcomes') = Len(outcomes) + 1
    BY <1>1, <1>6, <1>10 DEF AttemptStarts
  <2>4. retries' \in 0 .. Len(outcomes')  BY <1>1, <1>10, <2>3 DEF AttemptStarts
  <2> QED BY <1>1, <1>2, <1>10, <2>2, <2>3, <2>4 DEF AttemptStarts
<1>11. CASE RequestRefused  BY <1>1, <1>2, <1>4, <1>11 DEF RequestRefused
<1>12. CASE AttemptFails
  <2>1. outcomes # <<>>  BY <1>12 DEF AttemptFails, AttemptInv
  <2> QED BY <1>1, <1>4, <1>5, <1>6, <1>12, <2>1 DEF AttemptFails
<1>13. CASE CompletionReturns
  <2>1. outcomes # <<>>  BY <1>13 DEF CompletionReturns, AttemptInv
  <2> QED BY <1>1, <1>2, <1>3, <1>4, <1>5, <1>6, <1>7, <1>13, <2>1 DEF CompletionReturns
<1>14. CASE StreamOpens  BY <1>1, <1>4, <1>14 DEF StreamOpens
<1>15. CASE StreamEnds
  <2>1. outcomes # <<>>  BY <1>15 DEF StreamEnds, AttemptInv
  <2> QED BY <1>1, <1>2, <1>3, <1>5, <1>6, <1>7, <1>15, <2>1 DEF StreamEnds
<1>16. CASE StreamStops
  <2>1. outcomes # <<>>  BY <1>16 DEF StreamStops, AttemptInv
  <2>2. NoReply \in ReplyType /\ Reply("length", TRUE, FALSE, <<>>) \in ReplyType
    BY DEF NoReply, Reply, ReplyType, Finishes
  <2>3. \A f \in FactsType : [f EXCEPT !.completed = FALSE] \in FactsType
    BY DEF FactsType
  <2> QED BY <1>1, <1>2, <1>5, <1>6, <1>16, <2>1, <2>2, <2>3 DEF StreamStops
<1>17. CASE StreamClosed
  <2>1. outcomes # <<>>  BY <1>17 DEF StreamClosed, AttemptInv
  <2> QED BY <1>1, <1>5, <1>6, <1>17, <2>1 DEF StreamClosed, ClosedAs
<1> QED BY <1>8, <1>9, <1>10, <1>11, <1>12, <1>13, <1>14, <1>15, <1>16, <1>17 DEF Next,
     ReplyOpens, HookPasses, ContextCompressed, GuardStops, ModelCallStart,
     ReplyExceedsRounds, CallSucceeds, CallRejected, NoToolStops, NoToolRetried

LEMMA MessageTypes ==
  ASSUME TypeOK
  PROVE  /\ \A kind \in {"input", "retry", "repair"} : UserMessage(kind) \in MessageType
         /\ Retained \in MessageType
  BY DEF TypeOK, UserMessage, Retained, Message, Block, MessageType, BlockType

LEMMA ContextTypesStep ==
  ASSUME TypeOK, PlaceInv, ContextInv, Next
  PROVE  ContextTypes'
<1> USE DEF ContextTypes
<1>1. ContextTypes  BY TypeParts
<1>2. CASE UNCHANGED contextPart  BY <1>1, <1>2 DEF contextPart
<1>3. CASE ReplyOpens
  <2>1. nextMessage \in {"input", "retry"}  BY <1>1, <1>3 DEF ReplyOpens, PlaceInv
  <2>2. UserMessage(nextMessage) \in MessageType  BY <2>1, MessageTypes
  <2>3. ctx' \in Seq(MessageType)  BY <1>1, <1>3, <2>2, AppendParts DEF ReplyOpens
  <2> QED BY <1>1, <1>3, <2>3 DEF ReplyOpens
<1>4. CASE ContextCompressed
  <2>1. ctx[Len(ctx)] \in MessageType  BY <1>1, <1>4 DEF ContextCompressed
  <2>2. ctx' = <<ctx[Len(ctx)]>>  BY <1>4 DEF ContextCompressed, Last
  <2>3. ctx' \in Seq(MessageType)  BY <2>1, <2>2
  <2> QED BY <1>1, <1>4, <2>3 DEF ContextCompressed
<1>5. CASE ModelCallStart
  <2>1. ctx' \in Seq(MessageType)  BY <1>1, <1>5, CompactedParts DEF ModelCallStart
  <2>2. Checkpoint(ctx') \in [length : Nat, last : Seq(MessageType)]
    <3>1. CASE ctx' = <<>>  BY <3>1 DEF Checkpoint
    <3>2. CASE ctx' # <<>>
      <4>1. ctx'[Len(ctx')] \in MessageType /\ Len(ctx') \in Nat  BY <2>1, <3>2
      <4>2. <<ctx'[Len(ctx')]>> \in Seq(MessageType)  BY <4>1
      <4> QED BY <3>2, <4>1, <4>2 DEF Checkpoint, Last
    <3> QED BY <3>1, <3>2
  <2> QED BY <1>1, <1>5, <2>1, <2>2 DEF ModelCallStart
<1>6. CASE CompletionReturns \/ StreamEnds
  <2>1. PICK r \in Replies : ctx' = Said(ctx, BlocksOf(r))
    BY <1>6 DEF CompletionReturns, StreamEnds, Delivered
  <2>2. ctx' \in Seq(MessageType)  BY <2>1, DeliveredParts
  <2> QED BY <1>1, <1>6, <2>2 DEF CompletionReturns, StreamEnds
<1>7. CASE CallSucceeds
  <2>1. WithResult \in Seq(MessageType)  BY <1>7, ResultParts DEF CallSucceeds, PlaceInv
  <2>2. ctx' \in Seq(MessageType)  BY <1>7, <2>1, CompactedParts DEF CallSucceeds
  <2> QED BY <1>1, <1>7, <2>2 DEF CallSucceeds
<1>8. CASE CallRejected
  <2>1. WithResult \in Seq(MessageType) /\ Len(WithResult) >= Len(ctx)
    BY <1>8, ResultParts DEF CallRejected, PlaceInv
  <2>2. /\ saved.length \in 1 .. Len(WithResult) /\ Len(saved.last) = 1
        /\ saved.last \in Seq(MessageType)
    BY <1>1, <1>8, <2>1 DEF CallRejected, ContextInv, Within
  <2>3. Restored(WithResult) \in Seq(MessageType)  BY <2>1, <2>2, RestoredParts
  <2>4. ctx' \in Seq(MessageType)
    BY <1>8, <2>3, AppendParts, MessageTypes DEF CallRejected
  <2> QED BY <1>1, <1>8, <2>4 DEF CallRejected
<1>9. CASE NoToolStops \/ NoToolRetried
  <2>1. /\ saved.length \in 1 .. Len(ctx) /\ Len(saved.last) = 1
        /\ saved.last \in Seq(MessageType)
    BY <1>1, <1>9 DEF NoToolStops, NoToolRetried, ContextInv, Within
  <2>2. Restored(ctx) \in Seq(MessageType)  BY <1>1, <2>1, RestoredParts
  <2>3. ctx' \in Seq(MessageType)
    BY <1>9, <2>2, AppendParts, MessageTypes DEF NoToolStops, NoToolRetried
  <2> QED BY <1>1, <1>9, <2>3 DEF NoToolStops, NoToolRetried
<1> QED BY <1>2, <1>3, <1>4, <1>5, <1>6, <1>7, <1>8, <1>9 DEF Next, HookPasses, GuardStops,
     ReplyExceedsRounds, ModelCalled, AttemptStarts, RequestRefused, AttemptFails,
     StreamOpens, StreamStops, StreamClosed

LEMMA ReplyTypesStep ==
  ASSUME TypeOK, PlaceInv, Next
  PROVE  ReplyTypes'
<1> USE DEF ReplyTypes
<1>1. ReplyTypes  BY TypeParts
<1>2. CASE UNCHANGED <<reply, pending>>  BY <1>1, <1>2
<1>3. CASE CompletionReturns \/ StreamEnds
  <2>1. PICK r \in Replies : reply' = r /\ pending' = CallsOf(r)
    BY <1>3 DEF CompletionReturns, StreamEnds, Delivered
  <2> QED BY <2>1, ReplyParts DEF TypeOK
<1>4. CASE StreamOpens
  BY <1>1, <1>4 DEF StreamOpens, NoReply, Reply, ReplyType, Finishes
<1>5. CASE CallSucceeds \/ CallRejected
  <2>1. pending # <<>> /\ pending' = Tail(pending) /\ UNCHANGED reply
    BY <1>5 DEF CallSucceeds, CallRejected, PlaceInv
  <2> QED BY <1>1, <2>1
<1> QED BY <1>2, <1>3, <1>4, <1>5 DEF Next, ReplyOpens, HookPasses, ContextCompressed,
     GuardStops, ModelCallStart, ReplyExceedsRounds, ModelCalled, AttemptStarts,
     RequestRefused, AttemptFails, StreamStops, StreamClosed, NoToolStops, NoToolRetried

LEMMA HistoryTypesStep ==
  ASSUME TypeOK, PlaceInv, ContextInv, Next
  PROVE  HistoryTypes'
<1> USE DEF HistoryTypes
<1>1. HistoryTypes  BY TypeParts
<1>2. CASE UNCHANGED history  BY <1>1, <1>2 DEF history
<1>3. CASE CallSucceeds
  <2>1. rounds \in 1 .. MaxRounds  BY <1>3 DEF CallSucceeds, ContextInv, Within, TypeOK
  <2> QED BY <1>1, <1>3, <2>1 DEF CallSucceeds
<1>4. CASE CallRejected \/ NoToolStops
  <2>1. CallId(Position) \in Nat  BY Positions
  <2> QED BY <1>1, <1>4, <2>1 DEF CallRejected, NoToolStops, RejectedHere
<1>5. CASE NoToolRetried
  <2>1. rounds \in 1 .. MaxRounds  BY <1>5 DEF NoToolRetried, ContextInv, Within, TypeOK
  <2>2. CallId(Position) \in Nat  BY Positions
  <2> QED BY <1>1, <1>5, <2>1, <2>2 DEF NoToolRetried, RejectedHere
<1> QED BY <1>2, <1>3, <1>4, <1>5 DEF Next, ReplyOpens, HookPasses, ContextCompressed,
     GuardStops, ModelCallStart, ReplyExceedsRounds, ModelCalled, AttemptStarts,
     RequestRefused, AttemptFails, CompletionReturns, StreamOpens, StreamEnds, StreamStops,
     StreamClosed

LEMMA TypeStep ==
  ASSUME TypeOK, PlaceInv, BudgetInv, ContextInv, AttemptInv, Next
  PROVE  TypeOK'
<1>1. (TypeOK <=> /\ SessionTypes /\ ContextTypes /\ RequestTypes
                  /\ ReplyTypes /\ HistoryTypes /\ PlaceTypes)'
  BY DEF TypeOK, SessionTypes, ContextTypes, RequestTypes, ReplyTypes, HistoryTypes,
         PlaceTypes, ReplyType, FactsType
<1> QED BY <1>1, PlaceTypesStep, SessionTypesStep, RequestTypesStep, ContextTypesStep,
     ReplyTypesStep, HistoryTypesStep

-----------------------------------------------------------------------------
(* Places and budgets.                                                     *)

LEMMA PlaceStep ==
  ASSUME TypeOK, PlaceInv, Next
  PROVE  PlaceInv'
<1> USE DEF PlaceInv, Goes, EndsAs, contextPart
<1>1. CASE ReplyOpens \/ HookPasses \/ ContextCompressed \/ GuardStops \/ ModelCallStart
             \/ ReplyExceedsRounds \/ ModelCalled \/ AttemptStarts \/ RequestRefused
  BY <1>1 DEF ReplyOpens, HookPasses, ContextCompressed, GuardStops, ModelCallStart,
     ReplyExceedsRounds, ModelCalled, AttemptStarts, RequestRefused
<1>2. CASE AttemptFails \/ StreamStops \/ StreamClosed \/ NoToolStops \/ NoToolRetried
  BY <1>2 DEF AttemptFails, StreamStops, StreamClosed, NoToolStops, NoToolRetried
<1>3. CASE CompletionReturns \/ StreamEnds
  <2>1. PICK r \in Replies : reply' = r /\ pending' = CallsOf(r)
                              /\ (pc' = "tools" => CallsOf(r) # <<>>)
                              /\ (pc' = "idle" => CallsOf(r) = <<>>)
    BY <1>3 DEF CompletionReturns, StreamEnds, Delivered
  <2>2. Len(CallsOf(r)) <= Len(r.calls) /\ Len(r.calls) <= MaxCalls
    BY ReplyParts DEF TypeOK
  <2>3. reason' = "none" /\ pc' \in {"tools", "idle", "closing"}
    BY <1>3 DEF CompletionReturns, StreamEnds
  <2> QED BY <2>1, <2>2, <2>3
<1>4. CASE StreamOpens
  <2>1. pending' = <<>> /\ pc' = "stream" /\ reason' = "none"  BY <1>4 DEF StreamOpens
  <2>2. reply'.calls = <<>> /\ Len(<<>>) <= MaxCalls
    BY <1>4 DEF StreamOpens, NoReply, Reply
  <2> QED BY <2>1, <2>2
<1>5. CASE CallSucceeds \/ CallRejected
  <2>1. /\ pending # <<>> /\ pending' = Tail(pending) /\ reply' = reply
        /\ pending \in Seq(CallType) /\ reply.calls \in Seq(CallType)
    BY <1>5 DEF CallSucceeds, CallRejected, TypeOK
  <2>2. Len(pending') = Len(pending) - 1 /\ Len(pending) \in Nat \ {0}
    BY <2>1
  <2>4. Len(pending') <= Len(reply'.calls)  BY <2>1, <2>2
  <2>5. \/ pc' = "tools" /\ Len(pending) # 1 /\ reason' = "none"
        \/ pc' = "hook" /\ Len(pending) = 1 /\ reason' = "none"
        \/ pc' = "done"
    BY <1>5 DEF CallSucceeds, CallRejected, NextPlace
  <2>6. pc' = "tools" => pending' # <<>>  BY <2>2, <2>5
  <2>7. pc' = "hook" => pending' = <<>>  BY <2>1, <2>2, <2>5
  <2> QED BY <2>1, <2>4, <2>5, <2>6, <2>7
<1> QED BY <1>1, <1>2, <1>3, <1>4, <1>5 DEF Next

LEMMA BudgetStep ==
  ASSUME TypeOK, BudgetInv, Next
  PROVE  BudgetInv'
<1> USE DEF BudgetInv
<1>1. CASE UNCHANGED <<failures, noToolSeq, submissions>>
  BY <1>1 DEF Next, ReplyOpens, HookPasses, ContextCompressed, GuardStops, ModelCallStart,
     ReplyExceedsRounds, ModelCalled, AttemptStarts, RequestRefused, AttemptFails,
     CompletionReturns, StreamOpens, StreamEnds, StreamStops, StreamClosed, CallSucceeds,
     CallRejected, NoToolStops, NoToolRetried
<1>2. CASE CallSucceeds
  <2>1. /\ failures' = 0 /\ noToolSeq' = 0 /\ pc # "done"
        /\ submissions' \in {submissions, submissions + 1}
        /\ submissions' # submissions => model.phase = "ttp"
        /\ model.phase = "ttp" /\ submissions' >= MaxSubmissions => pc' = "done"
    BY <1>2 DEF CallSucceeds, EndsAs
  <2>2. submissions < MaxSubmissions  BY <2>1
  <2>3. /\ submissions \in Nat /\ MaxSubmissions \in Nat
        /\ MaxProtocolFailures \in Nat \ {0} /\ MaxNoToolRetries \in Nat
    BY ConversationAssumption DEF TypeOK
  <2>4. failures' < MaxProtocolFailures /\ noToolSeq' <= MaxNoToolRetries
    BY <2>1, <2>3
  <2>5. pc' # "done" => submissions' < MaxSubmissions
    BY <2>1, <2>2, <2>3
  <2> QED BY <2>4, <2>5
<1>3. CASE CallRejected
  BY <1>3 DEF CallRejected, EndsAs, Goes, TypeOK
<1>4. CASE NoToolStops \/ NoToolRetried
  BY <1>4 DEF NoToolStops, NoToolRetried, EndsAs, Goes, TypeOK, MayRetry, NoToolRetryAllowed
<1> QED BY <1>1, <1>2, <1>3, <1>4 DEF Next, ReplyOpens, HookPasses, ContextCompressed,
     GuardStops, ModelCallStart, ReplyExceedsRounds, ModelCalled, AttemptStarts,
     RequestRefused, AttemptFails, CompletionReturns, StreamOpens, StreamEnds, StreamStops,
     StreamClosed, sessionPart

-----------------------------------------------------------------------------
(* The context.                                                            *)

(* Clean and Reasoned, in terms of the blocks, the round and the history.   *)
CleanBlock(b, round, rejects, lates) ==
  /\ b.round <= round
  /\ b.kind \in {"input", "retry", "repair"} \/ b.note = "retained"
       \/ rejects[b.round] = 0 \/ (b.kind = "result" /\ b.id > rejects[b.round])
  /\ b.note = "retained" => b.kind = "thinking"
  /\ b.kind = "result" /\ rejects[b.round] # 0 => b.round \in lates
  /\ b.kind \in {"call", "result"} /\ ~ model.reusesIds => b.id \in IdsOfRound(b.round)
ReasonedBlocks(blocks, of) ==
  \A r \in of : \E b \in blocks : b.note = "retained" /\ b.round = r

LEMMA CleanNow ==
  /\ \A c : Clean(c) <=> \A b \in BlocksIn(c) : CleanBlock(b, rounds, rejected, late)
  /\ \A c : Reasoned(c) <=> ReasonedBlocks(BlocksIn(c), kept)
  BY DEF Clean, Allowed, CleanBlock, Reasoned, ReasonedBlocks

LEMMA CleanThen ==
  ASSUME model' = model
  PROVE
  /\ Clean(ctx)' <=> \A b \in BlocksIn(ctx') : CleanBlock(b, rounds', rejected', late')
  /\ Reasoned(ctx)' <=> ReasonedBlocks(BlocksIn(ctx'), kept')
  /\ saved' = saved =>
       /\ Restored(ctx)' = Restored(ctx')
       /\ Clean(Restored(ctx))' <=>
            \A b \in BlocksIn(Restored(ctx')) : CleanBlock(b, rounds', rejected', late')
       /\ Reasoned(Restored(ctx))' <=> ReasonedBlocks(BlocksIn(Restored(ctx')), kept')
<1>1. BlocksIn(ctx)' = BlocksIn(ctx')  BY DEF BlocksIn, ToSet
<1>2. Clean(ctx)' <=> \A b \in BlocksIn(ctx') : CleanBlock(b, rounds', rejected', late')
  BY <1>1 DEF Clean, Allowed, CleanBlock, IdsOfRound
<1>3. Reasoned(ctx)' <=> ReasonedBlocks(BlocksIn(ctx'), kept')
  BY <1>1 DEF Reasoned, ReasonedBlocks
<1>4. ASSUME saved' = saved
      PROVE  /\ Restored(ctx)' = Restored(ctx')
             /\ Clean(Restored(ctx))' <=>
                  \A b \in BlocksIn(Restored(ctx')) : CleanBlock(b, rounds', rejected', late')
             /\ Reasoned(Restored(ctx))' <=> ReasonedBlocks(BlocksIn(Restored(ctx')), kept')
  <2>1. Restored(ctx)' = Restored(ctx')  BY <1>4 DEF Restored
  <2>2. BlocksIn(Restored(ctx))' = BlocksIn(Restored(ctx'))  BY <2>1 DEF BlocksIn, ToSet
  <2>3. Clean(Restored(ctx))' <=>
          \A b \in BlocksIn(Restored(ctx')) : CleanBlock(b, rounds', rejected', late')
    BY <2>2 DEF Clean, Allowed, CleanBlock, IdsOfRound
  <2>4. Reasoned(Restored(ctx))' <=> ReasonedBlocks(BlocksIn(Restored(ctx')), kept')
    BY <2>2 DEF Reasoned, ReasonedBlocks
  <2> QED BY <2>1, <2>3, <2>4
<1> QED BY <1>2, <1>3, <1>4

(* A block stays clean in later rounds, unless its own round is rejected.   *)
LEMMA StillClean ==
  ASSUME NEW b, NEW m \in Nat, NEW n \in Nat, m <= n, b.round \in Nat,
         NEW v, NEW w, NEW K, NEW L, K \subseteq L,
         CleanBlock(b, m, v, K), w[b.round] = v[b.round]
  PROVE  CleanBlock(b, n, w, L)
  BY DEF CleanBlock

LEMMA MoreReasoned ==
  ASSUME NEW B, NEW C, B \subseteq C, NEW of, ReasonedBlocks(B, of)
  PROVE  ReasonedBlocks(C, of)
  BY DEF ReasonedBlocks

(* Collapsed results are as clean, and leave what is retained.             *)
LEMMA SameClean ==
  ASSUME NEW c \in Seq(MessageType), NEW d \in Seq(MessageType), SameButNotes(c, d),
         NEW n \in Nat, NEW v, NEW L, \A b \in BlocksIn(c) : CleanBlock(b, n, v, L)
  PROVE  /\ \A b \in BlocksIn(d) : CleanBlock(b, n, v, L)
         /\ \A of : ReasonedBlocks(BlocksIn(c), of) => ReasonedBlocks(BlocksIn(d), of)
         /\ \A b \in BlocksIn(d) : \E a \in BlocksIn(c) : b.round = a.round
<1>1. ASSUME NEW b \in BlocksIn(d)
      PROVE  CleanBlock(b, n, v, L) /\ \E a \in BlocksIn(c) : b.round = a.round
  <2>1. PICK a \in BlocksIn(c) :
          b = a \/ (a.kind = "result" /\ b.kind = "result" /\ b.round = a.round
                     /\ b.id = a.id /\ b.note = "superseded")
    BY SameBlocks
  <2>2. CleanBlock(a, n, v, L)  OBVIOUS
  <2>3. CASE b = a  BY <2>2, <2>3
  <2>4. CASE b # a
    <3>1. a.kind = "result" /\ b.kind = "result" /\ b.round = a.round
            /\ b.id = a.id /\ b.note = "superseded"
      BY <2>1, <2>4
    <3>2. a.note # "retained"  BY <2>2, <3>1 DEF CleanBlock
    <3> QED BY <2>2, <3>1, <3>2 DEF CleanBlock
  <2> QED BY <2>3, <2>4
<1>2. \A b \in BlocksIn(c) : b.note = "retained" => b \in BlocksIn(d)
  BY SameBlocks DEF CleanBlock
<1> QED BY <1>1, <1>2 DEF ReasonedBlocks

(* Saving a context and restoring it at once gives the context.            *)
LEMMA FrontAndLast ==
  ASSUME NEW c \in Seq(MessageType), c # <<>>
  PROVE  SubSeq(c, 1, Len(c) - 1) \o <<Last(c)>> = c
  BY DEF Last

(* Facts every step needs of the context it starts from.                   *)
LEMMA ContextFacts ==
  ASSUME TypeOK, ContextInv
  PROVE  /\ ctx \in Seq(MessageType) /\ rounds \in Nat /\ rounds \in 0 .. MaxRounds
         /\ saved.last \in Seq(MessageType)
         /\ \A b \in BlocksIn(ctx) : b.round \in Nat
         /\ pc # "done" => /\ \A b \in BlocksIn(ctx) : CleanBlock(b, rounds, rejected, late)
                           /\ ReasonedBlocks(BlocksIn(ctx), kept)
         /\ Within =>
              /\ rounds \in 1 .. MaxRounds
              /\ saved.length \in 1 .. Len(ctx) /\ Len(saved.last) = 1
              /\ Restored(ctx) \in Seq(MessageType)
              /\ Len(Restored(ctx)) >= 1
              /\ \A b \in BlocksIn(Restored(ctx)) :
                   CleanBlock(b, rounds, rejected, late) /\ b.round < rounds /\ b.round \in Nat
              /\ ReasonedBlocks(BlocksIn(Restored(ctx)), kept)
<1>1. ctx \in Seq(MessageType) /\ rounds \in 0 .. MaxRounds /\ saved.last \in Seq(MessageType)
  BY DEF TypeOK
<1>2. \A c \in Seq(MessageType) : \A b \in BlocksIn(c) : b.round \in Nat
  BY BlockTypes DEF BlockType
<1>3. pc # "done" => /\ \A b \in BlocksIn(ctx) : CleanBlock(b, rounds, rejected, late)
                     /\ ReasonedBlocks(BlocksIn(ctx), kept)
  BY CleanNow DEF ContextInv
<1>4. ASSUME Within
      PROVE  /\ rounds \in 1 .. MaxRounds
             /\ saved.length \in 1 .. Len(ctx) /\ Len(saved.last) = 1
             /\ Restored(ctx) \in Seq(MessageType)
             /\ Len(Restored(ctx)) >= 1
             /\ \A b \in BlocksIn(Restored(ctx)) :
                  CleanBlock(b, rounds, rejected, late) /\ b.round < rounds /\ b.round \in Nat
             /\ ReasonedBlocks(BlocksIn(Restored(ctx)), kept)
  <2>1. /\ rounds \in 1 .. MaxRounds /\ saved.length \in 1 .. Len(ctx) /\ Len(saved.last) = 1
        /\ Clean(Restored(ctx)) /\ Reasoned(Restored(ctx))
        /\ \A b \in BlocksIn(Restored(ctx)) : b.round < rounds
    BY <1>1, <1>4 DEF ContextInv
  <2>2. Restored(ctx) \in Seq(MessageType) /\ Len(Restored(ctx)) >= 1
    BY <1>1, <2>1, RestoredParts
  <2> QED BY <1>2, <2>1, <2>2, CleanNow
<1> QED BY <1>1, <1>2, <1>3, <1>4

(* The call that is next, when the one before it has run.                  *)
LEMMA NextPosition ==
  ASSUME TypeOK, PlaceInv, pending # <<>>, pending' = Tail(pending),
         UNCHANGED <<model, rounds, reply>>
  PROVE  /\ Position' = Position + 1
         /\ CallId(Position)' = CallId(Position) + 1
         /\ \A p : CallId(p)' = CallId(p)
         /\ Len(pending) = 1 <=> pending' = <<>>
<1>1. Len(pending') = Len(pending) - 1 /\ (Len(pending) = 1 <=> pending' = <<>>)
  <2>1. pending \in Seq(CallType)  BY DEF TypeOK
  <2>2. pending' \in Seq(CallType) /\ Len(pending') = Len(pending) - 1  BY <2>1
  <2>3. Len(pending') = 0 <=> pending' = <<>>  BY <2>2, ZeroLength
  <2>4. Len(pending) \in Nat  BY <2>1
  <2> QED BY <2>2, <2>3, <2>4
<1>2. Position' = Len(reply.calls) - Len(pending') + 1  BY DEF Position
<1>3. Position' = Position + 1  BY <1>1, <1>2, Positions DEF Position
<1>4. \A p : CallId(p)' = CallId(p)  BY DEF CallId
<1>5. CallId(Position)' = CallId(Position')  BY DEF CallId
<1>6. CallId(Position + 1) = CallId(Position) + 1
  <2>1. Position \in Nat  BY Positions
  <2>2. rounds \in 0 .. MaxRounds  BY DEF TypeOK
  <2> QED BY <2>1, <2>2, CallIds
<1> QED BY <1>1, <1>3, <1>4, <1>5, <1>6

(* A step that leaves the context and what is known of it alone.           *)
LEMMA ContextStill ==
  ASSUME TypeOK, PlaceInv, ContextInv,
         UNCHANGED <<model, rounds, ctx, saved, told, kept, rejected, late>>,
         pc' # "done" => pc # "done",
         pc' \in {"hook", "start"} => pc \in {"hook", "start"},
         Within' => Within /\ (pc = "tools" => pc' = "tools"),
         pc' = "tools" => UNCHANGED <<reply, pending>>,
         Asking' => Asking,
         Answered' => Answered /\ reply' = reply
  PROVE  ContextInv'
<1>1. (pc # "done" => Clean(ctx) /\ Reasoned(ctx))'
  BY ContextFacts, CleanThen
<1>2. ASSUME Within'
      PROVE  /\ Clean(Restored(ctx))' /\ Reasoned(Restored(ctx))'
             /\ (\A b \in BlocksIn(Restored(ctx)) : b.round < rounds)'
  <2>1. BlocksIn(Restored(ctx))' = BlocksIn(Restored(ctx))
    BY DEF Restored, BlocksIn, ToSet
  <2> QED BY <1>2, <2>1, ContextFacts, CleanThen
<1>3. Answered' => (ctx = Said(told, BlocksOf(reply)))'
  <2>1. SUFFICES ASSUME Answered' PROVE (ctx = Said(told, BlocksOf(reply)))'  OBVIOUS
  <2>2. BlocksOf(reply)' = BlocksOf(reply)
    BY <2>1 DEF BlocksOf, CallsOf, Discards, Block, CallId
  <2>3. Said(told, BlocksOf(reply))' = Said(told, BlocksOf(reply))
    BY <2>2 DEF Said, Message
  <2> QED BY <2>1, <2>3 DEF ContextInv
<1>4. (Checkpoint(told))' = Checkpoint(told)  BY DEF Checkpoint
<1>5. Within' => (IF pc = "tools" THEN rejected[rounds] < CallId(Position)
                  ELSE rejected[rounds] = 0)'
  <2>1. CASE pc' = "tools"
    <3>1. CallId(Position)' = CallId(Position) /\ CallId(Position) \in Nat \ {0}
      BY <2>1, Positions DEF CallId, Position
    <3>2. Within => rejected[rounds] < CallId(Position)  BY <3>1 DEF ContextInv
    <3> QED BY <2>1, <3>1, <3>2
  <2>2. CASE pc' # "tools"  BY <2>2 DEF ContextInv
  <2> QED BY <2>1, <2>2
<1> QED BY <1>1, <1>2, <1>3, <1>4, <1>5 DEF ContextInv

(* A reply is added: to the context, not to what a restore makes of it.     *)
LEMMA ContextDelivered ==
  ASSUME TypeOK, ContextInv, Asking, NEW r \in Replies, Delivered(r),
         UNCHANGED <<model, rounds, saved, told, kept, rejected, late>>,
         pc' \in {"idle", "tools", "closing"}
  PROVE  ContextInv'
<1> DEFINE blocks == BlocksOf(r)
<1>1. Within /\ ctx = told /\ told # <<>> /\ saved = Checkpoint(told)
  BY DEF Asking, Within, ContextInv
<1>2. ctx' = Said(ctx, blocks) /\ reply' = r  BY DEF Delivered
<1>3. rejected[rounds] = 0  BY <1>1 DEF Asking, ContextInv
<1>4. /\ blocks \in Seq(BlockType)
      /\ \A b \in ToSet(blocks) :
           /\ b.round = rounds /\ b.note # "retained" /\ b.kind # "result"
           /\ b.kind = "call" /\ ~ model.reusesIds => b.id \in IdsOfRound(rounds)
  BY ReplyBlocks DEF TypeOK
<1>5. /\ ctx' \in Seq(MessageType) /\ Len(ctx') >= Len(ctx)
      /\ BlocksIn(ctx') = BlocksIn(ctx) \cup ToSet(blocks)
  BY <1>2, DeliveredParts
<1> HIDE DEF blocks
<1>6. Restored(ctx) = ctx  BY <1>1, RestoredAtOnce, ContextFacts
<1>7. Restored(ctx') = ctx
  <2>1. saved.length \in 1 .. Len(ctx) /\ Len(saved.last) = 1  BY <1>1, ContextFacts
  <2>2. Restored(ctx') = Restored(ctx)
    BY <1>2, <1>4, <2>1, RestoredAfterSaid, ContextFacts
  <2> QED BY <1>6, <2>2
<1>8. \A b \in BlocksIn(ctx) : /\ b.round < rounds /\ b.round \in Nat
                               /\ CleanBlock(b, rounds, rejected, late)
  BY <1>1, <1>6, ContextFacts
<1>9. \A b \in ToSet(blocks) : CleanBlock(b, rounds, rejected, late)
  BY <1>1, <1>3, <1>4, ContextFacts DEF CleanBlock
<1>10. Clean(ctx)' /\ Reasoned(ctx)'
  <2>1. ReasonedBlocks(BlocksIn(ctx), kept)  BY <1>1, ContextFacts DEF Within
  <2>2. ReasonedBlocks(BlocksIn(ctx'), kept)  BY <1>5, <2>1 DEF ReasonedBlocks
  <2> QED BY <1>5, <1>8, <1>9, <2>2, CleanThen
<1>11. /\ Clean(Restored(ctx))' /\ Reasoned(Restored(ctx))'
       /\ (\A b \in BlocksIn(Restored(ctx)) : b.round < rounds)'
  <2>1. BlocksIn(Restored(ctx))' = BlocksIn(Restored(ctx'))
    BY CleanThen DEF BlocksIn, ToSet
  <2>2. ReasonedBlocks(BlocksIn(ctx), kept)  BY <1>1, ContextFacts DEF Within
  <2> QED BY <1>7, <1>8, <2>1, <2>2, CleanThen
<1>12. (ctx = Said(told, BlocksOf(reply)))'
  <2>1. BlocksOf(reply)' = blocks
    BY <1>2 DEF BlocksOf, CallsOf, Discards, Block, CallId, blocks
  <2>2. Said(told, BlocksOf(reply))' = Said(told, blocks)
    BY <2>1 DEF Said, Message
  <2> QED BY <1>1, <1>2, <2>2
<1>13. (saved = Checkpoint(told))' /\ (told # <<>>)'  BY <1>1 DEF Checkpoint
<1>14. ~ Asking'  BY DEF Asking
<1>15. (IF pc = "tools" THEN rejected[rounds] < CallId(Position) ELSE rejected[rounds] = 0)'
  <2>1. Position' \in Nat \ {0}
    <3>1. /\ CallsOf(r) \in Seq(CallType) /\ r.calls \in Seq(CallType)
          /\ Len(CallsOf(r)) <= Len(r.calls)
      BY ReplyParts DEF TypeOK
    <3> QED BY <3>1 DEF Delivered, Position
  <2>2. CallId(Position)' = CallId(Position') /\ CallId(Position') >= 1
    <3>1. CallId(Position)' = CallId(Position')  BY DEF CallId
    <3> QED BY <2>1, <3>1, CallIds, ContextFacts
  <2>3. CallId(Position') \in Nat  BY <2>1, CallIds, ContextFacts
  <2> QED BY <1>3, <2>2, <2>3
<1>16. saved.length \in 1 .. Len(ctx') /\ Len(saved.last) = 1 /\ rounds >= 1
  BY <1>1, <1>5, ContextFacts
<1>17. \A n \in 0 .. MaxRounds : n > rounds => rejected[n] = 0  BY DEF ContextInv
<1>18. (pc \in {"hook", "start"} => ctx # <<>>)'  OBVIOUS
<1> QED BY <1>10, <1>11, <1>12, <1>13, <1>14, <1>15, <1>16, <1>17, <1>18 DEF ContextInv

(* The rounds with a late answer, once the next call has been answered.     *)
LateAfter == IF rejected[rounds] # 0 THEN late \cup {rounds} ELSE late

(* The context of a call's result, and what a restore makes of it.          *)
LEMMA ContextOfResult ==
  ASSUME TypeOK, PlaceInv, ContextInv, pc = "tools"
  PROVE  /\ WithResult \in Seq(MessageType) /\ Len(WithResult) >= Len(ctx)
         /\ WithResult # <<>>
         /\ \A b \in BlocksIn(WithResult) : CleanBlock(b, rounds, rejected, LateAfter)
         /\ ReasonedBlocks(BlocksIn(WithResult), kept)
         /\ Restored(WithResult) = Restored(ctx)
<1>1. pending # <<>> /\ Len(pending) <= Len(reply.calls) /\ Within
  BY DEF PlaceInv, Within
<1>2. /\ rejected[rounds] < CallId(Position) /\ rejected[rounds] \in Nat
      /\ rejected[rounds] # 0 => rounds \in LateAfter
  BY <1>1 DEF ContextInv, LateAfter, TypeOK
<1>3. CleanBlock(ResultOf(Head(pending)), rounds, rejected, LateAfter)
  <2> DEFINE b == ResultOf(Head(pending))
  <2>1. b.round = rounds /\ b.note = "whole" /\ b.kind = "result" /\ b.id = CallId(Position)
    BY <1>1, ResultParts
  <2> HIDE DEF b
  <2>2. ~ model.reusesIds => CallId(Position) \in IdsOfRound(rounds)
    <3>1. Position \in 1 .. MaxCalls /\ Position \in Nat  BY <1>1, Positions
    <3> QED BY <3>1, CallIds, ContextFacts
  <2>3. CallId(Position) \in Nat  BY Positions
  <2>4. rounds \in Nat  BY ContextFacts
  <2>5. rejected[rounds] = 0 \/ b.id > rejected[rounds]  BY <1>2, <2>1, <2>3
  <2>6. CleanBlock(b, rounds, rejected, LateAfter)
    BY <1>2, <2>1, <2>2, <2>4, <2>5 DEF CleanBlock
  <2> QED BY <2>6 DEF b
<1>4. BlocksIn(WithResult) = BlocksIn(ctx) \cup {ResultOf(Head(pending))}
  BY <1>1, ResultParts
<1>5. ReasonedBlocks(BlocksIn(WithResult), kept)
  BY <1>4, ContextFacts DEF ReasonedBlocks
<1>8. \A b \in BlocksIn(ctx) : CleanBlock(b, rounds, rejected, LateAfter)
  <2>1. late \subseteq LateAfter  BY DEF LateAfter
  <2>2. \A b \in BlocksIn(ctx) : CleanBlock(b, rounds, rejected, late) /\ b.round \in Nat
    BY ContextFacts
  <2> QED BY <2>1, <2>2, StillClean, ContextFacts
<1>6. Restored(WithResult) = Restored(ctx)
  <2>1. <<ResultOf(Head(pending))>> \in Seq(BlockType)  BY <1>1, ResultParts
  <2> QED BY <1>1, <2>1, RestoredAfterSaid, ContextFacts DEF WithResult
<1>7. WithResult \in Seq(MessageType) /\ Len(WithResult) >= Len(ctx) /\ WithResult # <<>>
  BY <1>1, ResultParts
<1> QED BY <1>3, <1>4, <1>5, <1>6, <1>7, <1>8

LEMMA ContextOpened ==
  ASSUME TypeOK, PlaceInv, ContextInv, ReplyOpens
  PROVE  ContextInv'
<1> USE DEF ReplyOpens
<1>1. nextMessage \in {"input", "retry"}  BY DEF PlaceInv, TypeOK
<1> DEFINE m == UserMessage(nextMessage)
<1>2. m \in MessageType  BY <1>1, MessageTypes
<1>3. \A b \in ToSet(m.blocks) : CleanBlock(b, rounds, rejected, late)
  BY <1>1, ContextFacts DEF UserMessage, Message, Block, ToSet, CleanBlock
<1> HIDE DEF m
<1>4. ctx' = Append(ctx, m)  BY DEF m
<1>5. ctx' # <<>> /\ BlocksIn(ctx') = BlocksIn(ctx) \cup ToSet(m.blocks)
  BY <1>2, <1>4, AppendParts, ContextFacts
<1>6. UNCHANGED <<model, rounds, rejected, late, kept>> /\ pc' = "hook"
  BY DEF sessionPart, history, Goes
<1>7. ReasonedBlocks(BlocksIn(ctx'), kept')  BY <1>5, <1>6, ContextFacts DEF ReasonedBlocks
<1>8. Clean(ctx)' /\ Reasoned(ctx)'  BY <1>3, <1>5, <1>6, <1>7, CleanThen, ContextFacts
<1> QED BY <1>5, <1>6, <1>8 DEF ContextInv, Within, Asking, Answered

(* A context is compressed only when nothing in it was retained.           *)
LEMMA ContextShortened ==
  ASSUME TypeOK, ContextInv, ReasoningInv, ContextCompressed
  PROVE  ContextInv'
<1> USE DEF ContextCompressed
<1>1. kept = {}
  <2>1. SUFFICES ASSUME NEW r \in kept PROVE FALSE  OBVIOUS
  <2>2. ReasoningIsSent
    BY <2>1 DEF ReasoningInv, ReasoningIsSent, OwnFormatter
  <2>3. PICK b \in BlocksIn(ctx) : b.note = "retained"
    BY <2>1, ContextFacts DEF ReasonedBlocks
  <2>4. b.kind = "thinking"  BY <2>3, ContextFacts DEF CleanBlock
  <2>5. b \in Thinking(ctx)  BY <2>3, <2>4 DEF Thinking
  <2> QED BY <2>2, <2>5 DEF GuardDelegates
<1>2. ctx' = <<ctx[Len(ctx)]>> /\ Len(ctx) \in Nat \ {0} /\ ctx' # <<>>
  BY ContextFacts DEF Last
<1>3. BlocksIn(ctx') \subseteq BlocksIn(ctx)
  BY <1>2, BlockPlaces, ContextFacts
<1>4. UNCHANGED <<model, rounds, rejected, late, kept>> /\ pc' = "start"
  BY DEF sessionPart, history, Goes
<1>5. Clean(ctx)' /\ Reasoned(ctx)'
  BY <1>1, <1>3, <1>4, CleanThen, ContextFacts DEF ReasonedBlocks
<1> QED BY <1>2, <1>4, <1>5 DEF ContextInv, Within, Asking, Answered

(* A call starts: the context is saved, and is all of earlier rounds.       *)
LEMMA ContextSaved ==
  ASSUME TypeOK, ContextInv, ModelCallStart
  PROVE  ContextInv'
<1> USE DEF ModelCallStart
<1>1. ctx' = Compacted(ctx, submissions) /\ saved' = Checkpoint(ctx') /\ told' = ctx'
  OBVIOUS
<1>2. ctx' \in Seq(MessageType) /\ SameButNotes(ctx, ctx')
  BY <1>1, CompactedParts, ContextFacts
<1>3. UNCHANGED <<model, rejected, late, kept>> /\ pc' = "call" /\ rounds' = rounds + 1
  BY DEF history, Goes
<1>4. /\ \A b \in BlocksIn(ctx') : CleanBlock(b, rounds, rejected, late)
      /\ ReasonedBlocks(BlocksIn(ctx'), kept)
      /\ \A b \in BlocksIn(ctx') : b.round \in Nat
  <2>1. /\ \A b \in BlocksIn(ctx) : CleanBlock(b, rounds, rejected, late)
        /\ ReasonedBlocks(BlocksIn(ctx), kept)
        /\ ctx \in Seq(MessageType) /\ rounds \in Nat
    BY ContextFacts
  <2>2. /\ \A b \in BlocksIn(ctx') : CleanBlock(b, rounds, rejected, late)
        /\ ReasonedBlocks(BlocksIn(ctx'), kept)
    BY <1>2, <2>1, SameClean
  <2>3. \A b \in BlocksIn(ctx') : b.round \in Nat
    BY <1>2, BlockTypes DEF BlockType
  <2> QED BY <2>2, <2>3
<1>5. \A b \in BlocksIn(ctx') : CleanBlock(b, rounds', rejected', late') /\ b.round < rounds'
  BY <1>3, <1>4, ContextFacts DEF CleanBlock
<1>6. ctx # <<>> /\ Len(ctx') = Len(ctx)  BY <1>2 DEF ContextInv, SameButNotes
<1>7. ctx' # <<>> /\ Len(ctx') >= 1  BY <1>2, <1>6, ContextFacts
<1>8. saved' = [length |-> Len(ctx'), last |-> <<Last(ctx')>>]  BY <1>1, <1>7 DEF Checkpoint
<1>9. Restored(ctx)' = ctx'
  <2>1. Restored(ctx)' = SubSeq(ctx', 1, Len(ctx') - 1) \o <<Last(ctx')>>
    BY <1>7, <1>8 DEF Restored
  <2> QED BY <1>2, <1>7, <2>1, FrontAndLast
<1>10. BlocksIn(Restored(ctx))' = BlocksIn(ctx')  BY <1>9 DEF BlocksIn, ToSet
<1>11. Clean(ctx)' /\ Reasoned(ctx)'  BY <1>3, <1>4, <1>5, CleanThen
<1>12. /\ Clean(Restored(ctx))' /\ Reasoned(Restored(ctx))'
       /\ (\A b \in BlocksIn(Restored(ctx)) : b.round < rounds)'
  BY <1>3, <1>5, <1>10, <1>11 DEF Clean, Reasoned, Allowed, BlocksIn, ToSet
<1>13. (saved = Checkpoint(told))'  BY <1>1 DEF Checkpoint
<1>14. /\ rejected'[rounds'] = 0 /\ rounds' >= 1
       /\ \A r \in 0 .. MaxRounds : r > rounds' => rejected'[r] = 0
  <2>1. rounds' \in 0 .. MaxRounds /\ rounds' > rounds /\ rounds \in Nat
    BY <1>3, ContextFacts
  <2>2. \A r \in 0 .. MaxRounds : r > rounds => rejected[r] = 0  BY DEF ContextInv
  <2> QED BY <1>3, <2>1, <2>2
<1>15. saved'.length \in 1 .. Len(ctx') /\ Len(saved'.last) = 1  BY <1>2, <1>7, <1>8
<1> QED BY <1>1, <1>3, <1>7, <1>11, <1>12, <1>13, <1>14, <1>15
     DEF ContextInv, Within, Asking, Answered

LEMMA ContextSucceeds ==
  ASSUME TypeOK, PlaceInv, ContextInv, CallSucceeds
  PROVE  ContextInv'
<1> USE DEF CallSucceeds
<1> DEFINE c == WithResult
<1>1. ctx' = Compacted(c, submissions')
      /\ UNCHANGED <<model, rounds, saved, told, kept, rejected>> /\ late' = LateAfter
  BY DEF LateAfter
<1>2. /\ c \in Seq(MessageType) /\ Len(c) >= Len(ctx) /\ c # <<>>
      /\ \A b \in BlocksIn(c) : CleanBlock(b, rounds, rejected, LateAfter)
      /\ ReasonedBlocks(BlocksIn(c), kept)
      /\ Restored(c) = Restored(ctx)
  BY ContextOfResult
<1> HIDE DEF c
<1>3. ctx' \in Seq(MessageType) /\ SameButNotes(c, ctx') /\ Len(ctx') = Len(c)
  <2>1. c \in Seq(MessageType)  BY <1>2
  <2>2. \A n : Compacted(c, n) \in Seq(MessageType) /\ SameButNotes(c, Compacted(c, n))
    BY <2>1, CompactedParts
  <2>3. ctx' \in Seq(MessageType) /\ SameButNotes(c, ctx')  BY <1>1, <2>2
  <2> QED BY <2>3 DEF SameButNotes
<1>4. /\ \A b \in BlocksIn(ctx') : CleanBlock(b, rounds, rejected, LateAfter)
      /\ ReasonedBlocks(BlocksIn(ctx'), kept)
  <2>1. rounds \in Nat  BY ContextFacts
  <2> QED BY <1>2, <1>3, <2>1, SameClean
<1>5. Within /\ rounds \in 1 .. MaxRounds /\ saved.length \in 1 .. Len(ctx)
      /\ Len(saved.last) = 1 /\ saved.last \in Seq(MessageType)
  BY ContextFacts DEF Within
<1>6. /\ Restored(c) \in Seq(MessageType)
      /\ \A b \in BlocksIn(Restored(c)) : CleanBlock(b, rounds, rejected, LateAfter) /\ b.round < rounds
      /\ ReasonedBlocks(BlocksIn(Restored(c)), kept)
  <2>1. /\ Restored(ctx) \in Seq(MessageType)
        /\ \A b \in BlocksIn(Restored(ctx)) :
             CleanBlock(b, rounds, rejected, late) /\ b.round < rounds /\ b.round \in Nat
        /\ ReasonedBlocks(BlocksIn(Restored(ctx)), kept)
    BY <1>5, ContextFacts
  <2>2. late \subseteq LateAfter  BY DEF LateAfter
  <2>3. \A b \in BlocksIn(Restored(ctx)) : CleanBlock(b, rounds, rejected, LateAfter)
    BY <2>1, <2>2, StillClean, ContextFacts
  <2> QED BY <1>2, <2>1, <2>3
<1>7. saved.length \in 1 .. Len(c) /\ saved.length \in 1 .. Len(ctx')
  BY <1>2, <1>3, <1>5, ContextFacts
<1>8. Restored(ctx') \in Seq(MessageType) /\ SameButNotes(Restored(c), Restored(ctx'))
  BY <1>2, <1>3, <1>5, <1>7, SameRestored, RestoredParts
<1>9. /\ \A b \in BlocksIn(Restored(ctx')) : CleanBlock(b, rounds, rejected, LateAfter) /\ b.round < rounds
      /\ ReasonedBlocks(BlocksIn(Restored(ctx')), kept)
  <2> DEFINE before == Restored(c)
             after == Restored(ctx')
  <2>1. /\ before \in Seq(MessageType) /\ after \in Seq(MessageType)
        /\ SameButNotes(before, after) /\ rounds \in Nat
        /\ \A b \in BlocksIn(before) : CleanBlock(b, rounds, rejected, LateAfter)
    BY <1>5, <1>6, <1>8
  <2>2. \A b \in BlocksIn(before) : b.round < rounds  BY <1>6
  <2>3. ReasonedBlocks(BlocksIn(before), kept)  BY <1>6
  <2> HIDE DEF before, after
  <2>4. /\ \A b \in BlocksIn(after) : CleanBlock(b, rounds, rejected, LateAfter)
        /\ ReasonedBlocks(BlocksIn(after), kept)
        /\ \A b \in BlocksIn(after) : \E a \in BlocksIn(before) : b.round = a.round
    BY <2>1, <2>3, SameClean
  <2>5. \A b \in BlocksIn(after) : b.round < rounds  BY <2>2, <2>4
  <2> QED BY <2>4, <2>5 DEF after
<1>10. Clean(ctx)' /\ Reasoned(ctx)'  BY <1>1, <1>4, CleanThen
<1>11. /\ Clean(Restored(ctx))' /\ Reasoned(Restored(ctx))'
       /\ (\A b \in BlocksIn(Restored(ctx)) : b.round < rounds)'
  <2>1. BlocksIn(Restored(ctx))' = BlocksIn(Restored(ctx'))
    BY <1>1, CleanThen DEF BlocksIn, ToSet
  <2> QED BY <1>1, <1>9, <2>1, CleanThen
<1>12. pc' \in {"hook", "tools", "done"}  BY DEF Goes, EndsAs, NextPlace
<1>13. ctx' # <<>> /\ \A r \in 0 .. MaxRounds : r > rounds => rejected[r] = 0
  BY <1>2, <1>3 DEF ContextInv
<1>14. (IF pc = "tools" THEN rejected[rounds] < CallId(Position) ELSE rejected[rounds] = 0)'
         \/ pc' # "tools"
  <2>1. rejected[rounds] < CallId(Position) /\ rejected[rounds] \in Nat
    BY <1>5 DEF ContextInv, TypeOK
  <2>2. CallId(Position)' = CallId(Position) + 1 /\ CallId(Position) \in Nat
    BY NextPosition, Positions DEF PlaceInv
  <2> QED BY <1>1, <2>1, <2>2
<1> QED BY <1>1, <1>5, <1>7, <1>10, <1>11, <1>12, <1>13, <1>14 DEF ContextInv, Within, Asking, Answered

(* A second restore leaves of what the first left what it left.            *)
LEMMA RestoredAgain ==
  ASSUME NEW c \in Seq(MessageType), NEW m \in MessageType,
         saved.last \in Seq(MessageType), saved.length \in 1 .. Len(c), Len(saved.last) = 1
  PROVE  /\ Restored(Append(Restored(c), m)) = Restored(c)
         /\ Len(Append(Restored(c), m)) = saved.length + 1
<1> DEFINE s == Append(Restored(c), m)
<1>1. Restored(c) \in Seq(MessageType) /\ Len(Restored(c)) = saved.length  BY RestoredParts
<1>2. \A i \in 1 .. saved.length - 1 : Restored(c)[i] = c[i]  BY RestoredParts
<1>3. s \in Seq(MessageType) /\ Len(s) = saved.length + 1
      /\ \A i \in 1 .. saved.length : s[i] = Restored(c)[i]
  BY <1>1
<1> HIDE DEF s
<1>4. \A i \in 1 .. saved.length - 1 : SubSeq(s, 1, saved.length - 1)[i]
                                        = SubSeq(c, 1, saved.length - 1)[i]
  BY <1>2, <1>3
<1>5. SubSeq(s, 1, saved.length - 1) = SubSeq(c, 1, saved.length - 1)
  BY <1>3, <1>4
<1> QED BY <1>3, <1>5 DEF Restored, s

(* What is left of a rejected completion is the context as it was saved,    *)
(* and a message that asks to repair it.                                   *)
LEMMA ContextRejected ==
  ASSUME TypeOK, PlaceInv, ContextInv, CallRejected
  PROVE  ContextInv'
<1> USE DEF CallRejected
<1> DEFINE c == Restored(WithResult)
           m == UserMessage("repair")
<1>1. /\ pc' = "done" \/ (ctx' = Append(c, m) /\ pc' = NextPlace)
      /\ UNCHANGED <<model, rounds, saved, told, kept, late>>
      /\ rejected' = [rejected EXCEPT ![rounds] = CallId(Position)]
  BY DEF EndsAs, Goes, RejectedHere
<1>2. /\ rounds \in 1 .. MaxRounds /\ c = Restored(ctx) /\ c \in Seq(MessageType)
      /\ \A b \in BlocksIn(c) :
           CleanBlock(b, rounds, rejected, late) /\ b.round < rounds /\ b.round \in Nat
      /\ ReasonedBlocks(BlocksIn(c), kept)
  BY ContextOfResult, ContextFacts DEF Within
<1>3. m \in MessageType /\ \A b \in ToSet(m.blocks) : CleanBlock(b, rounds, rejected', late')
  BY <1>2, MessageTypes DEF UserMessage, Message, Block, ToSet, CleanBlock
<1>4. NextPlace \in {"hook", "tools"}  BY DEF NextPlace
<1>5. /\ rejected'[rounds] = CallId(Position)
      /\ \A r \in 0 .. MaxRounds : r # rounds => rejected'[r] = rejected[r]
  BY <1>1, <1>2 DEF TypeOK
<1>6. \A r \in 0 .. MaxRounds : r > rounds => rejected'[r] = 0
  BY <1>2, <1>5 DEF ContextInv
<1>7. \A b \in BlocksIn(c) : CleanBlock(b, rounds, rejected', late')
  <2>1. SUFFICES ASSUME NEW b \in BlocksIn(c) PROVE CleanBlock(b, rounds, rejected', late')
    OBVIOUS
  <2>2. CleanBlock(b, rounds, rejected, late) /\ b.round < rounds /\ b.round \in Nat
    BY <1>2
  <2>3. rejected'[b.round] = rejected[b.round]  BY <1>2, <1>5, <2>2
  <2>4. rounds \in Nat /\ rounds <= rounds /\ late \subseteq late'  BY <1>1, <1>2
  <2> QED BY <2>2, <2>3, <2>4, StillClean
<1>8. Restored(Append(c, m)) = c /\ Len(Append(c, m)) = saved.length + 1
  BY <1>2, <1>3, RestoredAgain, ContextFacts DEF Within
<1>9. CallId(Position) < CallId(Position)'
  BY NextPosition, Positions DEF PlaceInv
<1>10. Len(saved.last) = 1 /\ saved.length \in Nat /\ saved.length >= 1
  BY ContextFacts DEF Within
<1> HIDE DEF c, m
<1>11. CASE pc' = "done"
  BY <1>1, <1>6, <1>11 DEF ContextInv, Within, Asking, Answered
<1>12. CASE ctx' = Append(c, m) /\ pc' \in {"hook", "tools"}
  <2>1. ctx' # <<>> /\ BlocksIn(ctx') = BlocksIn(c) \cup ToSet(m.blocks)
    BY <1>2, <1>3, <1>12, AppendParts
  <2>2. ReasonedBlocks(BlocksIn(ctx'), kept)  BY <1>2, <2>1, MoreReasoned
  <2>3. Clean(ctx)' /\ Reasoned(ctx)'  BY <1>1, <1>3, <1>7, <2>1, <2>2, CleanThen
  <2>4. Restored(ctx)' = c  BY <1>1, <1>8, <1>12, CleanThen
  <2>5. Clean(Restored(ctx))' /\ Reasoned(Restored(ctx))'
    BY <1>1, <1>2, <1>7, <1>8, <1>12, CleanThen
  <2>6. (\A b \in BlocksIn(Restored(ctx)) : b.round < rounds)'
    <3>1. BlocksIn(Restored(ctx))' = BlocksIn(c)  BY <2>4 DEF BlocksIn, ToSet
    <3> QED BY <1>1, <1>2, <3>1
  <2>7. (saved.length \in 1 .. Len(ctx) /\ Len(saved.last) = 1 /\ rounds >= 1)'
    BY <1>1, <1>2, <1>8, <1>10, <1>12
  <2>8. (rejected[rounds] < CallId(Position))'  BY <1>1, <1>5, <1>9
  <2>9. ~ Asking' /\ ~ Answered' /\ (Within' => pc' = "tools") /\ pc' # "start"
    BY <1>12 DEF Asking, Answered, Within
  <2> QED BY <1>1, <1>6, <2>1, <2>3, <2>5, <2>6, <2>7, <2>8, <2>9 DEF ContextInv
<1> QED BY <1>1, <1>4, <1>11, <1>12

(* So it is after a reply that called no tool, but for retained reasoning.  *)
LEMMA ContextRetried ==
  ASSUME TypeOK, ContextInv, NoToolRetried
  PROVE  ContextInv'
<1> USE DEF NoToolRetried
<1> DEFINE c == Restored(ctx)
<1>1. /\ pc' = "loop" /\ UNCHANGED <<model, rounds, late>>
      /\ \A r \in 0 .. MaxRounds : r # rounds => rejected'[r] = rejected[r]
  BY DEF Goes, TypeOK, RejectedHere
<1>2. /\ rounds \in 1 .. MaxRounds /\ c \in Seq(MessageType)
      /\ \A b \in BlocksIn(c) : CleanBlock(b, rounds, rejected, late) /\ b.round < rounds /\ b.round \in Nat
      /\ ReasonedBlocks(BlocksIn(c), kept)
  BY ContextFacts DEF Within
<1> DEFINE note == Block("thinking", "none", 0, "retained")
<1>3. Retained \in MessageType /\ ToSet(Retained.blocks) = {note}
  BY MessageTypes DEF Retained, Message, ToSet
<1>4. note.note = "retained" /\ note.round = rounds /\ CleanBlock(note, rounds, rejected', late')
  BY <1>2 DEF Block, CleanBlock
<1> HIDE DEF c, note
<1>5. \A b \in BlocksIn(c) : CleanBlock(b, rounds, rejected', late')
  <2>1. SUFFICES ASSUME NEW b \in BlocksIn(c) PROVE CleanBlock(b, rounds, rejected', late')
    OBVIOUS
  <2>2. CleanBlock(b, rounds, rejected, late) /\ b.round < rounds /\ b.round \in Nat
    BY <1>2
  <2>3. /\ rounds \in Nat /\ MaxRounds \in Nat /\ rounds <= MaxRounds
        /\ rounds <= rounds /\ late \subseteq late'
    BY <1>1, <1>2, ConversationAssumption
  <2>4. b.round \in 0 .. MaxRounds /\ b.round # rounds  BY <2>2, <2>3
  <2>5. rejected'[b.round] = rejected[b.round]  BY <1>1, <2>4
  <2> QED BY <2>2, <2>3, <2>5, StillClean
<1>6. Clean(ctx)' /\ Reasoned(ctx)'
  <2>1. CASE ReasoningDelta
    <3>1. ctx' = Append(c, Retained) /\ kept' = kept \cup {rounds}  BY <2>1 DEF c
    <3>2. BlocksIn(ctx') = BlocksIn(c) \cup {note}  BY <1>2, <1>3, <3>1, AppendParts
    <3>3. ReasonedBlocks(BlocksIn(ctx'), kept)  BY <1>2, <3>2, MoreReasoned
    <3>4. note \in BlocksIn(ctx')  BY <3>2
    <3>5. ReasonedBlocks(BlocksIn(ctx'), kept')
      BY <1>4, <3>1, <3>3, <3>4 DEF ReasonedBlocks
    <3> QED BY <1>1, <1>4, <1>5, <3>2, <3>5, CleanThen
  <2>2. CASE ~ ReasoningDelta
    <3>1. ctx' = c /\ kept' = kept  BY <2>2 DEF c
    <3>2. ReasonedBlocks(BlocksIn(ctx'), kept')  BY <1>2, <3>1
    <3> QED BY <1>1, <1>5, <3>1, <3>2, CleanThen
  <2> QED BY <2>1, <2>2
<1>7. \A r \in 0 .. MaxRounds : r > rounds => rejected'[r] = 0
  BY <1>1, <1>2 DEF ContextInv
<1> QED BY <1>1, <1>2, <1>6, <1>7 DEF ContextInv, Within, Asking, Answered

LEMMA ContextStep ==
  ASSUME TypeOK, PlaceInv, ContextInv, ReasoningInv, Next
  PROVE  ContextInv'
<1>1. CASE HookPasses \/ GuardStops \/ ReplyExceedsRounds \/ ModelCalled \/ AttemptStarts
             \/ RequestRefused \/ AttemptFails
  BY <1>1, ContextStill DEF HookPasses, GuardStops, ReplyExceedsRounds, ModelCalled,
     AttemptStarts, RequestRefused, AttemptFails, Within, Asking, Answered, Goes, EndsAs,
     sessionPart, contextPart, history
<1>2. CASE StreamOpens \/ StreamStops \/ StreamClosed
  BY <1>2, ContextStill DEF StreamOpens, StreamStops, StreamClosed, Within, Asking, Answered,
     Goes, EndsAs, sessionPart, contextPart, history
<1>3. CASE CompletionReturns \/ StreamEnds
  <2>1. /\ Asking /\ \E r \in Replies : Delivered(r)
        /\ UNCHANGED <<model, rounds, saved, told, kept, rejected, late>>
        /\ pc' \in {"idle", "tools", "closing"}
    BY <1>3 DEF CompletionReturns, StreamEnds, Asking, Goes, sessionPart, history
  <2> QED BY <2>1, ContextDelivered
<1>4. CASE NoToolStops
  <2>1. /\ pc' = "done" /\ UNCHANGED rounds /\ rounds \in 1 .. MaxRounds
        /\ \A r \in 0 .. MaxRounds : r # rounds => rejected'[r] = rejected[r]
    BY <1>4, ContextFacts DEF NoToolStops, EndsAs, Within, TypeOK, RejectedHere
  <2>2. \A r \in 0 .. MaxRounds : r > rounds => rejected'[r] = 0  BY <2>1 DEF ContextInv
  <2> QED BY <2>1, <2>2 DEF ContextInv, Within, Asking, Answered
<1> QED BY <1>1, <1>2, <1>3, <1>4, ContextOpened, ContextShortened, ContextSaved,
     ContextSucceeds, ContextRejected, ContextRetried DEF Next

-----------------------------------------------------------------------------
(* Retained reasoning.                                                     *)

(* What was added since the checkpoint to the message that was the last, or *)
(* after it, is what the assistant said.                                   *)
LEMMA AddedIsSaid ==
  ASSUME NEW c \in Seq(MessageType), c # <<>>, saved = Checkpoint(c),
         NEW blocks \in Seq(BlockType)
  PROVE  Added(Said(c, blocks)) = ToSet(blocks)
<1> DEFINE n == Len(c)
           last == c[n]
           s == Said(c, blocks)
<1>1. n \in Nat \ {0} /\ last \in MessageType /\ last.blocks \in Seq(BlockType)
  <2>1. n \in Nat \ {0} /\ last \in MessageType  OBVIOUS
  <2> QED BY <2>1 DEF MessageType
<1>2. saved.length = n /\ saved.last[1] = last /\ n # 0  BY DEF Checkpoint, Last
<1>3. CASE last.role = "assistant"
  <2> DEFINE m == Message("assistant", last.blocks \o blocks)
  <2>1. s = SubSeq(c, 1, n - 1) \o <<m>>  BY <1>3 DEF Said, Front, Last
  <2>2. m.blocks = last.blocks \o blocks  BY DEF Message
  <2>3. m \in MessageType  BY <1>1 DEF Message, MessageType
  <2> HIDE DEF m, last
  <2>4. Len(s) = n /\ s[n] = m  BY <1>1, <2>1, <2>3
  <2> HIDE DEF s, n
  <2>5. AddedToLast(s) = {m.blocks[j] : j \in Len(last.blocks) + 1 .. Len(m.blocks)}
    BY <1>1, <1>2, <2>4 DEF AddedToLast
  <2>6. /\ Len(m.blocks) = Len(last.blocks) + Len(blocks)
        /\ \A j \in 1 .. Len(blocks) : m.blocks[Len(last.blocks) + j] = blocks[j]
    BY <1>1, <2>2
  <2>7. AddedToLast(s) = ToSet(blocks)
    <3>1. ASSUME NEW b \in AddedToLast(s) PROVE b \in ToSet(blocks)
      <4>1. PICK j \in Len(last.blocks) + 1 .. Len(m.blocks) : b = m.blocks[j]
        BY <2>5, <3>1
      <4>2. PICK k \in 1 .. Len(blocks) : j = Len(last.blocks) + k
        <5>1. j - Len(last.blocks) \in 1 .. Len(blocks)  BY <1>1, <2>6
        <5>2. j = Len(last.blocks) + (j - Len(last.blocks))  BY <1>1, <2>6
        <5> QED BY <5>1, <5>2
      <4>3. b = blocks[k]  BY <2>6, <4>1, <4>2
      <4> QED BY <4>2, <4>3 DEF ToSet
    <3>2. ASSUME NEW b \in ToSet(blocks) PROVE b \in AddedToLast(s)
      <4>1. PICK j \in 1 .. Len(blocks) : b = blocks[j]  BY <3>2 DEF ToSet
      <4>2. Len(last.blocks) + j \in Len(last.blocks) + 1 .. Len(m.blocks)  BY <1>1, <2>6
      <4> QED BY <2>5, <2>6, <4>1, <4>2
    <3> QED BY <3>1, <3>2
  <2>8. UNION {ToSet(s[i].blocks) : i \in n + 1 .. Len(s)} = {}  BY <1>1, <2>4
  <2> QED BY <1>2, <2>7, <2>8 DEF Added, s
<1>4. CASE last.role # "assistant"
  <2> DEFINE m == Message("assistant", blocks)
  <2>1. s = Append(c, m)  BY <1>4 DEF Said, Last
  <2>2. m.blocks = blocks  BY DEF Message
  <2>3. m \in MessageType  BY DEF Message, MessageType
  <2> HIDE DEF m
  <2>4. Len(s) = n + 1 /\ s[n + 1] = m /\ s[n] = last  BY <1>1, <2>1, <2>3
  <2> HIDE DEF s, n, last
  <2>5. AddedToLast(s) = {}
    <3>1. AddedToLast(s) = {last.blocks[j] : j \in Len(last.blocks) + 1 .. Len(last.blocks)}
      BY <1>2, <2>4 DEF AddedToLast
    <3> QED BY <1>1, <3>1
  <2>6. n + 1 .. Len(s) = {n + 1}  BY <1>1, <2>4
  <2>7. UNION {ToSet(s[i].blocks) : i \in n + 1 .. Len(s)} = ToSet(blocks)
    BY <2>2, <2>4, <2>6
  <2> QED BY <1>2, <2>5, <2>7 DEF Added, s
<1> QED BY <1>3, <1>4

(* The runner retains the reply's reasoning just when the model's own view  *)
(* of the reply is that it was pure reasoning, cut at the limit.           *)
LEMMA DeltaIsPure ==
  ASSUME TypeOK, ContextInv, ReasoningInv, pc = "idle", reason = "none"
  PROVE  /\ ReasoningDelta <=> lastPure /\ model.history
         /\ ReasoningDelta => /\ reply.finish = "length" /\ reply.reasoning
                              /\ ~ reply.text /\ reply.calls = <<>>
<1>1. Answered  BY DEF Answered
<1>2. /\ facts.round = rounds /\ facts.finish = reply.finish /\ facts.reasoning = reply.reasoning
      /\ facts.text = reply.text /\ facts.tools = (reply.calls # <<>>) /\ facts.completed
      /\ lastPure = PureLength(facts)
      /\ formatter = OwnFormatter
  BY <1>1 DEF ReasoningInv, Facts
<1>3. model.history => model.phase = "schema" /\ ReasoningIsSent
  BY <1>2 DEF TypeOK, Models, ReasoningIsSent, OwnFormatter
<1>4. ASSUME PureLength(facts)
      PROVE  Added(ctx) # {} /\ \A b \in Added(ctx) : b.kind = "thinking"
  <2>1. reply.reasoning /\ ~ reply.text /\ reply.calls = <<>>
    BY <1>2, <1>4 DEF PureLength
  <2> DEFINE b == Block("thinking", "none", 0, "reply")
  <2>2. BlocksOf(reply) = <<b>>
    <3>1. CallsOf(reply) = <<>>  BY <2>1 DEF CallsOf
    <3>2. BlocksOf(reply) = <<b>> \o <<>> \o <<>>  BY <2>1, <3>1 DEF BlocksOf
    <3> QED BY <3>2
  <2>3. b \in BlockType /\ b.kind = "thinking"  BY DEF Block, BlockType, TypeOK
  <2> HIDE DEF b
  <2>4. ctx = Said(told, <<b>>) /\ told # <<>> /\ saved = Checkpoint(told)
        /\ told \in Seq(MessageType)
    BY <1>1, <2>2 DEF ContextInv, TypeOK
  <2>5. <<b>> \in Seq(BlockType)  BY <2>3
  <2>6. Added(ctx) = ToSet(<<b>>)  BY <2>4, <2>5, AddedIsSaid
  <2> QED BY <2>3, <2>6 DEF ToSet
<1>5. ReasoningDelta <=> PureLength(facts) /\ model.history
  BY <1>2, <1>3, <1>4 DEF ReasoningDelta, IsCompletedReasoningOnlyLength, ReasoningIsSent
<1> QED BY <1>2, <1>5 DEF PureLength

LEMMA ReasoningStep ==
  ASSUME TypeOK, PlaceInv, ContextInv, ReasoningInv, Next
  PROVE  ReasoningInv'
<1> USE DEF ReasoningInv, Goes, EndsAs
<1>1. CASE ReplyOpens \/ HookPasses \/ ContextCompressed \/ GuardStops \/ ReplyExceedsRounds
  <2>1. /\ UNCHANGED <<model, rounds, requestPart, kept>>
        /\ pc \in {"loop", "hook", "start"} /\ pc' \in {"hook", "start", "done"}
    BY <1>1 DEF ReplyOpens, HookPasses, ContextCompressed, GuardStops, ReplyExceedsRounds,
       sessionPart, history
  <2> QED BY <2>1 DEF Within, Answered, OwnFormatter, requestPart
<1>2. CASE ModelCallStart
  <2>1. /\ UNCHANGED <<model, requestPart, kept>> /\ rounds' = rounds + 1
        /\ pc = "start" /\ pc' = "call"
    BY <1>2 DEF ModelCallStart, history
  <2>2. rounds \in Nat /\ rounds' - 1 = rounds  BY <2>1 DEF TypeOK
  <2> QED BY <2>1, <2>2 DEF Within, Answered, OwnFormatter, requestPart
<1>3. CASE ModelCalled
  <2>1. /\ UNCHANGED <<model, rounds, kept, facts, lastPure>>
        /\ pc = "call" /\ pc' = "request"
        /\ formatter' = IF forced' THEN "plain" ELSE formatter
    BY <1>3 DEF ModelCalled, history, sessionPart, ShouldForce
  <2> QED BY <2>1 DEF Within, Answered, OwnFormatter
<1>4. CASE AttemptStarts
  <2>1. /\ UNCHANGED <<model, rounds, kept, formatter, forced>>
        /\ pc = "request" /\ pc' = "attempt" /\ facts' = FreshFacts /\ lastPure' = FALSE
    BY <1>4 DEF AttemptStarts, history, sessionPart
  <2>2. FreshFacts' = FreshFacts  BY <2>1 DEF FreshFacts, Facts
  <2> QED BY <2>1, <2>2 DEF Within, Answered, OwnFormatter
<1>5. CASE RequestRefused \/ AttemptFails
  <2>1. /\ UNCHANGED <<model, rounds, kept, forced>>
        /\ pc \in {"request", "attempt"}
        /\ \/ pc' = "request" /\ formatter' = formatter
           \/ pc' = "done" /\ formatter' = OwnFormatter
    BY <1>5 DEF RequestRefused, AttemptFails, history, sessionPart
  <2> QED BY <2>1 DEF Within, Answered, OwnFormatter
<1>6. CASE CompletionReturns \/ StreamEnds
  <2>1. PICK r \in Replies : /\ Delivered(r) /\ facts' = Observed(r)
                             /\ lastPure' = PureLength(Observed(r))
                             /\ pc' = "tools" => CallsOf(r) # <<>>
    BY <1>6 DEF CompletionReturns, StreamEnds
  <2>2. /\ UNCHANGED <<model, rounds, kept>> /\ pc \in {"attempt", "stream"}
        /\ pc' \in {"tools", "idle", "closing"} /\ formatter' = OwnFormatter
    BY <1>6 DEF CompletionReturns, StreamEnds, sessionPart, history, FormatterAfter
  <2>3. facts.round = rounds  BY <2>2 DEF FreshFacts, Facts
  <2>4. Observed(r) = Facts(rounds, r.finish, r.reasoning, r.text, r.calls # <<>>, TRUE)
    BY <2>3 DEF Observed
  <2>5. (facts = Facts(rounds, reply.finish, reply.reasoning, reply.text,
                       reply.calls # <<>>, TRUE))'
    BY <2>1, <2>2, <2>4 DEF Delivered, Facts
  <2>6. r.reasoning => model.phase = "schema"  BY ReplyParts DEF TypeOK
  <2>7. CallsOf(r) # <<>> => ~ PureLength(Observed(r))
    <3>1. SUFFICES ASSUME CallsOf(r) # <<>> PROVE Observed(r).tools  BY DEF PureLength
    <3>2. r.calls # <<>>  BY <3>1 DEF CallsOf
    <3>3. (r.calls # <<>>) = TRUE  BY <3>2
    <3>4. Observed(r) = Facts(rounds, r.finish, r.reasoning, r.text, TRUE, TRUE)
      BY <2>4, <3>3
    <3> QED BY <3>4 DEF Facts
  <2>8. (lastPure = PureLength(facts))'  BY <2>1 DEF PureLength
  <2>9. (reply.reasoning => model.phase = "schema")'  BY <2>1, <2>2, <2>6 DEF Delivered
  <2> QED BY <2>1, <2>2, <2>5, <2>7, <2>8, <2>9 DEF Within, Answered, OwnFormatter
<1>7. CASE StreamOpens
  <2>1. /\ UNCHANGED <<model, rounds, kept, forced, facts, lastPure>>
        /\ pc = "attempt" /\ pc' = "stream" /\ formatter' = OwnFormatter
    BY <1>7 DEF StreamOpens, history, sessionPart, FormatterAfter
  <2>2. FreshFacts' = FreshFacts  BY <2>1 DEF FreshFacts, Facts
  <2> QED BY <2>1, <2>2 DEF Within, Answered, OwnFormatter
<1>8. CASE StreamStops
  <2>1. /\ UNCHANGED <<model, rounds, kept, formatter>>
        /\ pc = "stream" /\ pc' = "closing" /\ reason' # "none"
    BY <1>8 DEF StreamStops, history, sessionPart
  <2> QED BY <2>1 DEF Within, Answered, OwnFormatter
<1>9. CASE StreamClosed
  <2>1. /\ UNCHANGED <<model, rounds, kept, formatter, facts, lastPure, reply, pending, reason>>
        /\ pc = "closing" /\ pc' = IF reason # "none" THEN "done"
                                  ELSE IF pending = <<>> THEN "idle" ELSE "tools"
    BY <1>9 DEF StreamClosed, history, sessionPart
  <2>2. pending # <<>> => reply.calls # <<>>  BY DEF PlaceInv, TypeOK
  <2>3. reason = "none" /\ pending # <<>> => ~ lastPure
    <3>1. SUFFICES ASSUME reason = "none", pending # <<>> PROVE facts.tools
      BY <2>1 DEF Answered, PureLength
    <3>2. reply.calls # <<>>  BY <2>2, <3>1
    <3>3. (reply.calls # <<>>) = TRUE  BY <3>2
    <3>4. facts = Facts(rounds, reply.finish, reply.reasoning, reply.text, TRUE, TRUE)
      BY <2>1, <3>1, <3>3 DEF Answered
    <3> QED BY <3>4 DEF Facts
  <2> QED BY <2>1, <2>3 DEF Within, Answered, OwnFormatter, Facts, PureLength
<1>10. CASE CallSucceeds \/ CallRejected
  <2>1. /\ UNCHANGED <<model, rounds, kept, formatter, lastPure>>
        /\ pc = "tools" /\ pc' \in {"tools", "hook", "done"}
    BY <1>10 DEF CallSucceeds, CallRejected, history, requestPart, NextPlace
  <2> QED BY <2>1 DEF Within, Answered, OwnFormatter
<1>11. CASE NoToolStops
  <2>1. /\ UNCHANGED <<model, rounds, kept, formatter>> /\ pc = "idle" /\ pc' = "done"
    BY <1>11 DEF NoToolStops, requestPart
  <2> QED BY <2>1 DEF Within, Answered, OwnFormatter
<1>12. CASE NoToolRetried
  <2>1. /\ UNCHANGED <<model, rounds, formatter, lastPure>> /\ pc = "idle" /\ pc' = "loop"
        /\ kept' = IF ReasoningDelta THEN kept \cup {rounds} ELSE kept
    BY <1>12 DEF NoToolRetried, requestPart
  <2>2. ReasoningDelta <=> lastPure /\ model.history  BY <2>1, DeltaIsPure DEF PlaceInv
  <2>3. rounds \in 1 .. MaxRounds /\ rounds \notin kept
    BY <2>1, ContextFacts DEF Within
  <2> QED BY <2>1, <2>2, <2>3 DEF Within, Answered, OwnFormatter
<1> QED BY <1>1, <1>2, <1>3, <1>4, <1>5, <1>6, <1>7, <1>8, <1>9, <1>10, <1>11, <1>12 DEF Next

-----------------------------------------------------------------------------
(* How calls are conducted.                                                *)

LEMMA AttemptStep ==
  ASSUME TypeOK, AttemptInv, Next
  PROVE  AttemptInv'
<1> USE DEF AttemptInv, Goes, EndsAs
<1>1. CASE ReplyOpens \/ HookPasses \/ ContextCompressed \/ GuardStops \/ ModelCallStart
             \/ ReplyExceedsRounds \/ ModelCalled \/ RequestRefused
  BY <1>1 DEF ReplyOpens, HookPasses, ContextCompressed, GuardStops, ModelCallStart,
     ReplyExceedsRounds, ModelCalled, RequestRefused
<1>2. CASE AttemptStarts
  <2>1. outcomes' = Append(outcomes, "open") /\ outcomes \in Seq(Outcomes)
    BY <1>2 DEF AttemptStarts, TypeOK
  <2> QED BY <2>1
<1>3. CASE AttemptFails \/ CompletionReturns \/ StreamClosed
  BY <1>3 DEF AttemptFails, CompletionReturns, StreamClosed
<1>4. CASE StreamOpens  BY <1>4 DEF StreamOpens
<1>5. CASE StreamEnds \/ StreamStops
  <2>1. /\ outcomes \in Seq(Outcomes) /\ outcomes # <<>>
        /\ \E o \in Outcomes : outcomes' = Finish(o)
    BY <1>5 DEF StreamEnds, StreamStops, TypeOK, Outcomes
  <2> QED BY <2>1, FinishParts
<1>6. CASE CallSucceeds \/ CallRejected \/ NoToolStops \/ NoToolRetried
  BY <1>6 DEF CallSucceeds, CallRejected, NoToolStops, NoToolRetried, NextPlace
<1> QED BY <1>1, <1>2, <1>3, <1>4, <1>5, <1>6 DEF Next

(* Forced exactly on the last retry after retained reasoning.              *)
LEMMA ForcedStep ==
  ASSUME TypeOK, BudgetInv, ReasoningInv, ForcedAfterTheLastPureReply, Next
  PROVE  ForcedAfterTheLastPureReply'
<1> USE DEF ForcedAfterTheLastPureReply, Goes, EndsAs
<1>1. CASE ReplyOpens \/ HookPasses \/ ContextCompressed \/ GuardStops \/ ModelCallStart
             \/ ReplyExceedsRounds
  BY <1>1 DEF ReplyOpens, HookPasses, ContextCompressed, GuardStops, ModelCallStart,
     ReplyExceedsRounds
<1>2. CASE ModelCalled
  <2>1. forced' = ShouldForce /\ UNCHANGED <<model, rounds, noToolSeq, kept>> /\ pc = "call"
    BY <1>2 DEF ModelCalled, sessionPart, history
  <2>2. noToolSeq \in Nat /\ noToolSeq <= MaxNoToolRetries
    BY <2>1 DEF TypeOK, BudgetInv
  <2>3. noToolSeq >= MaxNoToolRetries <=> noToolSeq = MaxNoToolRetries  BY <2>2
  <2>4. rounds - 1 \in kept <=> lastPure /\ model.history
    BY <2>1 DEF ReasoningInv
  <2>5. model.history => model.phase = "schema" /\ ReasoningIsSent
    BY <2>1 DEF TypeOK, Models, ReasoningIsSent, OwnFormatter, ReasoningInv
  <2>6. ShouldForce <=> /\ model.extraBody = "none"
                        /\ noToolSeq = MaxNoToolRetries
                        /\ rounds - 1 \in kept
    BY <2>3, <2>4, <2>5 DEF ShouldForce, ReasoningIsSent
  <2> QED BY <2>1, <2>6
<1>3. CASE AttemptStarts \/ RequestRefused \/ AttemptFails \/ CompletionReturns
             \/ StreamOpens \/ StreamEnds
  <2>1. UNCHANGED <<model, rounds, noToolSeq, kept, forced, reason>> \/ pc' = "done"
    BY <1>3 DEF AttemptStarts, RequestRefused, AttemptFails, CompletionReturns, StreamOpens,
       StreamEnds, sessionPart, history
  <2>2. pc \in {"request", "attempt", "stream"}
    BY <1>3 DEF AttemptStarts, RequestRefused, AttemptFails, CompletionReturns, StreamOpens,
       StreamEnds
  <2> QED BY <2>1, <2>2
<1>4. CASE StreamStops \/ StreamClosed
  <2>1. UNCHANGED <<model, rounds, noToolSeq, kept, forced>> /\ pc \in {"stream", "closing"}
        /\ (reason' = "none" => reason = "none")
    BY <1>4 DEF StreamStops, StreamClosed, sessionPart, history
  <2> QED BY <2>1
<1>5. CASE CallSucceeds \/ CallRejected \/ NoToolStops \/ NoToolRetried
  BY <1>5 DEF CallSucceeds, CallRejected, NoToolStops, NoToolRetried, NextPlace
<1> QED BY <1>1, <1>2, <1>3, <1>4, <1>5 DEF Next

(* An attempt is left open only by what is still to come of its call.       *)
LEMMA AttemptsEndStep ==
  ASSUME TypeOK, AttemptInv, AttemptsEndWithTheirCall, Next
  PROVE  AttemptsEndWithTheirCall'
<1> USE DEF AttemptsEndWithTheirCall, Goes, EndsAs
<1>0. outcomes \in Seq(Outcomes)  BY DEF TypeOK
<1>1. CASE UNCHANGED outcomes /\ (pc \in {"attempt", "stream", "closing"}
                                   => pc' \in {"attempt", "stream", "closing"})
  BY <1>1
<1>2. CASE AttemptStarts
  <2>1. pc = "request" /\ pc' = "attempt" /\ outcomes' = Append(outcomes, "open")
    BY <1>2 DEF AttemptStarts
  <2>2. \A i \in 1 .. Len(outcomes) : outcomes[i] # "open"  BY <1>0, <2>1
  <2>3. Len(outcomes') = Len(outcomes) + 1
        /\ \A i \in 1 .. Len(outcomes) : outcomes'[i] = outcomes[i]
    BY <1>0, <2>1
  <2> QED BY <1>0, <2>1, <2>2, <2>3
<1>3. CASE \E o \in Outcomes : /\ outcomes' = Finish(o)
                               /\ outcomes # <<>>
                               /\ o # "open" \/ pc' \in {"attempt", "stream", "closing"}
  <2>1. PICK o \in Outcomes : /\ outcomes' = Finish(o) /\ outcomes # <<>>
                              /\ o # "open" \/ pc' \in {"attempt", "stream", "closing"}
    BY <1>3
  <2>2. /\ Len(outcomes') = Len(outcomes) /\ outcomes' \in Seq(Outcomes)
        /\ \A i \in 1 .. Len(outcomes) :
             outcomes'[i] = IF i = Len(outcomes) /\ outcomes[i] = "open" THEN o ELSE outcomes[i]
    BY <1>0, <2>1, FinishParts
  <2>3. \A i \in 1 .. Len(outcomes) : outcomes[i] = "open" => i = Len(outcomes)
    BY <1>0
  <2>4. \A i \in 1 .. Len(outcomes) :
          outcomes'[i] = "open" => i = Len(outcomes') /\ pc' \in {"attempt", "stream", "closing"}
    BY <2>1, <2>2, <2>3
  <2> QED BY <1>0, <2>2, <2>4
<1>4. CASE AttemptFails \/ CompletionReturns \/ StreamClosed \/ StreamEnds \/ StreamStops
  <2>1. outcomes # <<>>
    BY <1>4 DEF AttemptFails, CompletionReturns, StreamClosed, StreamEnds, StreamStops, AttemptInv
  <2>2. \E o \in Outcomes : /\ outcomes' = Finish(o)
                            /\ o # "open" \/ pc' \in {"attempt", "stream", "closing"}
    BY <1>4 DEF AttemptFails, CompletionReturns, StreamClosed, StreamEnds, StreamStops,
       ClosedAs, Outcomes
  <2> QED BY <1>3, <2>1, <2>2
<1>5. CASE ReplyOpens \/ HookPasses \/ ContextCompressed \/ GuardStops \/ ModelCallStart
             \/ ReplyExceedsRounds \/ ModelCalled \/ RequestRefused
  BY <1>1, <1>5 DEF ReplyOpens, HookPasses, ContextCompressed, GuardStops, ModelCallStart,
     ReplyExceedsRounds, ModelCalled, RequestRefused, requestPart
<1>6. CASE StreamOpens  BY <1>1, <1>6 DEF StreamOpens
<1>7. CASE CallSucceeds \/ CallRejected \/ NoToolStops \/ NoToolRetried
  BY <1>1, <1>7 DEF CallSucceeds, CallRejected, NoToolStops, NoToolRetried, requestPart
<1> QED BY <1>2, <1>4, <1>5, <1>6, <1>7 DEF Next

-----------------------------------------------------------------------------
(* The invariant, and what follows from it.                                *)

LEMMA InitTalk == Init => TalkInv
<1> SUFFICES ASSUME Init PROVE TalkInv  OBVIOUS
<1>1. TypeOK  BY InitTypes
<1>2. PlaceInv /\ BudgetInv /\ AttemptInv /\ CallsAreConducted
  BY DEF Init, PlaceInv, BudgetInv, AttemptInv, CallsAreConducted, ForcedAfterTheLastPureReply,
     AttemptsEndWithTheirCall, NoReply, Reply
<1>3. BlocksIn(ctx) = {}  BY DEF Init, BlocksIn
<1>4. ContextInv
  BY <1>3 DEF Init, ContextInv, Clean, Reasoned, Within, Asking, Answered
<1>5. ReasoningInv  BY DEF Init, ReasoningInv, Within, Answered
<1> QED BY <1>1, <1>2, <1>4, <1>5 DEF TalkInv

LEMMA NextTalk ==
  ASSUME TalkInv, Next
  PROVE  TalkInv'
<1>1. TypeOK /\ PlaceInv /\ BudgetInv /\ ContextInv /\ ReasoningInv /\ AttemptInv
      /\ ForcedAfterTheLastPureReply /\ AttemptsEndWithTheirCall
  BY DEF TalkInv, CallsAreConducted
<1>2. TypeOK' /\ PlaceInv' /\ BudgetInv' /\ ContextInv' /\ ReasoningInv' /\ AttemptInv'
  BY <1>1, TypeStep, PlaceStep, BudgetStep, ContextStep, ReasoningStep, AttemptStep
<1>3. CallsAreConducted'
  BY <1>1, ForcedStep, AttemptsEndStep DEF CallsAreConducted
<1> QED BY <1>2, <1>3 DEF TalkInv

LEMMA StutterTalk ==
  ASSUME TalkInv, UNCHANGED vars
  PROVE  TalkInv'
<1> USE DEF vars, sessionPart, contextPart, requestPart, history
<1>1. TypeOK' /\ PlaceInv' /\ BudgetInv' /\ AttemptInv'
  <2>1. TypeOK'  BY DEF TalkInv, TypeOK
  <2>2. PlaceInv' /\ BudgetInv' /\ AttemptInv'
    BY DEF TalkInv, PlaceInv, BudgetInv, AttemptInv
  <2> QED BY <2>1, <2>2
<1>2. ContextInv'
  BY ContextStill DEF TalkInv, Within, Asking, Answered
<1>3. ReasoningInv'
  BY DEF TalkInv, ReasoningInv, Within, Answered, OwnFormatter, Facts, FreshFacts, PureLength
<1>4. CallsAreConducted'
  BY DEF TalkInv, CallsAreConducted, ForcedAfterTheLastPureReply, AttemptsEndWithTheirCall
<1> QED BY <1>1, <1>2, <1>3, <1>4 DEF TalkInv

-----------------------------------------------------------------------------
(* What a reply says, in order.                                            *)
LEMMA ReplyInSequence ==
  ASSUME model \in Models, rounds \in 0 .. MaxRounds, NEW r \in Replies
  PROVE  /\ BlocksOf(r) \in Seq(BlockType)
         /\ InSequence(BlocksOf(r))
         /\ \A b \in ToSet(BlocksOf(r)) : b.round = rounds /\ b.kind \notin {"result"}
         /\ \A i \in DOMAIN CallsOf(r) :
              Block("call", CallsOf(r)[i].tool, CallId(i), "none") \in ToSet(BlocksOf(r))
<1> DEFINE said == IF r.reasoning THEN <<Block("thinking", "none", 0, "reply")>> ELSE <<>>
           text == IF r.text THEN <<Block("text", "none", 0, "none")>> ELSE <<>>
           calls == [i \in DOMAIN CallsOf(r) |->
                       Block("call", CallsOf(r)[i].tool, CallId(i), "none")]
           One(blocks, kind) ==
             /\ blocks \in Seq(BlockType) /\ InSequence(blocks)
             /\ \A b \in ToSet(blocks) : b.round = rounds /\ b.kind = kind
<1>1. One(<<>>, "thinking") /\ One(<<>>, "text")
  BY DEF InSequence, ToSet
<1>2. ASSUME NEW b \in BlockType, b.round = rounds, b.kind \notin {"call", "result"}
      PROVE  One(<<b>>, b.kind)
  <2>1. DOMAIN <<b>> = {1} /\ <<b>>[1] = b /\ ToSet(<<b>>) = {b}  BY DEF ToSet
  <2>2. <<b>> \in Seq(BlockType)  OBVIOUS
  <2> QED BY <1>2, <2>1, <2>2 DEF InSequence
<1>3. One(said, "thinking") /\ One(text, "text")
  <2> DEFINE a == Block("thinking", "none", 0, "reply")
             b == Block("text", "none", 0, "none")
  <2>1. /\ a \in BlockType /\ a.round = rounds /\ a.kind = "thinking"
        /\ b \in BlockType /\ b.round = rounds /\ b.kind = "text"
    BY DEF Block, BlockType
  <2> HIDE DEF a, b, One
  <2>2. One(<<a>>, "thinking") /\ One(<<b>>, "text")  BY <1>2, <2>1
  <2> QED BY <1>1, <2>2 DEF a, b
<1>4. CallsOf(r) \in Seq(CallType)  BY ReplyParts
<1>5. \A i \in DOMAIN CallsOf(r) : CallsOf(r)[i] \in CallType /\ i \in Nat /\ CallId(i) \in Nat
  <2>1. \A i \in DOMAIN CallsOf(r) : CallsOf(r)[i] \in CallType /\ i \in Nat  BY <1>4
  <2> QED BY <2>1, CallIds
<1>6. \A i \in DOMAIN CallsOf(r) :
        calls[i] = [kind |-> "call", tool |-> CallsOf(r)[i].tool, id |-> CallId(i),
                    note |-> "none", round |-> rounds]
  BY DEF Block
<1>7. calls \in Seq(BlockType)
  <2>1. \A i \in DOMAIN CallsOf(r) : calls[i] \in BlockType
    <3> SUFFICES ASSUME NEW i \in DOMAIN CallsOf(r) PROVE calls[i] \in BlockType  OBVIOUS
    <3> HIDE DEF calls
    <3>1. \A c \in CallType : c.tool \in {"submit", "test", "other"}  BY DEF CallType
    <3>2. CallsOf(r)[i].tool \in {"submit", "test", "other"} /\ CallId(i) \in Nat
      BY <1>5, <3>1
    <3>3. \A t \in {"submit", "test", "other"}, id \in Nat :
            [kind |-> "call", tool |-> t, id |-> id, note |-> "none", round |-> rounds] \in BlockType
      BY DEF BlockType
    <3>4. [kind |-> "call", tool |-> CallsOf(r)[i].tool, id |-> CallId(i),
           note |-> "none", round |-> rounds] \in BlockType
      BY <3>2, <3>3
    <3> QED BY <1>6, <3>4
  <2>2. calls \in [1 .. Len(CallsOf(r)) -> BlockType] /\ Len(CallsOf(r)) \in Nat
    BY <1>4, <2>1
  <2> QED BY <2>2
<1>8. DOMAIN calls = DOMAIN CallsOf(r)  OBVIOUS
<1>9. One(calls, "call")
  <2> HIDE DEF calls
  <2>1. \A b \in ToSet(calls) : b.round = rounds /\ b.kind = "call"
    BY <1>6, <1>8 DEF ToSet
  <2>2. InSequence(calls)
    <3> SUFFICES ASSUME NEW i \in DOMAIN calls, NEW j \in DOMAIN calls, i < j
                 PROVE  Precedes(calls[i], calls[j])
      BY DEF InSequence
    <3>1. i \in Nat /\ j \in Nat /\ CallId(i) < CallId(j)  BY <1>5, <1>8, CallIds
    <3>2. rounds <= rounds  OBVIOUS
    <3> QED BY <1>6, <1>8, <3>1, <3>2 DEF Precedes, IsSubmitResult
  <2> QED BY <1>7, <2>1, <2>2
<1>10. \A i \in DOMAIN CallsOf(r) :
         Block("call", CallsOf(r)[i].tool, CallId(i), "none") \in ToSet(calls)
  BY DEF ToSet
<1>11. BlocksOf(r) = said \o text \o calls  BY DEF BlocksOf
<1> HIDE DEF said, text, calls
<1>12. ASSUME NEW s, NEW t, s \in Seq(BlockType), t \in Seq(BlockType),
              InSequence(s), InSequence(t), \A b \in ToSet(s), d \in ToSet(t) : Precedes(b, d)
       PROVE  s \o t \in Seq(BlockType) /\ InSequence(s \o t)
              /\ ToSet(s \o t) = ToSet(s) \cup ToSet(t)
  <2>1. InSequence(s \o t) /\ s \o t \in Seq(BlockType)  BY <1>12, InSequenceConcat, Joined
  <2>2. ToSet(s \o t) = ToSet(s) \cup ToSet(t)  BY <1>12, BothSets
  <2> QED BY <2>1, <2>2
<1>13. \A b, d : b.round = rounds /\ d.round = rounds /\ b.kind # d.kind
                 /\ b.kind # "result" => Precedes(b, d)
  <2>1. rounds <= rounds  OBVIOUS
  <2> QED BY <2>1 DEF Precedes, IsSubmitResult
<1>14. /\ said \o text \in Seq(BlockType) /\ InSequence(said \o text)
       /\ ToSet(said \o text) = ToSet(said) \cup ToSet(text)
  <2>1. \A b \in ToSet(said), d \in ToSet(text) : Precedes(b, d)  BY <1>3, <1>13
  <2> QED BY <1>3, <1>12, <2>1
<1> DEFINE st == said \o text
<1>15. /\ st \o calls \in Seq(BlockType) /\ InSequence(st \o calls)
       /\ ToSet(st \o calls) = ToSet(said) \cup ToSet(text) \cup ToSet(calls)
  <2>1. \A b \in ToSet(st), d \in ToSet(calls) : Precedes(b, d)  BY <1>3, <1>9, <1>13, <1>14
  <2>2. st \in Seq(BlockType) /\ InSequence(st) /\ ToSet(st) = ToSet(said) \cup ToSet(text)
    BY <1>14
  <2> HIDE DEF st
  <2> QED BY <1>9, <1>12, <2>1, <2>2
<1> QED BY <1>3, <1>9, <1>10, <1>11, <1>15

LEMMA EndAdded ==
  ASSUME NEW s \in Seq(BlockType), NEW t \in Seq(BlockType), Answers(s), LatestIsWhole(s),
         \A b \in ToSet(t) : b.kind = "result" =>
           /\ b.note = "whole"
           /\ rejected[b.round] = 0 => \E c \in ToSet(s) :
                c.kind = "call" /\ c.id = b.id /\ c.tool = b.tool /\ c.round = b.round
  PROVE  Answers(s \o t) /\ LatestIsWhole(s \o t)
<1> DEFINE st == s \o t
<1>1. /\ DOMAIN st = 1 .. Len(s) + Len(t) /\ Len(s) \in Nat /\ Len(t) \in Nat
      /\ DOMAIN s = 1 .. Len(s) /\ DOMAIN t = 1 .. Len(t)
      /\ \A i \in 1 .. Len(s) : st[i] = s[i]
      /\ \A i \in 1 .. Len(t) : st[Len(s) + i] = t[i]
  OBVIOUS
<1>2. ToSet(st) = ToSet(s) \cup ToSet(t)  BY BothSets
<1> HIDE DEF st
<1>3. Answers(st)  BY <1>2 DEF Answers
<1>4. ASSUME NEW i \in DOMAIN st, IsSubmitResult(st[i]), st[i].note # "whole"
      PROVE  \E j \in DOMAIN st : j > i /\ IsSubmitResult(st[j]) /\ st[j].note = "whole"
  <2>1. i <= Len(s)
    <3> SUFFICES ASSUME i > Len(s) PROVE FALSE  BY <1>1
    <3> DEFINE k == i - Len(s)
    <3>1. k \in 1 .. Len(t) /\ i = Len(s) + k  BY <1>1
    <3> HIDE DEF k
    <3>2. st[i] = t[k] /\ t[k] \in ToSet(t)  BY <1>1, <3>1 DEF ToSet
    <3> QED BY <1>4, <3>2 DEF IsSubmitResult
  <2>2. i \in DOMAIN s /\ st[i] = s[i]  BY <1>1, <2>1
  <2>3. PICK j \in DOMAIN s : j > i /\ IsSubmitResult(s[j]) /\ s[j].note = "whole"
    BY <1>4, <2>2 DEF LatestIsWhole
  <2>4. j \in DOMAIN st /\ st[j] = s[j]  BY <1>1
  <2> QED BY <2>3, <2>4
<1>5. LatestIsWhole(st)  BY <1>4 DEF LatestIsWhole
<1> QED BY <1>3, <1>5 DEF st

(* What was already there: of the rounds so far, and a restore of before.   *)
LEMMA Rounded ==
  ASSUME TalkInv
  PROVE  /\ rounds \in Nat
         /\ pc # "done" => \A b \in BlocksIn(ctx) : b.round <= rounds /\ b.round \in Nat
         /\ Within => \A b \in BlocksIn(Restored(ctx)) : b.round < rounds
         /\ pc \in {"attempt", "stream"} =>
              \A b \in BlocksIn(ctx) : b.round < rounds
<1>1. rounds \in Nat  BY ConversationAssumption DEF TalkInv, TypeOK
<1>2. ASSUME pc # "done" PROVE \A b \in BlocksIn(ctx) : b.round <= rounds /\ b.round \in Nat
  <2>1. \A b \in BlocksIn(ctx) : b \in BlockType  BY BlockTypes DEF TalkInv, TypeOK
  <2>2. \A b \in BlockType : b.round \in Nat  BY ConversationAssumption DEF BlockType
  <2> QED BY <1>2, <2>1, <2>2 DEF TalkInv, ContextInv, Clean
<1>3. Within => \A b \in BlocksIn(Restored(ctx)) : b.round < rounds
  BY DEF TalkInv, ContextInv
<1>4. ASSUME pc \in {"attempt", "stream"} PROVE Restored(ctx) = ctx
  <2>1. ctx # <<>> /\ saved = Checkpoint(ctx) /\ ctx \in Seq(MessageType)
    BY <1>4 DEF TalkInv, ContextInv, TypeOK, Asking
  <2> QED BY <2>1, RestoredAtOnce
<1>5. pc \in {"attempt", "stream"} => Within  BY DEF Within
<1> QED BY <1>1, <1>2, <1>3, <1>4, <1>5

LEMMA SavedParts ==
  ASSUME TalkInv, Within
  PROVE  /\ ctx \in Seq(MessageType) /\ saved.last \in Seq(MessageType)
         /\ saved.length \in 1 .. Len(ctx) /\ Len(saved.last) = 1
  BY DEF TalkInv, TypeOK, ContextInv

(* What of the last message is the assistant's own.                         *)
LastSaid == IF ctx # <<>> /\ Last(ctx).role = "assistant" THEN Last(ctx).blocks ELSE <<>>

LEMMA LastSaidParts ==
  ASSUME ctx \in Seq(MessageType)
  PROVE  /\ LastSaid \in Seq(BlockType)
         /\ Consistent(ctx) => Answers(LastSaid) /\ LatestIsWhole(LastSaid)
         /\ \A new \in Seq(BlockType) :
              /\ Last(Said(ctx, new)).role = "assistant"
              /\ Last(Said(ctx, new)).blocks = LastSaid \o new
              /\ ToSet(LastSaid \o new) = ToSet(LastSaid) \cup ToSet(new)
<1>1. CASE ctx # <<>> /\ Last(ctx).role = "assistant"
  <2>1. Len(ctx) \in DOMAIN ctx /\ LastSaid = Last(ctx).blocks  BY <1>1 DEF LastSaid
  <2>2. LastSaid \in Seq(BlockType)  BY <1>1, <2>1, LastBlocks
  <2>3. Consistent(ctx) => Answers(LastSaid) /\ LatestIsWhole(LastSaid)
    BY <1>1, <2>1 DEF Consistent, Last
  <2>4. ASSUME NEW new \in Seq(BlockType)
        PROVE  /\ Last(Said(ctx, new)).role = "assistant"
               /\ Last(Said(ctx, new)).blocks = LastSaid \o new
               /\ ToSet(LastSaid \o new) = ToSet(LastSaid) \cup ToSet(new)
    <3>1. ToSet(LastSaid \o new) = ToSet(LastSaid) \cup ToSet(new)  BY <2>2, BothSets
    <3> QED BY <1>1, <2>1, <3>1, SaidBlocks
  <2> QED BY <2>2, <2>3, <2>4
<1>2. CASE ~ (ctx # <<>> /\ Last(ctx).role = "assistant")
  <2>1. LastSaid = <<>>  BY <1>2 DEF LastSaid
  <2>2. ToSet(<<>>) = {} /\ DOMAIN <<>> = {} /\ <<>> \in Seq(BlockType)  BY DEF ToSet
  <2>3. LastSaid \in Seq(BlockType) /\ Answers(LastSaid) /\ LatestIsWhole(LastSaid)
    BY <2>1, <2>2 DEF Answers, LatestIsWhole
  <2>4. ASSUME NEW new \in Seq(BlockType)
        PROVE  /\ Last(Said(ctx, new)).role = "assistant"
               /\ Last(Said(ctx, new)).blocks = LastSaid \o new
               /\ ToSet(LastSaid \o new) = ToSet(LastSaid) \cup ToSet(new)
    <3>1. LastSaid \o new = new  BY <2>1
    <3>2. ToSet(LastSaid \o new) = ToSet(LastSaid) \cup ToSet(new)  BY <2>3, BothSets
    <3> QED BY <1>2, <3>1, <3>2, SaidBlocks
  <2> QED BY <2>3, <2>4
<1> QED BY <1>1, <1>2

(* A reply is added to a consistent context.                                *)
LEMMA DeliveredConsistent ==
  ASSUME TalkInv, HistoryInv, pc \in {"attempt", "stream"}, NEW r \in Replies,
         ctx' = Said(ctx, BlocksOf(r))
  PROVE  /\ ctx' \in Seq(MessageType) /\ Restored(ctx') = Restored(ctx)
         /\ Steady => Consistent(ctx')
         /\ Last(ctx').role = "assistant"
         /\ \A i \in DOMAIN CallsOf(r) :
              Block("call", CallsOf(r)[i].tool, CallId(i), "none") \in ToSet(Last(ctx').blocks)
         /\ \A b \in BlocksIn(ctx') : b.kind = "result" => b.round # rounds
<1> DEFINE new == BlocksOf(r)
<1>1. /\ new \in Seq(BlockType) /\ InSequence(new)
      /\ \A b \in ToSet(new) : b.round = rounds /\ b.kind # "result"
      /\ \A i \in DOMAIN CallsOf(r) :
           Block("call", CallsOf(r)[i].tool, CallId(i), "none") \in ToSet(new)
  BY ReplyInSequence DEF TalkInv, TypeOK
<1>2. Within /\ pc # "done"  BY DEF Within
<1>3. ctx \in Seq(MessageType)  BY DEF TalkInv, TypeOK
<1>4. rounds \in Nat /\ \A b \in BlocksIn(ctx) : b.round < rounds /\ b.round \in Nat
  BY <1>2, Rounded
<1> HIDE DEF new
<1>5. \A b \in BlocksIn(ctx), e \in ToSet(new) : Precedes(b, e)
  BY <1>1, <1>4 DEF Precedes, IsSubmitResult
<1>6. /\ Last(Said(ctx, new)).role = "assistant"
      /\ Last(Said(ctx, new)).blocks = LastSaid \o new
      /\ ToSet(LastSaid \o new) = ToSet(LastSaid) \cup ToSet(new)
      /\ LastSaid \in Seq(BlockType)
  BY <1>1, <1>3, LastSaidParts
<1>7. ASSUME Steady PROVE Consistent(Said(ctx, new))
  <2>1. Consistent(ctx)  BY <1>2, <1>7 DEF HistoryInv
  <2>2. Answers(LastSaid) /\ LatestIsWhole(LastSaid)  BY <1>3, <2>1, LastSaidParts
  <2>3. Answers(LastSaid \o new) /\ LatestIsWhole(LastSaid \o new)
    BY <1>1, <1>6, <2>2, EndAdded
  <2> QED BY <1>1, <1>3, <1>5, <1>6, <2>1, <2>3, SaidConsistent
<1>8. Restored(Said(ctx, new)) = Restored(ctx)
  BY <1>1, <1>2, SavedParts, RestoredAfterSaid
<1>9. /\ Said(ctx, new) \in Seq(MessageType)
      /\ BlocksIn(Said(ctx, new)) = BlocksIn(ctx) \cup ToSet(new)
  BY <1>1, <1>3, SaidParts
<1>10. \A b \in BlocksIn(Said(ctx, new)) : b.kind = "result" => b.round # rounds
  BY <1>1, <1>4, <1>9
<1>11. ctx' = Said(ctx, new)  BY DEF new
<1> QED BY <1>1, <1>6, <1>7, <1>8, <1>9, <1>10, <1>11

(* So is the result of a call: to the message of the call, unless that was  *)
(* removed.                                                                *)
LEMMA ResultConsistent ==
  ASSUME TalkInv, HistoryInv, pc = "tools"
  PROVE  /\ Steady => Consistent(WithResult)
         /\ Restored(WithResult) = Restored(ctx)
         /\ WithResult \in Seq(MessageType)
         /\ saved.length \in 1 .. Len(WithResult)
         /\ Blocks(WithResult) = Blocks(ctx) \o <<ResultOf(Head(pending))>>
         /\ ResultOf(Head(pending)) \in BlockType
         /\ ResultOf(Head(pending)).id = CallId(Position)
         /\ BlocksIn(WithResult) = BlocksIn(ctx) \cup {ResultOf(Head(pending))}
         /\ rejected[rounds] = 0 =>
              /\ Last(WithResult).role = "assistant"
              /\ ToSet(Last(WithResult).blocks)
                   = ToSet(Last(ctx).blocks) \cup {ResultOf(Head(pending))}
<1> DEFINE b == ResultOf(Head(pending))
           new == <<b>>
<1>1. TypeOK /\ PlaceInv /\ pending # <<>> /\ Within /\ pc # "done"
  BY DEF TalkInv, PlaceInv, Within
<1>2. /\ WithResult \in Seq(MessageType) /\ Len(WithResult) >= Len(ctx)
      /\ BlocksIn(WithResult) = BlocksIn(ctx) \cup {b}
      /\ b \in BlockType /\ b.round = rounds /\ b.note = "whole" /\ b.kind = "result"
      /\ b.id = CallId(Position)
  BY <1>1, ResultParts
<1>3. b.tool = Head(pending).tool  BY DEF ResultOf, Block
<1>4. /\ ctx \in Seq(MessageType) /\ saved.last \in Seq(MessageType)
      /\ saved.length \in 1 .. Len(ctx) /\ Len(saved.last) = 1
  BY <1>1, SavedParts
<1>5. /\ pending = SubSeq(reply.calls, Position, Len(reply.calls))
      /\ rejected[rounds] = 0 =>
           /\ Last(ctx).role = "assistant"
           /\ \A i \in DOMAIN reply.calls :
                Block("call", reply.calls[i].tool, CallId(i), "none") \in ToSet(Last(ctx).blocks)
      /\ \A a \in BlocksIn(ctx) : a.kind = "result" /\ a.round = rounds => a.id < CallId(Position)
  BY <1>1 DEF HistoryInv, PendingInv
<1>6. Position \in 1 .. Len(reply.calls) /\ Head(pending) = reply.calls[Position]
  <2>1. pending \in Seq(CallType) /\ reply.calls \in Seq(CallType)  BY <1>1 DEF TypeOK
  <2>2. Position \in 1 .. Len(reply.calls)  BY <1>1, Positions
  <2> HIDE DEF b
  <2>3. SubSeq(reply.calls, Position, Len(reply.calls))[1] = reply.calls[Position]
    <3> DEFINE p == Position
               cs == reply.calls
    <3>1. p \in 1 .. Len(cs) /\ cs \in Seq(CallType)  BY <2>1, <2>2
    <3> HIDE DEF p, cs
    <3>2. SubSeq(cs, p, Len(cs))[1] = cs[p]  BY <3>1
    <3> QED BY <3>2 DEF p, cs
  <2>4. Head(pending) = pending[1]  BY <1>1, <2>1
  <2> QED BY <1>5, <2>2, <2>3, <2>4
<1>7. ASSUME rejected[rounds] = 0
      PROVE  /\ LastSaid = Last(ctx).blocks
             /\ Block("call", b.tool, b.id, "none") \in ToSet(LastSaid)
  <2>1. ctx # <<>>  BY <1>4
  <2>2. LastSaid = Last(ctx).blocks  BY <1>5, <1>7, <2>1 DEF LastSaid
  <2>3. Position \in DOMAIN reply.calls  BY <1>1, <1>6 DEF TypeOK
  <2> HIDE DEF b
  <2>4. Block("call", reply.calls[Position].tool, CallId(Position), "none")
          \in ToSet(Last(ctx).blocks)
    BY <1>5, <1>7, <2>3
  <2> QED BY <1>2, <1>3, <1>6, <2>2, <2>4
<1>8. rounds \in Nat /\ \A a \in BlocksIn(ctx) : a.round <= rounds /\ a.round \in Nat
  BY <1>1, Rounded
<1>9. WithResult = Said(ctx, new)  BY DEF WithResult
<1> HIDE DEF b
<1>10. new \in Seq(BlockType) /\ ToSet(new) = {b} /\ InSequence(new)
  <2>1. DOMAIN new = {1} /\ new[1] = b /\ new \in Seq(BlockType)  BY <1>2
  <2> QED BY <2>1 DEF ToSet, InSequence
<1> HIDE DEF new
<1>11. \A a \in BlocksIn(ctx), e \in ToSet(new) : Precedes(a, e)
  BY <1>2, <1>5, <1>8, <1>10 DEF Precedes
<1>12. /\ Last(Said(ctx, new)).role = "assistant"
       /\ Last(Said(ctx, new)).blocks = LastSaid \o new
       /\ ToSet(LastSaid \o new) = ToSet(LastSaid) \cup {b}
       /\ LastSaid \in Seq(BlockType)
  BY <1>4, <1>10, LastSaidParts
<1>13. Blocks(Said(ctx, new)) = Blocks(ctx) \o new  BY <1>4, <1>10, SaidBlocks
<1>14. ASSUME Steady PROVE Consistent(Said(ctx, new))
  <2>1. Consistent(ctx)  BY <1>1, <1>14 DEF HistoryInv
  <2>2. Answers(LastSaid) /\ LatestIsWhole(LastSaid)  BY <1>4, <2>1, LastSaidParts
  <2>3. rejected[rounds] = 0 =>
          \E c \in ToSet(LastSaid) :
            c.kind = "call" /\ c.id = b.id /\ c.tool = b.tool /\ c.round = b.round
    BY <1>2, <1>7 DEF Block
  <2>4. Answers(LastSaid \o new) /\ LatestIsWhole(LastSaid \o new)
    BY <1>2, <1>10, <1>12, <2>2, <2>3, EndAdded
  <2> QED BY <1>4, <1>10, <1>11, <1>12, <2>1, <2>4, SaidConsistent
<1>15. Restored(Said(ctx, new)) = Restored(ctx)  BY <1>4, <1>10, RestoredAfterSaid
<1>16. saved.length \in 1 .. Len(WithResult)
  <2>1. Len(ctx) \in Nat /\ Len(WithResult) \in Nat  BY <1>2, <1>4
  <2> QED BY <1>2, <1>4, <2>1
<1>17. rejected[rounds] = 0 =>
         ToSet(Last(WithResult).blocks) = ToSet(Last(ctx).blocks) \cup {b}
  BY <1>7, <1>9, <1>12
<1> QED BY <1>2, <1>9, <1>12, <1>13, <1>14, <1>15, <1>16, <1>17 DEF b, new

(* Collapsed for a later one in full: what CollapsedHasASuccessor asks.     *)
Succeeded(before, after) ==
  \A i \in SubmitResults(before) \cap SubmitResults(after) :
    before[i].note = "whole" /\ after[i].note = "superseded" =>
      \E j \in SubmitResults(after) : j > i /\ after[j].note = "whole"

LEMMA SameSucceeded ==
  ASSUME NEW s
  PROVE  Succeeded(s, s)
  BY DEF Succeeded

LEMMA LongerSucceeded ==
  ASSUME NEW s \in Seq(BlockType), NEW t \in Seq(BlockType)
  PROVE  Succeeded(s, s \o t)
<1>1. \A i \in DOMAIN s : (s \o t)[i] = s[i]  OBVIOUS
<1> QED BY <1>1 DEF Succeeded, SubmitResults

(* A late result has no call in the context, and compaction is skipped.     *)
LEMMA NoStrays ==
  ASSUME NEW c \in Seq(MessageType), ~ Ambiguous(c), NEW L,
         model.reusesIds => L = {},
         \A b \in BlocksIn(c) : CleanBlock(b, rounds, rejected, L)
  PROVE  NoStray(c)
<1> DEFINE B == Blocks(c)
<1>1. B \in Seq(BlockType) /\ ToSet(B) = BlocksIn(c)  BY FlatBlocks
<1>2. IdsOf(c, "call") = IdsOf(c, "result")  BY DEF Ambiguous
<1> SUFFICES ASSUME NEW b \in BlocksIn(c), IsSubmitResult(b), rejected[b.round] # 0
             PROVE  FALSE
  BY DEF NoStray
<1>3. CleanBlock(b, rounds, rejected, L) /\ b \in BlockType  BY BlockTypes
<1>4. b.round \in L /\ ~ model.reusesIds  BY <1>3 DEF CleanBlock, IsSubmitResult
<1>5. b.id \in IdsOfRound(b.round)  BY <1>3, <1>4 DEF CleanBlock, IsSubmitResult
<1>6. PICK j \in DOMAIN B : b = B[j]  BY <1>1 DEF ToSet
<1>7. b.id \in IdsOf(c, "result")  BY <1>6 DEF IdsOf, Of, IsSubmitResult
<1>8. PICK i \in Of(c, "call") : B[i].id = b.id  BY <1>2, <1>7 DEF IdsOf
<1> DEFINE a == B[i]
<1>9. a.kind = "call" /\ a \in BlocksIn(c) /\ a.id = b.id  BY <1>1, <1>8 DEF Of, ToSet
<1> HIDE DEF a
<1>10. CleanBlock(a, rounds, rejected, L) /\ a \in BlockType  BY <1>9, BlockTypes
<1>11. a.id \in IdsOfRound(a.round)  BY <1>4, <1>9, <1>10 DEF CleanBlock
<1>12. a.round = b.round
  <2>1. a.round \in Nat /\ b.round \in Nat  BY <1>3, <1>10 DEF BlockType
  <2> QED BY <1>5, <1>9, <1>11, <2>1, IdsApart
<1>13. rejected[a.round] = 0  BY <1>9, <1>10 DEF CleanBlock
<1> QED BY <1>12, <1>13

(* A compaction changes nothing but notes.                                 *)
LEMMA CompactedLast ==
  ASSUME NEW c \in Seq(MessageType), NEW count
  PROVE  LET d == Compacted(c, count)
         IN  /\ d \in Seq(MessageType) /\ Len(d) = Len(c)
             /\ \A b \in BlocksIn(d) : \E a \in BlocksIn(c) : SameButNote(b, a)
             /\ c # <<>> =>
                  /\ Last(d).role = Last(c).role
                  /\ \A a \in ToSet(Last(c).blocks) :
                       a.kind = "call" => a \in ToSet(Last(d).blocks)
<1> DEFINE d == Compacted(c, count)
           S == Superseded(c)
           B == Blocks(c)
           D == Collapsed(B, S)
<1>1. CASE model.phase = "ttp" /\ MayCompact(c, count)
  <2>1. d = Collapse(c, S)  BY <1>1 DEF Compacted
  <2>4. /\ d \in Seq(MessageType) /\ Len(d) = Len(c)
        /\ \A i \in 1 .. Len(c) :
             d[i] = [role |-> c[i].role, blocks |-> Collapsed(c[i].blocks, S)]
    <3> HIDE DEF S
    <3> QED BY <2>1, CollapseMessages
  <2>5. Blocks(d) = D
    <3> HIDE DEF S
    <3> QED BY <2>1, CollapsedBlocks
  <2> HIDE DEF S, d
  <2>7. ASSUME NEW b \in BlocksIn(d) PROVE \E a \in BlocksIn(c) : SameButNote(b, a)
    <3>1. B \in Seq(BlockType) /\ ToSet(B) = BlocksIn(c) /\ ToSet(D) = BlocksIn(d)
      BY <2>4, <2>5, FlatBlocks
    <3> HIDE DEF B, D
    <3>2. D = Collapsed(B, S)  BY DEF D
    <3>3. PICK j \in 1 .. Len(B) : b = D[j]  BY <3>1, <3>2, CollapsedTypes DEF ToSet
    <3>4. SameButNote(b, B[j])  BY <3>1, <3>2, <3>3, CollapsedFields
    <3>5. B[j] \in BlocksIn(c)  BY <3>1 DEF ToSet
    <3> QED BY <3>4, <3>5
  <2>8. ASSUME c # <<>>
        PROVE  /\ Last(d).role = Last(c).role
               /\ \A a \in ToSet(Last(c).blocks) :
                    a.kind = "call" => a \in ToSet(Last(d).blocks)
    <3> DEFINE l == Last(c)
               m == Last(d)
    <3>1. Len(c) \in 1 .. Len(c) /\ l \in MessageType /\ l.blocks \in Seq(BlockType)
      <4>1. Len(c) \in 1 .. Len(c)  BY <2>8
      <4>2. Last(c) \in MessageType /\ Last(c).blocks \in Seq(BlockType)  BY <2>8, LastBlocks
      <4> QED BY <4>1, <4>2
    <3>2. m = [role |-> l.role, blocks |-> Collapsed(l.blocks, S)]  BY <2>4, <3>1 DEF Last
    <3> HIDE DEF l, m
    <3>3. m.role = l.role /\ m.blocks = Collapsed(l.blocks, S)  BY <3>2
    <3>4. ASSUME NEW a \in ToSet(l.blocks), a.kind = "call" PROVE a \in ToSet(m.blocks)
      <4>1. PICK j \in 1 .. Len(l.blocks) : a = l.blocks[j]  BY <3>1 DEF ToSet
      <4>2. SameButNote(Collapsed(l.blocks, S)[j], l.blocks[j])  BY <3>1, CollapsedFields
      <4>3. Collapsed(l.blocks, S)[j] = a
        BY <3>4, <4>1, <4>2 DEF SameButNote, IsSubmitResult
      <4>4. j \in DOMAIN Collapsed(l.blocks, S)  BY <3>1, CollapsedTypes
      <4> QED BY <3>3, <4>3, <4>4 DEF ToSet
    <3> QED BY <3>3, <3>4 DEF l, m
  <2> QED BY <2>4, <2>7, <2>8 DEF d
<1>2. CASE ~ (model.phase = "ttp" /\ MayCompact(c, count))
  <2>1. d = c  BY <1>2 DEF Compacted
  <2>2. \A b : SameButNote(b, b)  BY DEF SameButNote
  <2> QED BY <2>1, <2>2
<1> QED BY <1>1, <1>2

(* It leaves a consistent context consistent, and each result it collapses  *)
(* with a successor.                                                       *)
LEMMA CompactedConsistent ==
  ASSUME NEW c \in Seq(MessageType), Consistent(c), NEW count, NEW L,
         model.reusesIds => L = {},
         \A b \in BlocksIn(c) : CleanBlock(b, rounds, rejected, L)
  PROVE  LET d == Compacted(c, count)
         IN  Consistent(d) /\ Succeeded(Blocks(c), Blocks(d))
<1> DEFINE d == Compacted(c, count)
           S == Superseded(c)
           B == Blocks(c)
           D == Collapsed(B, S)
<1>1. CASE model.phase = "ttp" /\ MayCompact(c, count)
  <2>1. d = Collapse(c, S) /\ ~ Ambiguous(c)  BY <1>1 DEF Compacted, MayCompact
  <2>2. NoStray(c)  BY <2>1, NoStrays
  <2>3. Consistent(d)  BY <2>1, <2>2, CollapseConsistent
  <2>4. \A q \in SubmitResults(B) : B[q].note = "whole" /\ D[q].note = "superseded" =>
          \E k \in SubmitResults(D) : k > q /\ D[k].note = "whole"
    BY <2>1, <2>2, CollapsedInSequence DEF Consistent
  <2>5. Blocks(d) = D
    <3> HIDE DEF S
    <3> QED BY <2>1, CollapsedBlocks
  <2>6. Succeeded(B, Blocks(d))  BY <2>4, <2>5 DEF Succeeded
  <2> QED BY <2>3, <2>6
<1>2. CASE ~ (model.phase = "ttp" /\ MayCompact(c, count))
  <2>1. d = c  BY <1>2 DEF Compacted
  <2> QED BY <2>1, SameSucceeded
<1> QED BY <1>1, <1>2

LEMMA CompactedRestored ==
  ASSUME NEW c \in Seq(MessageType), Consistent(c), NEW count, Consistent(Restored(c)), NEW L,
         model.reusesIds => L = {},
         \A b \in BlocksIn(c) : CleanBlock(b, rounds, rejected, L),
         saved.last \in Seq(MessageType), saved.length \in 1 .. Len(c), Len(saved.last) = 1
  PROVE  Consistent(Restored(Compacted(c, count)))
<1>1. CASE model.phase = "ttp" /\ MayCompact(c, count)
  <2>1. Compacted(c, count) = Collapse(c, Superseded(c)) /\ ~ Ambiguous(c)
    BY <1>1 DEF Compacted, MayCompact
  <2>2. NoStray(c)  BY <2>1, NoStrays
  <2> QED BY <2>1, <2>2, RestoredConsistent
<1>2. CASE ~ (model.phase = "ttp" /\ MayCompact(c, count))
  BY <1>2 DEF Compacted
<1> QED BY <1>1, <1>2

(* What a restore collapses comes back with the last message.               *)
LEMMA RestoredSucceeded ==
  ASSUME NEW c \in Seq(MessageType), Consistent(Restored(c)), NEW t \in Seq(BlockType),
         \A b \in ToSet(t) : b.kind # "result",
         saved.last \in Seq(MessageType), saved.length \in 1 .. Len(c), Len(saved.last) = 1
  PROVE  Succeeded(Blocks(c), Blocks(Restored(c)) \o t)
<1> DEFINE P == Blocks(SubSeq(c, 1, saved.length - 1))
           L == saved.last[1].blocks
           n == Len(P)
           D == P \o L \o t
<1>1. /\ L \in Seq(BlockType) /\ Blocks(Restored(c)) = P \o L
      /\ SubSeq(c, 1, saved.length - 1) \in Seq(MessageType)
      /\ Restored(c) # <<>> /\ Last(Restored(c)) = saved.last[1]
  BY RestoredBlocks
<1>2. P \in Seq(BlockType)  BY <1>1, FlatBlocks
<1>3. PICK u \in Seq(BlockType) : Blocks(c) = P \o u
  <2>1. saved.length - 1 \in 0 .. Len(c)  OBVIOUS
  <2> QED BY <2>1, FirstBlocks
<1>4. LatestIsWhole(L)  BY <1>1 DEF Consistent
<1> HIDE DEF P, L
<1>5. /\ DOMAIN D = 1 .. Len(P) + Len(L) + Len(t)
      /\ Len(P) \in Nat /\ Len(L) \in Nat /\ Len(t) \in Nat
      /\ DOMAIN L = 1 .. Len(L) /\ DOMAIN P = 1 .. Len(P)
      /\ \A i \in 1 .. Len(P) : D[i] = P[i]
      /\ \A i \in 1 .. Len(L) : D[Len(P) + i] = L[i]
      /\ \A i \in 1 .. Len(t) : D[Len(P) + Len(L) + i] = t[i]
  <2> DEFINE s == P \o L
  <2>1. /\ s \in Seq(BlockType) /\ Len(s) = Len(P) + Len(L)
        /\ \A i \in 1 .. Len(P) : s[i] = P[i]
        /\ \A i \in 1 .. Len(L) : s[Len(P) + i] = L[i]
    BY <1>1, <1>2, Joined
  <2> HIDE DEF s
  <2>2. /\ s \o t \in Seq(BlockType) /\ Len(s \o t) = Len(s) + Len(t)
        /\ \A i \in 1 .. Len(s) : (s \o t)[i] = s[i]
        /\ \A i \in 1 .. Len(t) : (s \o t)[Len(s) + i] = t[i]
    <3>1. s \in Seq(BlockType)  BY <2>1
    <3> QED BY <3>1
  <2>3. D = s \o t  BY DEF s
  <2>4. Len(P) \in Nat /\ Len(L) \in Nat /\ Len(t) \in Nat
        /\ DOMAIN L = 1 .. Len(L) /\ DOMAIN P = 1 .. Len(P)
    BY <1>1, <1>2
  <2> HIDE DEF D
  <2>5. DOMAIN D = 1 .. Len(P) + Len(L) + Len(t)  BY <2>1, <2>2, <2>3, <2>4
  <2>6. \A i \in 1 .. Len(P) : D[i] = P[i]
    <3> SUFFICES ASSUME NEW i \in 1 .. Len(P) PROVE D[i] = P[i]  OBVIOUS
    <3>1. i \in 1 .. Len(s) /\ s[i] = P[i]  BY <2>1, <2>4
    <3> QED BY <2>2, <2>3, <3>1
  <2>7. \A i \in 1 .. Len(L) : D[Len(P) + i] = L[i]
    <3> SUFFICES ASSUME NEW i \in 1 .. Len(L) PROVE D[Len(P) + i] = L[i]  OBVIOUS
    <3>1. Len(P) + i \in 1 .. Len(s) /\ s[Len(P) + i] = L[i]  BY <2>1, <2>4
    <3> QED BY <2>2, <2>3, <3>1
  <2>8. \A i \in 1 .. Len(t) : D[Len(P) + Len(L) + i] = t[i]  BY <2>1, <2>2, <2>3
  <2> QED BY <2>4, <2>5, <2>6, <2>7, <2>8
<1>6. \A i \in 1 .. Len(P) : (P \o u)[i] = P[i]  BY <1>2
<1> HIDE DEF D
<1>7. ASSUME NEW i \in SubmitResults(P \o u) \cap SubmitResults(D),
             (P \o u)[i].note = "whole", D[i].note = "superseded"
      PROVE  \E j \in SubmitResults(D) : j > i /\ D[j].note = "whole"
  <2>1. i \in 1 .. Len(P) + Len(L) + Len(t) /\ IsSubmitResult(D[i])  BY <1>5 DEF SubmitResults
  <2>2. i > Len(P)
    <3> SUFFICES ASSUME i <= Len(P) PROVE FALSE  BY <1>5, <2>1
    <3>1. i \in 1 .. Len(P)  BY <1>5, <2>1
    <3>2. D[i] = (P \o u)[i]  BY <1>5, <1>6, <3>1
    <3> QED BY <1>7, <3>2
  <2>3. i <= Len(P) + Len(L)
    <3> SUFFICES ASSUME i > Len(P) + Len(L) PROVE FALSE  BY <1>5, <2>1
    <3> DEFINE k == i - (Len(P) + Len(L))
    <3>1. k \in 1 .. Len(t) /\ i = Len(P) + Len(L) + k  BY <1>5, <2>1
    <3> HIDE DEF k
    <3>2. D[i] = t[k] /\ t[k] \in ToSet(t)  BY <1>5, <3>1 DEF ToSet
    <3> QED BY <2>1, <3>2 DEF IsSubmitResult
  <2> DEFINE k == i - Len(P)
  <2>4. k \in 1 .. Len(L) /\ i = Len(P) + k  BY <1>5, <2>1, <2>2, <2>3
  <2> HIDE DEF k
  <2>5. D[i] = L[k]  BY <1>5, <2>4
  <2>6. PICK l \in 1 .. Len(L) : l > k /\ IsSubmitResult(L[l]) /\ L[l].note = "whole"
    BY <1>4, <1>5, <1>7, <2>1, <2>4, <2>5 DEF LatestIsWhole
  <2>7. Len(P) + l \in DOMAIN D /\ D[Len(P) + l] = L[l] /\ Len(P) + l > i
    BY <1>5, <2>4, <2>6
  <2> QED BY <2>6, <2>7 DEF SubmitResults
<1>8. Succeeded(P \o u, D)  BY <1>7 DEF Succeeded
<1> QED BY <1>1, <1>3, <1>8 DEF D

-----------------------------------------------------------------------------
(* The context's history, action by action.                                *)

(* Consistent, in terms of the rejections.                                  *)
AnswersFor(blocks, rejects) ==
  \A b \in ToSet(blocks) :
    b.kind = "result" /\ rejects[b.round] = 0 =>
      \E c \in ToSet(blocks) :
        c.kind = "call" /\ c.id = b.id /\ c.tool = b.tool /\ c.round = b.round
ConsistentFor(c, rejects) ==
  /\ InSequence(Blocks(c))
  /\ \A i \in DOMAIN c : AnswersFor(c[i].blocks, rejects)
  /\ c # <<>> => LatestIsWhole(Last(c).blocks)

(* A rejection asks less of it, not more.                                  *)
LEMMA FewerAnswers ==
  ASSUME NEW c \in Seq(MessageType), NEW f, NEW g, ConsistentFor(c, f),
         \A r \in 0 .. MaxRounds : g[r] = 0 => f[r] = 0
  PROVE  ConsistentFor(c, g)
<1> SUFFICES ASSUME NEW i \in DOMAIN c PROVE AnswersFor(c[i].blocks, g)
  BY DEF ConsistentFor
<1>1. AnswersFor(c[i].blocks, f) /\ c[i] \in MessageType  BY DEF ConsistentFor
<1>2. c[i].blocks \in Seq(BlockType)  BY <1>1 DEF MessageType
<1>3. \A b \in ToSet(c[i].blocks) : b.round \in 0 .. MaxRounds
  <2>1. \A b \in BlockType : b.round \in 0 .. MaxRounds  BY DEF BlockType
  <2>2. \A j \in DOMAIN c[i].blocks : c[i].blocks[j] \in BlockType  BY <1>2
  <2> QED BY <2>1, <2>2 DEF ToSet
<1> QED BY <1>1, <1>3 DEF AnswersFor

LEMMA ConsistentThen ==
  ASSUME \A r \in 0 .. MaxRounds : rejected'[r] = 0 => rejected[r] = 0
  PROVE  /\ ctx' \in Seq(MessageType) /\ Consistent(ctx') => Consistent(ctx)'
         /\ saved' = saved /\ Restored(ctx') \in Seq(MessageType) /\ Consistent(Restored(ctx'))
              => Consistent(Restored(ctx))'
<1>1. \A c : Consistent(c) <=> ConsistentFor(c, rejected)
  BY DEF Consistent, ConsistentFor, Answers, AnswersFor
<1>2. Consistent(ctx)' <=> ConsistentFor(ctx', rejected')
  BY DEF Consistent, ConsistentFor, Answers, AnswersFor, Blocks, InSequence, Precedes,
     IsSubmitResult, LatestIsWhole, Last, ToSet
<1>3. ASSUME saved' = saved
      PROVE  Consistent(Restored(ctx))' <=> ConsistentFor(Restored(ctx'), rejected')
  <2>1. Restored(ctx)' = Restored(ctx')  BY <1>3 DEF Restored
  <2> QED BY <2>1
     DEF Consistent, ConsistentFor, Answers, AnswersFor, Blocks, InSequence, Precedes,
         IsSubmitResult, LatestIsWhole, Last, ToSet
<1> QED BY <1>1, <1>2, <1>3, FewerAnswers

(* What is steady after a step was so before it.                           *)
LEMMA SteadyBefore ==
  ASSUME model' = model, late \subseteq late', Steady'
  PROVE  Steady
  BY DEF Steady

(* The parts of the history, put together after a step.                    *)
LEMMA HistoryThen ==
  ASSUME TalkInv', \A r \in 0 .. MaxRounds : rejected'[r] = 0 => rejected[r] = 0,
         pc' # "done" => PendingInv',
         Steady' /\ pc' # "done" => Consistent(ctx'),
         Steady' /\ Within' => \/ Consistent(Restored(ctx))'
                               \/ saved' = saved /\ Consistent(Restored(ctx'))
  PROVE  HistoryInv'
<1>1. ctx' \in Seq(MessageType) /\ saved'.last \in Seq(MessageType)  BY DEF TalkInv, TypeOK
<1>2. ASSUME Within', saved' = saved PROVE Restored(ctx') \in Seq(MessageType)
  <2>1. saved'.length \in 1 .. Len(ctx') /\ Len(saved'.last) = 1
    BY <1>2 DEF TalkInv, ContextInv
  <2>2. saved.length \in 1 .. Len(ctx') /\ Len(saved.last) = 1 /\ saved.last \in Seq(MessageType)
    BY <1>1, <1>2, <2>1
  <2> QED BY <1>1, <2>2, RestoredParts
<1>3. Steady' /\ pc' # "done" => Consistent(ctx)'  BY <1>1, ConsistentThen
<1>4. Steady' /\ Within' => Consistent(Restored(ctx))'  BY <1>2, ConsistentThen
<1> QED BY <1>3, <1>4 DEF HistoryInv

LEMMA QuietStep ==
  ASSUME TalkInv, TalkInv', HistoryInv,
         UNCHANGED <<model, rounds, ctx, saved, pending, rejected, late>>,
         reply' = reply \/ pending = <<>>,
         pc' # "done" => pc # "done", Within' => Within
  PROVE  HistoryInv' /\ (Steady' => Succeeded(Blocks(ctx), Blocks(ctx')))
<1>0. Steady' => Steady  BY SteadyBefore
<1>1. Steady' /\ pc' # "done" => Consistent(ctx')  BY <1>0 DEF HistoryInv
<1>2. Steady' /\ Within' => Consistent(Restored(ctx'))  BY <1>0 DEF HistoryInv
<1>3. pc' # "done" => PendingInv'
  <2> SUFFICES ASSUME pc' # "done", pending # <<>>, PendingInv PROVE PendingInv'
    BY DEF HistoryInv, PendingInv
  <2>1. reply' = reply  OBVIOUS
  <2>2. /\ CallsOf(reply)' = CallsOf(reply) /\ Position' = Position
        /\ CallId(Position)' = CallId(Position)
    BY <2>1 DEF CallsOf, Discards, Position, CallId
  <2>3. Last(ctx)' = Last(ctx) /\ BlocksIn(ctx)' = BlocksIn(ctx)
        /\ ToSet(Last(ctx).blocks)' = ToSet(Last(ctx).blocks)
    BY DEF Last, BlocksIn, ToSet
  <2>4. \A i : Block("call", reply.calls[i].tool, CallId(i), "none")'
               = Block("call", reply.calls[i].tool, CallId(i), "none")
    BY <2>1 DEF Block, CallId
  <2> QED BY <2>1, <2>2, <2>3, <2>4 DEF PendingInv
<1>4. HistoryInv'  BY <1>1, <1>2, <1>3, HistoryThen
<1> QED BY <1>4, SameSucceeded

LEMMA OpensStep ==
  ASSUME TalkInv, TalkInv', HistoryInv, ReplyOpens
  PROVE  HistoryInv' /\ (Steady' => Succeeded(Blocks(ctx), Blocks(ctx')))
<1>1. /\ pc = "loop" /\ pc' = "hook" /\ ctx' = Append(ctx, UserMessage(nextMessage))
      /\ pending' = pending /\ pending = <<>> /\ nextMessage \in {"input", "retry"}
      /\ UNCHANGED <<model, rejected, late>>
  BY DEF ReplyOpens, Goes, TalkInv, PlaceInv, TypeOK, history
<1> DEFINE b == Block(nextMessage, "none", 0, "none")
<1>2. b \in BlockType /\ b.kind \in {"input", "retry"} /\ b.round = rounds
  BY <1>1 DEF Block, BlockType, TalkInv, TypeOK
<1>3. ctx \in Seq(MessageType) /\ \A a \in BlocksIn(ctx) : a.round <= b.round
  BY <1>1, <1>2, Rounded DEF TalkInv, TypeOK
<1>4. UserMessage(nextMessage) = Message("user", <<b>>)  BY DEF UserMessage
<1> HIDE DEF b
<1>5. Steady' => Consistent(ctx')
  <2>1. Steady' => Consistent(ctx)  BY <1>1, SteadyBefore DEF HistoryInv
  <2> QED BY <1>1, <1>2, <1>3, <1>4, <2>1, OneMoreConsistent
<1>6. Succeeded(Blocks(ctx), Blocks(ctx'))
  <2>1. Message("user", <<b>>) \in MessageType /\ Message("user", <<b>>).blocks \in Seq(BlockType)
    BY <1>2 DEF Message, MessageType
  <2>2. /\ Blocks(ctx') = Blocks(ctx) \o Message("user", <<b>>).blocks
        /\ Blocks(ctx) \in Seq(BlockType)
    BY <1>1, <1>3, <1>4, <2>1, BlocksAppended
  <2> QED BY <2>1, <2>2, LongerSucceeded
<1>7. HistoryInv'  BY <1>1, <1>5, HistoryThen DEF PendingInv, Within
<1> QED BY <1>6, <1>7

LEMMA CompressedStep ==
  ASSUME TalkInv, TalkInv', HistoryInv, ContextCompressed
  PROVE  HistoryInv' /\ (Steady' => Succeeded(Blocks(ctx), Blocks(ctx')))
<1>1. /\ pc = "hook" /\ pc' = "start" /\ ctx' = <<Last(ctx)>> /\ ctx # <<>>
      /\ pending' = pending /\ pending = <<>> /\ ctx \in Seq(MessageType)
      /\ UNCHANGED <<model, rejected, late>>
  BY DEF ContextCompressed, Goes, TalkInv, PlaceInv, TypeOK, history
<1>0. Steady' => Consistent(ctx)  BY <1>1, SteadyBefore DEF HistoryInv
<1>2. Steady' => Consistent(ctx')  BY <1>0, <1>1, LastConsistent
<1>3. ASSUME Steady' PROVE Succeeded(Blocks(ctx), Blocks(ctx'))
  <2> DEFINE l == Last(ctx)
  <2>1. LatestIsWhole(l.blocks) /\ l \in MessageType
    BY <1>0, <1>1, <1>3, LastBlocks DEF Consistent
  <2> HIDE DEF l
  <2>2. Append(<<>>, l) = <<l>> /\ <<>> \in Seq(MessageType)  OBVIOUS
  <2>3. Blocks(<<l>>) = <<>> \o l.blocks /\ l.blocks \in Seq(BlockType)
    BY <2>1, <2>2, NoBlocks, BlocksAppended
  <2>4. Blocks(<<l>>) = l.blocks  BY <2>3
  <2>5. \A s : Succeeded(s, l.blocks)  BY <2>1 DEF Succeeded, LatestIsWhole, SubmitResults
  <2> QED BY <1>1, <2>4, <2>5 DEF l
<1>4. HistoryInv'  BY <1>1, <1>2, HistoryThen DEF PendingInv, Within
<1> QED BY <1>3, <1>4

LEMMA StartStep ==
  ASSUME TalkInv, TalkInv', HistoryInv, ModelCallStart
  PROVE  HistoryInv' /\ (Steady' => Succeeded(Blocks(ctx), Blocks(ctx')))
<1>1. /\ pc = "start" /\ pc' = "call" /\ ctx' = Compacted(ctx, submissions) /\ ctx # <<>>
      /\ pending' = pending /\ pending = <<>> /\ saved' = Checkpoint(ctx')
      /\ ctx \in Seq(MessageType) /\ UNCHANGED <<model, rejected, late>>
  BY DEF ModelCallStart, Goes, TalkInv, PlaceInv, ContextInv, TypeOK, history
<1>2. ctx' \in Seq(MessageType) /\ Len(ctx') = Len(ctx)  BY <1>1, CompactedLast
<1>3. ASSUME Steady' PROVE Consistent(ctx') /\ Succeeded(Blocks(ctx), Blocks(ctx'))
  <2>1. Steady  BY <1>1, <1>3, SteadyBefore
  <2>2. Consistent(ctx)  BY <1>1, <2>1 DEF HistoryInv
  <2>3. \A b \in BlocksIn(ctx) : CleanBlock(b, rounds, rejected, late)
    BY <1>1, ContextFacts DEF TalkInv
  <2>4. model.reusesIds => late = {}  BY <2>1 DEF Steady
  <2> QED BY <1>1, <2>2, <2>3, <2>4, CompactedConsistent
<1>4. ASSUME Steady' PROVE Consistent(Restored(ctx))'
  <2>1. ctx' # <<>>  BY <1>1, <1>2
  <2>2. (Restored(ctx) = ctx)'
    <3>1. saved'.length = Len(ctx') /\ saved'.last = <<Last(ctx')>>
      BY <1>1, <2>1 DEF Checkpoint
    <3>2. Len(ctx') \in Nat \ {0}  BY <1>2, <2>1
    <3>3. Restored(ctx)' = SubSeq(ctx', 1, Len(ctx') - 1) \o <<Last(ctx')>>
      BY <3>1, <3>2 DEF Restored
    <3>4. SubSeq(ctx', 1, Len(ctx') - 1) \o <<Last(ctx')>> = ctx'
      BY <1>2, <2>1, FrontAndLast
    <3> QED BY <3>3, <3>4
  <2>3. Consistent(Restored(ctx))' <=> Consistent(ctx)'
    BY <2>2 DEF Consistent, Blocks, InSequence, Precedes, IsSubmitResult, Answers, LatestIsWhole,
       Last, ToSet
  <2>4. Consistent(ctx)'  BY <1>1, <1>2, <1>3, <1>4, ConsistentThen
  <2> QED BY <2>3, <2>4
<1>5. HistoryInv'  BY <1>1, <1>3, <1>4, HistoryThen DEF PendingInv
<1> QED BY <1>3, <1>5

LEMMA DeliveredStep ==
  ASSUME TalkInv, TalkInv', HistoryInv, CompletionReturns \/ StreamEnds
  PROVE  HistoryInv' /\ (Steady' => Succeeded(Blocks(ctx), Blocks(ctx')))
<1>1. PICK r \in Replies : /\ Delivered(r)
                           /\ pc \in {"attempt", "stream"}
                           /\ UNCHANGED <<model, rounds, saved, rejected, late>>
  BY DEF CompletionReturns, StreamEnds, sessionPart, history
<1>2. /\ reply' = r /\ pending' = CallsOf(r) /\ ctx' = Said(ctx, BlocksOf(r))
  BY <1>1 DEF Delivered
<1>3. /\ Steady => Consistent(ctx')
      /\ Restored(ctx') = Restored(ctx)
      /\ Last(ctx').role = "assistant"
      /\ \A i \in DOMAIN CallsOf(r) :
           Block("call", CallsOf(r)[i].tool, CallId(i), "none") \in ToSet(Last(ctx').blocks)
      /\ \A b \in BlocksIn(ctx') : b.kind = "result" => b.round # rounds
  BY <1>1, <1>2, DeliveredConsistent
<1>4. Succeeded(Blocks(ctx), Blocks(ctx'))
  <2>1. ctx \in Seq(MessageType) /\ BlocksOf(r) \in Seq(BlockType)
    BY ReplyInSequence DEF TalkInv, TypeOK
  <2>2. Blocks(ctx') = Blocks(ctx) \o BlocksOf(r) /\ Blocks(ctx) \in Seq(BlockType)
    BY <1>2, <2>1, SaidBlocks, FlatBlocks
  <2> QED BY <2>1, <2>2, LongerSucceeded
<1>5. PendingInv'
  <2> SUFFICES ASSUME CallsOf(r) # <<>> PROVE PendingInv'  BY <1>2 DEF PendingInv
  <2>1. CallsOf(r) = r.calls /\ r.calls \in Seq(CallType)
    BY ReplyParts DEF CallsOf, TalkInv, TypeOK
  <2>2. CallsOf(reply)' = CallsOf(r)
    BY <1>1, <1>2 DEF CallsOf, Discards
  <2>3. Position' = 1
    BY <1>2, <2>1 DEF Position
  <2>4. pending' = SubSeq(reply'.calls, Position', Len(reply'.calls)) /\ reply'.calls = CallsOf(reply)'
    BY <1>2, <2>1, <2>2, <2>3
  <2>5. (Last(ctx).role)' = "assistant"  BY <1>3 DEF Last
  <2>6. \A i \in DOMAIN reply'.calls :
          Block("call", reply.calls[i].tool, CallId(i), "none")'
            \in ToSet(Last(ctx).blocks)'
    BY <1>1, <1>2, <1>3, <2>1 DEF Block, CallId, ToSet, Last
  <2>7. \A b \in BlocksIn(ctx)' : ~ (b.kind = "result" /\ b.round = rounds')
    BY <1>1, <1>3 DEF BlocksIn, ToSet
  <2> QED BY <2>2, <2>4, <2>5, <2>6, <2>7 DEF PendingInv
<1>6. HistoryInv'
  <2>1. Steady' => Steady  BY <1>1, SteadyBefore
  <2>2. Steady => Consistent(Restored(ctx))  BY <1>1 DEF HistoryInv, Within
  <2> QED BY <1>1, <1>3, <1>5, <2>1, <2>2, HistoryThen
<1> QED BY <1>4, <1>6

(* What is pending once a call has run.                                    *)
LEMMA NextPending ==
  ASSUME TypeOK, PlaceInv, PendingInv, pending # <<>>, pending' = Tail(pending),
         pending' # <<>>, UNCHANGED <<model, rounds, reply>>
  PROVE  /\ (reply.calls = CallsOf(reply))'
         /\ (pending = SubSeq(reply.calls, Position, Len(reply.calls)))'
         /\ \A i : Block("call", reply.calls[i].tool, CallId(i), "none")'
                    = Block("call", reply.calls[i].tool, CallId(i), "none")
<1>1. /\ reply.calls = CallsOf(reply) /\ reply.calls \in Seq(CallType)
      /\ pending = SubSeq(reply.calls, Position, Len(reply.calls))
  BY DEF PendingInv, TypeOK
<1>2. Position \in 1 .. Len(reply.calls) /\ Position' = Position + 1
  BY Positions, NextPosition
<1>3. Tail(pending) = SubSeq(reply.calls, Position + 1, Len(reply.calls))
  <2> DEFINE p == Position
             cs == reply.calls
  <2>1. p \in 1 .. Len(cs) /\ cs \in Seq(CallType) /\ pending = SubSeq(cs, p, Len(cs))
    BY <1>1, <1>2
  <2> HIDE DEF p, cs
  <2>2. Tail(SubSeq(cs, p, Len(cs))) = SubSeq(cs, p + 1, Len(cs))  BY <2>1
  <2> QED BY <2>1, <2>2 DEF p, cs
<1>4. CallsOf(reply)' = CallsOf(reply)  BY DEF CallsOf, Discards
<1>5. \A i : Block("call", reply.calls[i].tool, CallId(i), "none")'
             = Block("call", reply.calls[i].tool, CallId(i), "none")
  BY DEF Block, CallId
<1> QED BY <1>1, <1>2, <1>3, <1>4, <1>5

LEMMA SucceedsStep ==
  ASSUME TalkInv, TalkInv', HistoryInv, CallSucceeds
  PROVE  HistoryInv' /\ (Steady' => Succeeded(Blocks(ctx), Blocks(ctx')))
<1> DEFINE W == WithResult
           b == ResultOf(Head(pending))
<1>1. /\ pc = "tools" /\ ctx' = Compacted(W, submissions') /\ pending' = Tail(pending)
      /\ pending # <<>> /\ UNCHANGED <<model, rounds, saved, reply, rejected>>
      /\ late' = LateAfter /\ Within /\ pc # "done" /\ TypeOK /\ PlaceInv /\ ContextInv
  BY DEF CallSucceeds, TalkInv, PlaceInv, Within, LateAfter
<1>2. /\ Steady => Consistent(W)
      /\ Restored(W) = Restored(ctx)
      /\ W \in Seq(MessageType)
      /\ saved.length \in 1 .. Len(W)
      /\ Blocks(W) = Blocks(ctx) \o <<b>>
      /\ b \in BlockType /\ b.id = CallId(Position)
      /\ BlocksIn(W) = BlocksIn(ctx) \cup {b}
      /\ rejected[rounds] = 0 =>
           /\ Last(W).role = "assistant"
           /\ ToSet(Last(W).blocks) = ToSet(Last(ctx).blocks) \cup {b}
  BY <1>1, ResultConsistent
<1>3. /\ saved.last \in Seq(MessageType) /\ Len(saved.last) = 1 /\ ctx \in Seq(MessageType)
      /\ \A a \in BlocksIn(W) : CleanBlock(a, rounds, rejected, late')
  BY <1>1, SavedParts, ContextOfResult
<1> HIDE DEF W, b
<1>4. /\ ctx' \in Seq(MessageType) /\ Len(ctx') = Len(W)
      /\ \A e \in BlocksIn(ctx') : \E a \in BlocksIn(W) : SameButNote(e, a)
      /\ W # <<>> =>
           /\ Last(ctx').role = Last(W).role
           /\ \A a \in ToSet(Last(W).blocks) :
                a.kind = "call" => a \in ToSet(Last(ctx').blocks)
  BY <1>1, <1>2, CompactedLast
<1>5. ASSUME Steady'
      PROVE  /\ Consistent(ctx') /\ Consistent(Restored(ctx'))
             /\ Succeeded(Blocks(W), Blocks(ctx'))
  <2>1. Steady
    <3>1. late \subseteq late'  BY <1>1 DEF LateAfter
    <3> QED BY <1>1, <1>5, <3>1, SteadyBefore
  <2>2. model.reusesIds => late' = {}  BY <1>1, <1>5 DEF Steady
  <2>3. Consistent(W) /\ Consistent(Restored(W))  BY <1>1, <1>2, <2>1 DEF HistoryInv
  <2>4. Consistent(ctx') /\ Succeeded(Blocks(W), Blocks(ctx'))
    BY <1>1, <1>2, <1>3, <2>2, <2>3, CompactedConsistent
  <2>5. Consistent(Restored(ctx'))
    BY <1>1, <1>2, <1>3, <2>2, <2>3, CompactedRestored
  <2> QED BY <2>4, <2>5
<1>6. ASSUME Steady' PROVE Succeeded(Blocks(ctx), Blocks(ctx'))
  <2> DEFINE s == Blocks(ctx)
             D == Blocks(ctx')
  <2>1. s \in Seq(BlockType) /\ D \in Seq(BlockType)  BY <1>3, <1>4, FlatBlocks
  <2>2. Succeeded(s \o <<b>>, D)  BY <1>2, <1>5, <1>6
  <2> HIDE DEF s, D
  <2>3. \A i \in DOMAIN s : i \in DOMAIN (s \o <<b>>) /\ (s \o <<b>>)[i] = s[i]
    BY <1>2, <2>1
  <2>4. Succeeded(s, D)
    BY <2>2, <2>3 DEF Succeeded, SubmitResults
  <2> QED BY <2>4 DEF s, D
<1>7. PendingInv'
  <2> SUFFICES ASSUME pending' # <<>> PROVE PendingInv'  BY DEF PendingInv
  <2>1. /\ PendingInv
        /\ \A a \in BlocksIn(ctx) : a.kind = "result" /\ a.round = rounds => a.id < CallId(Position)
    BY <1>1 DEF HistoryInv, PendingInv
  <2>2. /\ (reply.calls = CallsOf(reply))'
        /\ (pending = SubSeq(reply.calls, Position, Len(reply.calls)))'
        /\ \A i : Block("call", reply.calls[i].tool, CallId(i), "none")'
                   = Block("call", reply.calls[i].tool, CallId(i), "none")
    BY <1>1, <2>1, NextPending
  <2>3. CallId(Position)' = CallId(Position) + 1 /\ CallId(Position) \in Nat
    BY <1>1, NextPosition, Positions
  <2>4. W # <<>>  BY <1>2, <1>3
  <2>5. ASSUME rejected[rounds] = 0
        PROVE  /\ (Last(ctx).role)' = "assistant"
               /\ \A i \in DOMAIN reply'.calls :
                    Block("call", reply.calls[i].tool, CallId(i), "none")'
                      \in ToSet(Last(ctx).blocks)'
    <3>1. (Last(ctx).role)' = "assistant"  BY <1>2, <1>4, <2>4, <2>5 DEF Last
    <3>2. \A i : Block("call", reply.calls[i].tool, CallId(i), "none").kind = "call"
      BY DEF Block
    <3>3. \A i \in DOMAIN reply.calls :
            Block("call", reply.calls[i].tool, CallId(i), "none") \in ToSet(Last(ctx).blocks)
      BY <1>1, <2>1, <2>5 DEF PendingInv
    <3>4. \A i \in DOMAIN reply.calls :
            Block("call", reply.calls[i].tool, CallId(i), "none") \in ToSet(Last(ctx').blocks)
      BY <1>2, <1>4, <2>4, <2>5, <3>2, <3>3
    <3>5. ToSet(Last(ctx).blocks)' = ToSet(Last(ctx').blocks)  BY DEF ToSet, Last
    <3> QED BY <1>1, <2>2, <3>1, <3>4, <3>5
  <2>6. ASSUME NEW e \in BlocksIn(ctx'), e.kind = "result", e.round = rounds
        PROVE  e.id < CallId(Position) + 1
    <3>1. PICK a \in BlocksIn(W) : SameButNote(e, a)  BY <1>4
    <3>2. a.kind = "result" /\ a.round = rounds /\ e.id = a.id
      BY <2>6, <3>1 DEF SameButNote
    <3>3. CASE a = b  BY <1>2, <2>3, <3>2, <3>3
    <3>4. CASE a \in BlocksIn(ctx)
      <4>1. a.id < CallId(Position)  BY <2>1, <3>2, <3>4
      <4>2. a.id \in Nat
        <5>1. a \in BlockType  BY <1>3, <3>4, BlockTypes
        <5> QED BY <5>1 DEF BlockType
      <4> QED BY <2>3, <3>2, <4>1, <4>2
    <3> QED BY <1>2, <3>3, <3>4
  <2>7. \A e \in BlocksIn(ctx)' : e.kind = "result" /\ e.round = rounds' => e.id < CallId(Position)'
    BY <1>1, <2>3, <2>6 DEF BlocksIn, ToSet
  <2> QED BY <1>1, <2>2, <2>5, <2>7 DEF PendingInv
<1>8. HistoryInv'  BY <1>1, <1>5, <1>7, HistoryThen
<1> QED BY <1>6, <1>8

(* A rejected reply is undone, and something may be put in its place.      *)
LEMMA UndoneStep ==
  ASSUME TalkInv, TalkInv', HistoryInv, Within, Steady, NEW b \in BlockType,
         NEW role \in {"user", "assistant"},
         b.kind \notin {"call", "result"}, b.round = rounds,
         ctx' \in {Restored(ctx), Append(Restored(ctx), Message(role, <<b>>))}
  PROVE  Consistent(ctx') /\ Succeeded(Blocks(ctx), Blocks(ctx'))
<1>1. /\ ctx \in Seq(MessageType) /\ saved.last \in Seq(MessageType)
      /\ saved.length \in 1 .. Len(ctx) /\ Len(saved.last) = 1
  BY SavedParts
<1>2. Restored(ctx) \in Seq(MessageType) /\ Consistent(Restored(ctx))
  BY <1>1, RestoredParts DEF HistoryInv
<1>3. rounds \in Nat /\ \A a \in BlocksIn(Restored(ctx)) : a.round <= b.round
  <2>1. \A a \in BlocksIn(Restored(ctx)) : a.round < rounds /\ a \in BlockType
    BY <1>2, Rounded, BlockTypes
  <2>2. \A a \in BlockType : a.round \in Nat  BY ConversationAssumption DEF BlockType
  <2> QED BY <2>1, <2>2, Rounded
<1>4. CASE ctx' = Restored(ctx)
  <2>1. Succeeded(Blocks(ctx), Blocks(Restored(ctx)) \o <<>>)
    <3>1. <<>> \in Seq(BlockType) /\ ToSet(<<>>) = {}  BY DEF ToSet
    <3> QED BY <1>1, <1>2, <3>1, RestoredSucceeded
  <2>2. Blocks(Restored(ctx)) \o <<>> = Blocks(Restored(ctx))
    <3>1. Blocks(Restored(ctx)) \in Seq(BlockType)  BY <1>2, FlatBlocks
    <3> QED BY <3>1
  <2> QED BY <1>2, <1>4, <2>1, <2>2
<1>5. CASE ctx' = Append(Restored(ctx), Message(role, <<b>>))
  <2> DEFINE m == Message(role, <<b>>)
  <2>1. m \in MessageType /\ m.blocks = <<b>>  BY DEF Message, MessageType
  <2>2. Consistent(ctx')  BY <1>2, <1>3, <1>5, OneMoreConsistent
  <2> HIDE DEF m
  <2>3. Blocks(Append(Restored(ctx), m)) = Blocks(Restored(ctx)) \o <<b>>
    BY <1>2, <2>1, BlocksAppended
  <2>4. <<b>> \in Seq(BlockType) /\ ToSet(<<b>>) = {b}  BY DEF ToSet
  <2>5. Succeeded(Blocks(ctx), Blocks(Restored(ctx)) \o <<b>>)
    BY <1>1, <1>2, <2>4, RestoredSucceeded
  <2> QED BY <1>5, <2>2, <2>3, <2>5 DEF m
<1> QED BY <1>4, <1>5

(* The calls left in a rejected completion are still to run.               *)
LEMMA RejectedStep ==
  ASSUME TalkInv, TalkInv', HistoryInv, CallRejected
  PROVE  HistoryInv' /\ (Steady' => Succeeded(Blocks(ctx), Blocks(ctx')))
<1> DEFINE b == Block("repair", "none", 0, "none")
           c == Restored(ctx)
           m == Message("user", <<b>>)
<1>1. /\ pc = "tools" /\ pc # "done" /\ Within /\ pending # <<>> /\ pending' = Tail(pending)
      /\ UNCHANGED <<model, rounds, reply, saved, late>>
      /\ rejected' = [rejected EXCEPT ![rounds] = CallId(Position)]
      /\ TypeOK /\ PlaceInv /\ ContextInv
  BY DEF CallRejected, RejectedHere, TalkInv, PlaceInv, Within
<1>2. Restored(WithResult) = c  BY <1>1, ResultConsistent
<1>3. b \in BlockType /\ b.kind = "repair" /\ b.round = rounds
  BY DEF Block, BlockType, TalkInv, TypeOK
<1>4. UserMessage("repair") = m  BY DEF UserMessage
<1>5. /\ c \in Seq(MessageType) /\ \A a \in BlocksIn(c) : a.round < rounds
      /\ rounds \in 0 .. MaxRounds
  BY <1>1, ContextFacts
<1>6. m \in MessageType /\ m.blocks = <<b>>
  <2> HIDE DEF b
  <2> QED BY <1>3 DEF Message, MessageType
<1>7. ctx' \in {c, Append(c, m)} /\ (pc' # "done" => ctx' = Append(c, m))
  BY <1>2, <1>4 DEF CallRejected, EndsAs, Goes
<1>8. Restored(Append(c, m)) = c
  <2> HIDE DEF m
  <2> QED BY <1>1, <1>6, SavedParts, RestoredAgain
<1>9. rejected'[rounds] = CallId(Position) /\ CallId(Position) # 0
      /\ \A r \in 0 .. MaxRounds : rejected'[r] = 0 => rejected[r] = 0
  <2>1. CallId(Position) \in Nat \ {0} /\ rejected \in [0 .. MaxRounds -> Nat]
    BY <1>1, Positions DEF TypeOK
  <2> QED BY <1>1, <1>5, <2>1
<1>10. ASSUME Steady' PROVE /\ Consistent(ctx') /\ Succeeded(Blocks(ctx), Blocks(ctx'))
                            /\ Consistent(c)
  <2>1. Steady  BY <1>1, <1>10, SteadyBefore
  <2>2. Consistent(c)  BY <1>1, <2>1 DEF HistoryInv
  <2> HIDE DEF b
  <2> QED BY <1>1, <1>3, <1>7, <2>1, <2>2, UndoneStep
<1> HIDE DEF b, c, m
<1>11. ASSUME pc' # "done" PROVE PendingInv'
  <2> SUFFICES ASSUME pending' # <<>> PROVE PendingInv'  BY DEF PendingInv
  <2>1. PendingInv  BY <1>1 DEF HistoryInv
  <2>2. /\ (reply.calls = CallsOf(reply))'
        /\ (pending = SubSeq(reply.calls, Position, Len(reply.calls)))'
    BY <1>1, <2>1, NextPending
  <2>3. (rejected[rounds])' # 0  BY <1>1, <1>9
  <2>4. BlocksIn(ctx)' = BlocksIn(c) \cup ToSet(m.blocks)
    <3>1. BlocksIn(ctx)' = BlocksIn(Append(c, m))  BY <1>7, <1>11 DEF BlocksIn, ToSet
    <3> QED BY <1>5, <1>6, <3>1, AppendParts
  <2>5. ToSet(m.blocks) = {b}  BY <1>6 DEF ToSet
  <2>6. \A e \in BlocksIn(ctx)' : ~ (e.kind = "result" /\ e.round = rounds')
    <3>1. \A e \in BlocksIn(c) : e.round # rounds
      <4>1. \A e \in BlocksIn(c) : e.round \in Nat  BY <1>5, BlockTypes DEF BlockType
      <4> QED BY <1>5, <4>1
    <3> QED BY <1>1, <1>3, <2>4, <2>5, <3>1
  <2> QED BY <2>2, <2>3, <2>6 DEF PendingInv
<1>12. Within' => Restored(ctx') = c  BY <1>7, <1>8 DEF Within
<1>13. HistoryInv'  BY <1>1, <1>9, <1>10, <1>11, <1>12, HistoryThen
<1> QED BY <1>10, <1>13

LEMMA NoToolStep ==
  ASSUME TalkInv, TalkInv', HistoryInv, NoToolStops \/ NoToolRetried
  PROVE  HistoryInv' /\ (Steady' => Succeeded(Blocks(ctx), Blocks(ctx')))
<1> DEFINE b == Block("thinking", "none", 0, "retained")
<1>1. /\ pc = "idle" /\ Within /\ pending' = pending /\ pending = <<>> /\ pc' \in {"loop", "done"}
      /\ UNCHANGED <<model, late>> /\ rejected' = [rejected EXCEPT ![rounds] = CallId(Position)]
  BY DEF NoToolStops, NoToolRetried, RejectedHere, Goes, EndsAs, TalkInv, PlaceInv, Within
<1>2. b \in BlockType /\ b.kind = "thinking" /\ b.round = rounds
  BY DEF Block, BlockType, TalkInv, TypeOK
<1>3. Retained = Message("assistant", <<b>>)  BY DEF Retained
<1> HIDE DEF b
<1>4. ctx' \in {Restored(ctx), Append(Restored(ctx), Message("assistant", <<b>>))}
  BY <1>3 DEF NoToolStops, NoToolRetried
<1>5. Steady' => Consistent(ctx') /\ Succeeded(Blocks(ctx), Blocks(ctx'))
  BY <1>1, <1>2, <1>4, SteadyBefore, UndoneStep
<1>7. \A r \in 0 .. MaxRounds : rejected'[r] = 0 => rejected[r] = 0
  <2>1. CallId(Position) \in Nat \ {0} /\ rejected \in [0 .. MaxRounds -> Nat]
    BY Positions DEF TalkInv, TypeOK
  <2> QED BY <1>1, <2>1
<1>6. HistoryInv'  BY <1>1, <1>5, <1>7, HistoryThen DEF PendingInv, Within
<1> QED BY <1>5, <1>6

LEMMA HistoryStep ==
  ASSUME TalkInv, HistoryInv, Next
  PROVE  HistoryInv' /\ (Steady' => Succeeded(Blocks(ctx), Blocks(ctx')))
<1> USE DEF Goes, EndsAs, Within, history
<1>0. TalkInv'  BY NextTalk
<1>1. CASE HookPasses \/ GuardStops \/ ReplyExceedsRounds \/ ModelCalled
  BY <1>0, <1>1, QuietStep DEF HookPasses, GuardStops, ReplyExceedsRounds, ModelCalled,
     sessionPart, contextPart
<1>2. CASE AttemptStarts \/ RequestRefused \/ AttemptFails \/ StreamOpens
  <2>1. UNCHANGED <<model, rounds, ctx, saved, pending, rejected, late>>
    BY <1>2 DEF AttemptStarts, RequestRefused, AttemptFails, StreamOpens, sessionPart, contextPart
  <2>2. pc \in {"request", "attempt"} /\ pending = <<>>
    BY <1>2 DEF AttemptStarts, RequestRefused, AttemptFails, StreamOpens, TalkInv, PlaceInv
  <2> QED BY <1>0, <1>2, <2>1, <2>2, QuietStep DEF AttemptStarts, RequestRefused, AttemptFails,
     StreamOpens
<1>3. CASE StreamStops \/ StreamClosed
  <2>1. /\ UNCHANGED <<model, rounds, ctx, saved, pending, reply, rejected, late>>
        /\ pc \in {"stream", "closing"}
    BY <1>3 DEF StreamStops, StreamClosed, sessionPart, contextPart
  <2> QED BY <1>0, <1>3, <2>1, QuietStep DEF StreamStops, StreamClosed
<1> QED BY <1>0, <1>1, <1>2, <1>3, OpensStep, CompressedStep, StartStep, DeliveredStep, SucceedsStep,
           RejectedStep, NoToolStep DEF Next

LEMMA InitInv == Init => IInv
<1> SUFFICES ASSUME Init PROVE IInv  OBVIOUS
<1>1. TalkInv  BY InitTalk
<1>2. HistoryInv  BY NothingConsistent DEF Init, HistoryInv, PendingInv, Within
<1> QED BY <1>1, <1>2 DEF IInv

LEMMA NextInv ==
  ASSUME IInv, [Next]_vars
  PROVE  IInv'
<1>1. CASE Next  BY <1>1, NextTalk, HistoryStep DEF IInv
<1>2. CASE UNCHANGED vars
  <2>1. TalkInv'  BY <1>2, StutterTalk DEF IInv
  <2>2. HistoryInv'
    BY <1>2, <2>1, QuietStep DEF IInv, vars, sessionPart, contextPart, history, Within
  <2> QED BY <2>1, <2>2 DEF IInv
<1> QED BY <1>1, <1>2

-----------------------------------------------------------------------------
(* The inductive invariant, for any budgets.                               *)
THEOREM Invariant == Spec => []IInv
<1> QED BY InitInv, NextInv, PTL DEF Spec

(* Nothing of a rejected completion is sent again but the results of those  *)
(* of its calls that ran after the last rejected one, and retained          *)
(* reasoning is: whatever the phase does, restores, collapsed results,     *)
(* summaries and forced calls included.                                    *)
THEOREM SentAllowed == Spec => []SentIsAllowed
<1>1. IInv => SentIsAllowed
  <2> SUFFICES ASSUME IInv PROVE SentIsAllowed  OBVIOUS
  <2>1. RejectedOutputIsNotSent
    BY DEF IInv, TalkInv, ContextInv, RejectedOutputIsNotSent, Asking, Clean
  <2>2. KeptReasoningStays
    BY DEF IInv, TalkInv, ContextInv, KeptReasoningStays, Reasoned
  <2> QED BY <2>1, <2>2 DEF SentIsAllowed
<1> QED BY <1>1, Invariant, PTL

(* A submission is forced exactly after retained reasoning on the last      *)
(* retry, and every attempt ends with its call.                            *)
THEOREM CallsConducted == Spec => []CallsAreConducted
<1>1. IInv => CallsAreConducted  BY DEF IInv, TalkInv
<1> QED BY <1>1, Invariant, PTL

(* Only the reasoning of replies that were nothing else is retained.       *)
THEOREM PureReasoningRetained == Spec => RetainedIsPureReasoning
<1> DEFINE Pure == \A r \in kept' \ kept :
                     reply.finish = "length" /\ reply.reasoning /\ ~ reply.text
                       /\ reply.calls = <<>>
<1>1. IInv /\ [Next]_vars => [Pure]_vars
  <2> SUFFICES ASSUME IInv, [Next]_vars PROVE [Pure]_vars  OBVIOUS
  <2>1. CASE NoToolRetried
    <3>1. pc = "idle" /\ reason = "none"  BY <2>1 DEF NoToolRetried, IInv, TalkInv, PlaceInv
    <3>2. kept' = IF ReasoningDelta THEN kept \cup {rounds} ELSE kept
      BY <2>1 DEF NoToolRetried
    <3> QED BY <3>1, <3>2, DeltaIsPure DEF IInv, TalkInv
  <2>2. CASE kept' = kept  BY <2>2
  <2> QED BY <2>1, <2>2 DEF Next, ReplyOpens, HookPasses, ContextCompressed, GuardStops,
       ModelCallStart, ReplyExceedsRounds, ModelCalled, AttemptStarts, RequestRefused,
       AttemptFails, CompletionReturns, StreamOpens, StreamEnds, StreamStops, StreamClosed,
       CallSucceeds, CallRejected, NoToolStops, history
<1> QED BY <1>1, Invariant, PTL DEF Spec, RetainedIsPureReasoning

(* The outcome an attempt was reported with stands.                        *)
THEOREM OutcomesStand == Spec => OutcomesAreFinal
<1> DEFINE Stand == \A i \in DOMAIN outcomes : outcomes[i] # "open" => outcomes'[i] = outcomes[i]
<1>1. IInv /\ [Next]_vars => [Stand]_vars
  <2> SUFFICES ASSUME IInv, [Next]_vars PROVE [Stand]_vars  OBVIOUS
  <2>1. outcomes \in Seq(Outcomes)  BY DEF IInv, TalkInv, TypeOK
  <2>2. CASE UNCHANGED outcomes  BY <2>2
  <2>3. CASE AttemptStarts
    BY <2>1, <2>3 DEF AttemptStarts
  <2>4. CASE AttemptFails \/ CompletionReturns \/ StreamEnds \/ StreamStops \/ StreamClosed
    <3>1. outcomes # <<>>
      BY <2>4 DEF AttemptFails, CompletionReturns, StreamEnds, StreamStops, StreamClosed, IInv, TalkInv,
         AttemptInv
    <3>2. \E o \in Outcomes : outcomes' = Finish(o)
      BY <2>4 DEF AttemptFails, CompletionReturns, StreamEnds, StreamStops, StreamClosed,
         ClosedAs, Outcomes
    <3>3. PICK o \in Outcomes : outcomes' = Finish(o)  BY <3>2
    <3>4. ASSUME NEW i \in 1 .. Len(outcomes), outcomes[i] # "open"
          PROVE  Finish(o)[i] = outcomes[i]
      BY <2>1, <3>1, <3>4, FinishParts
    <3>5. DOMAIN outcomes = 1 .. Len(outcomes)  BY <2>1
    <3> QED BY <3>3, <3>4, <3>5
  <2> QED BY <2>2, <2>3, <2>4 DEF Next, ReplyOpens, HookPasses, ContextCompressed, GuardStops,
       ModelCallStart, ReplyExceedsRounds, ModelCalled, RequestRefused, StreamOpens,
       CallSucceeds, CallRejected, NoToolStops, NoToolRetried, requestPart
<1> QED BY <1>1, Invariant, PTL DEF Spec, OutcomesAreFinal

(* A result is collapsed only while a later submission's is in the context *)
(* in full, however replies are undone, summarised and compacted; unless    *)
(* the provider numbers calls afresh, and one was answered after a rejected *)
(* one.                                                                    *)
THEOREM ResultsSucceeded == Spec => CollapsedHasASuccessor
<1> DEFINE Kept == Steady' =>
             \A i \in Results(ctx) \cap Results(ctx') :
               Blocks(ctx)[i].note = "whole" /\ Blocks(ctx')[i].note = "superseded" =>
                 \E j \in Results(ctx') : j > i /\ Blocks(ctx')[j].note = "whole"
<1>1. IInv /\ [Next]_vars => [Kept]_vars
  <2> SUFFICES ASSUME IInv, Next PROVE Kept  OBVIOUS
  <2>1. Steady' => Succeeded(Blocks(ctx), Blocks(ctx'))  BY HistoryStep DEF IInv
  <2>2. \A c : Results(c) = SubmitResults(Blocks(c))
    BY DEF Results, SubmitResults, IsSubmitResult
  <2> QED BY <2>1, <2>2 DEF Succeeded
<1> QED BY <1>1, Invariant, PTL DEF Spec, CollapsedHasASuccessor

THEOREM HistoryKept == Spec => HistoryIsKept
  BY PureReasoningRetained, ResultsSucceeded, OutcomesStand DEF HistoryIsKept
=============================================================================
