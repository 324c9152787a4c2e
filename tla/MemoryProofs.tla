---------------------------- MODULE MemoryProofs ----------------------------
(***************************************************************************)
(* Proofs about Memory, for any number of facts, passes, edits and crashes *)
(* and any old files: the types, that no edit is undone, that the index    *)
(* agrees with the facts, that an import loses nothing, and what a dream   *)
(* pass may remove.                                                        *)
(***************************************************************************)
EXTENDS Memory, SequenceTheorems, TLAPS

(* The writes of a sequence *)

Ops(s) == {s[k] : k \in DOMAIN s}

\* What a sequence of writes is made of.
LEMMA OpsOf ==
  /\ Ops(<<>>) = {}
  /\ \A w : Ops(<<w>>) = {w}
  /\ \A v, w : Ops(<<v, w>>) = {v, w}
BY DEF Ops

LEMMA OpsConcat ==
  ASSUME NEW S, NEW s \in Seq(S), NEW t \in Seq(S)
  PROVE  s \o t \in Seq(S) /\ Ops(s \o t) = Ops(s) \cup Ops(t)
<1>1. s \o t \in Seq(S) /\ Len(s \o t) = Len(s) + Len(t) /\ Len(s) \in Nat /\ Len(t) \in Nat
  OBVIOUS
<1>2. /\ DOMAIN (s \o t) = 1 .. Len(s) + Len(t)
      /\ DOMAIN s = 1 .. Len(s) /\ DOMAIN t = 1 .. Len(t)
  BY <1>1
<1>3. /\ \A k \in 1 .. Len(s) : (s \o t)[k] = s[k]
      /\ \A k \in 1 .. Len(t) : (s \o t)[k + Len(s)] = t[k]
  BY <1>1
<1>4. \A k \in DOMAIN (s \o t) : (s \o t)[k] \in Ops(s) \cup Ops(t)
  <2>1. ASSUME NEW k \in DOMAIN (s \o t) PROVE (s \o t)[k] \in Ops(s) \cup Ops(t)
    <3>1. CASE k \in DOMAIN s
      BY <1>2, <1>3, <3>1 DEF Ops
    <3>2. CASE k \notin DOMAIN s
      <4>1. k - Len(s) \in 1 .. Len(t) /\ k = (k - Len(s)) + Len(s)
        BY <1>1, <1>2, <3>2
      <4>2. (s \o t)[k] = t[k - Len(s)]
        BY <1>3, <4>1
      <4>3. QED BY <1>2, <4>1, <4>2 DEF Ops
    <3>3. QED BY <3>1, <3>2
  <2>2. QED BY <2>1
<1>5. \A k \in DOMAIN s : s[k] \in Ops(s \o t)
  BY <1>1, <1>2, <1>3 DEF Ops
<1>6. \A k \in DOMAIN t : t[k] \in Ops(s \o t)
  <2>1. ASSUME NEW k \in DOMAIN t PROVE t[k] \in Ops(s \o t)
    <3>1. k + Len(s) \in DOMAIN (s \o t) /\ (s \o t)[k + Len(s)] = t[k]
      BY <1>1, <1>2, <1>3
    <3>2. QED BY <3>1 DEF Ops
  <2>2. QED BY <2>1
<1>7. Ops(s \o t) \subseteq Ops(s) \cup Ops(t)
  BY <1>4 DEF Ops
<1>8. Ops(s) \subseteq Ops(s \o t) /\ Ops(t) \subseteq Ops(s \o t)
  BY <1>5, <1>6 DEF Ops
<1>9. QED BY <1>1, <1>7, <1>8

LEMMA OpsTail ==
  ASSUME NEW S, NEW s \in Seq(S), s # <<>>
  PROVE  /\ Head(s) \in S /\ Tail(s) \in Seq(S) /\ Head(s) \in Ops(s)
         /\ Ops(s) = {Head(s)} \cup Ops(Tail(s))
<1>1. /\ Head(s) \in S /\ Tail(s) \in Seq(S) /\ Head(s) = s[1] /\ Len(s) \in Nat /\ Len(s) >= 1
      /\ DOMAIN s = 1 .. Len(s) /\ Len(Tail(s)) = Len(s) - 1
      /\ DOMAIN Tail(s) = 1 .. Len(s) - 1
  OBVIOUS
<1>2. \A k \in 1 .. Len(s) - 1 : Tail(s)[k] = s[k + 1]
  BY <1>1
<1>3. \A k \in DOMAIN s : s[k] \in {Head(s)} \cup Ops(Tail(s))
  <2>1. ASSUME NEW k \in DOMAIN s, k # 1 PROVE s[k] \in Ops(Tail(s))
    <3>1. k - 1 \in DOMAIN Tail(s) /\ k = (k - 1) + 1
      BY <1>1, <2>1
    <3>2. Tail(s)[k - 1] = s[k]
      BY <1>1, <1>2, <3>1
    <3>3. QED BY <3>1, <3>2 DEF Ops
  <2>2. QED BY <1>1, <2>1
<1>4. \A k \in DOMAIN Tail(s) : Tail(s)[k] \in Ops(s)
  <2>1. ASSUME NEW k \in DOMAIN Tail(s) PROVE Tail(s)[k] \in Ops(s)
    <3>1. k + 1 \in DOMAIN s /\ Tail(s)[k] = s[k + 1]
      BY <1>1, <1>2
    <3>2. QED BY <3>1 DEF Ops
  <2>2. QED BY <2>1
<1>5. Head(s) \in Ops(s)
  BY <1>1 DEF Ops
<1>6. Ops(s) \subseteq {Head(s)} \cup Ops(Tail(s)) /\ Ops(Tail(s)) \subseteq Ops(s)
  BY <1>3, <1>4 DEF Ops
<1>7. QED BY <1>1, <1>5, <1>6

LEMMA OpsTyped ==
  ASSUME NEW S, NEW s \in Seq(S) PROVE \A w \in Ops(s) : w \in S
BY DEF Ops

LEMMA Joined ==
  ASSUME NEW S, NEW a \in S, NEW b \in S
  PROVE  <<>> \o <<a>> = <<a>> /\ <<a>> \o <<b>> = <<a, b>>
<1>1. <<>> \in Seq(S) /\ <<a>> \in Seq(S) /\ <<b>> \in Seq(S) /\ <<a, b>> \in Seq(S)
  OBVIOUS
<1>2. <<>> \o <<a>> = <<a>>
  BY <1>1
<1>3. <<a>> \o <<b>> \in Seq(S) /\ Len(<<a>> \o <<b>>) = 2
      /\ (<<a>> \o <<b>>)[1] = a /\ (<<a>> \o <<b>>)[2] = b
  BY <1>1
<1>4. <<a>> \o <<b>> = <<a, b>>
  <2> DEFINE s == <<a>> \o <<b>>
             t == <<a, b>>
  <2>1. s \in Seq(S) /\ t \in Seq(S) /\ Len(s) = 2 /\ Len(t) = 2
        /\ s[1] = t[1] /\ s[2] = t[2]
    BY <1>1, <1>3
  <2> HIDE DEF s, t
  <2>2. \A i \in 1 .. Len(s) : s[i] = t[i]
    BY <2>1
  <2>3. s = t
    BY <2>1, <2>2, SeqEqual
  <2>4. QED BY <2>3 DEF s, t
<1>5. QED BY <1>2, <1>4

(* What is read and written *)

ReadAll(fs) == [i \in Ids |-> ReadFact(fs[i])]

LEMMA ReadIs == Read = ReadAll(docs)
BY DEF Read, ReadAll

\* None is no fact.
LEMMA NoneApart == /\ None \notin Fact
                   /\ \A t, c : t \in Texts \cup {Blank} /\ c \in BOOLEAN =>
                        [text |-> t, core |-> c] \in Fact /\ [text |-> t, core |-> c] # None
BY MemoryAssumption DEF Fact

LEMMA ReadFactIs ==
  ASSUME NEW f \in Fact \cup {None}
  PROVE  /\ ReadFact(f) \in Fact \cup {None} /\ (ReadFact(f) = None <=> f = None)
         /\ f # None => ReadFact(f).text = ReadText(f.text)
         /\ ReadFact(ReadFact(f)) = ReadFact(f)
<1>1. CASE f # None /\ f.text \in Ruled
  <2>1. ReadFact(f) = [text |-> Blank, core |-> FALSE]
    BY <1>1 DEF ReadFact
  <2>2. Blank \notin Ruled
    BY MemoryAssumption
  <2>3. ReadFact([text |-> Blank, core |-> FALSE]) = [text |-> Blank, core |-> FALSE]
    BY <2>2 DEF ReadFact
  <2>4. [text |-> Blank, core |-> FALSE] \in Fact /\ [text |-> Blank, core |-> FALSE] # None
    BY NoneApart
  <2>5. ReadFact(f).text = ReadText(f.text)
    BY <1>1, <2>1 DEF ReadText
  <2>6. QED BY <1>1, <2>1, <2>3, <2>4, <2>5
<1>2. CASE ~(f # None /\ f.text \in Ruled)
  <2>1. ReadFact(f) = f
    BY <1>2 DEF ReadFact
  <2>2. QED BY <1>2, <2>1 DEF ReadText
<1>3. QED BY <1>1, <1>2

LEMMA ReadAllIs ==
  ASSUME NEW fs \in Facts
  PROVE  /\ ReadAll(fs) \in Facts
         /\ \A i \in Ids : /\ ReadAll(fs)[i] = ReadFact(fs[i])
                           /\ fs[i] \in Fact \cup {None}
                           /\ ReadAll(fs)[i] \in Fact \cup {None}
                           /\ ReadAll(fs)[i] = None <=> fs[i] = None
<1>1. \A i \in Ids : fs[i] \in Fact \cup {None}
  BY DEF Facts
<1>2. \A i \in Ids : ReadFact(fs[i]) \in Fact \cup {None} /\ (ReadFact(fs[i]) = None <=> fs[i] = None)
  BY <1>1, ReadFactIs
<1>3. QED BY <1>1, <1>2 DEF ReadAll, Facts

LEMMA CoreTextsType ==
  ASSUME NEW fs \in Facts PROVE CoreTexts(fs) \subseteq Texts \cup {Blank}
<1>1. \A i \in There(fs) : fs[i] \in Fact
  BY DEF There, Facts
<1>2. \A i \in There(fs) : fs[i].text \in Texts \cup {Blank}
  BY <1>1 DEF Fact
<1>3. QED BY <1>2 DEF CoreTexts

\* The kinds of writes.
LEMMA WriteTypes ==
  /\ \A fs \in Facts : [op |-> "facts", facts |-> fs] \in Writes
  /\ \A X : X \subseteq Texts \cup {Blank} => [op |-> "index", texts |-> X] \in Writes
  /\ [op |-> "dreams", set |-> OldDreams] \in Writes
  /\ Op("unlinkFacts") \in Writes /\ Op("unlinkIndex") \in Writes
  /\ Op("unlinkDreams") \in Writes /\ Op("mark") \in Writes
BY DEF Writes, Op

LEMMA WriteFields ==
  ASSUME NEW w \in Writes
  PROVE  /\ w.op = "facts" => w.facts \in Facts
         /\ w.op = "index" => w.texts \subseteq Texts \cup {Blank}
         /\ w.op = "dreams" => w.set \subseteq OldDreams
BY DEF Writes

\* A save writes the facts, when they are not there yet, and the index.
LEMMA SaveIs ==
  ASSUME TypeOK, NEW fs \in Facts
  PROVE  /\ Save(fs) \in Seq(Writes)
         /\ fs = docs => Save(fs) = <<[op |-> "index", texts |-> CoreTexts(fs)]>>
         /\ fs # docs => Save(fs) = <<[op |-> "facts", facts |-> fs],
                                      [op |-> "index", texts |-> CoreTexts(fs)]>>
<1> DEFINE v == [op |-> "facts", facts |-> fs]
           w == [op |-> "index", texts |-> CoreTexts(fs)]
<1>1. CoreTexts(fs) \subseteq Texts \cup {Blank}
  BY CoreTextsType
<1>2. v \in Writes /\ w \in Writes
  BY <1>1, WriteTypes
<1>3. Save(fs) = To(fs) \o <<w>> /\ To(fs) = IF fs = docs THEN <<>> ELSE <<v>>
  BY DEF Save, Saving, To
<1> HIDE DEF v, w
<1>4. /\ <<>> \o <<w>> = <<w>> /\ <<v>> \o <<w>> = <<v, w>>
      /\ <<w>> \in Seq(Writes) /\ <<v, w>> \in Seq(Writes)
  BY <1>2, Joined
<1>5. fs = docs => Save(fs) = <<w>>
  BY <1>3, <1>4
<1>6. fs # docs => Save(fs) = <<v, w>>
  BY <1>3, <1>4
<1>7. Save(fs) \in Seq(Writes)
  BY <1>4, <1>5, <1>6
<1>8. QED BY <1>5, <1>6, <1>7 DEF v, w

(* Types *)

OldSet == [id : Ids, text : Texts, core : BOOLEAN]

LEMMA FilesKept == ASSUME FilesType, UNCHANGED files PROVE FilesType'
BY DEF FilesType, files

LEMMA PassesKept == ASSUME PassType, UNCHANGED passVars PROVE PassType'
BY DEF PassType, passVars

\* A save by an edit or a pass.
LEMMA SavesType ==
  ASSUME TypeOK, NEW fs \in Facts, Saves(fs), UNCHANGED <<server, put, crashes>>, calls' \in Nat
  PROVE  ServerType'
BY SaveIs DEF Saves, TypeOK, ServerType

LEMMA ServerKept ==
  ASSUME TypeOK, UNCHANGED <<server, writes, put, crashes, calls>> PROVE ServerType'
BY DEF TypeOK, ServerType

LEMMA TextsOfType ==
  ASSUME NEW fs \in Facts
  PROVE  /\ TextsOf(fs) \in [Ids -> Texts \cup {Blank, None}]
         /\ \A i \in Ids : TextsOf(fs)[i] = IF fs[i] = None THEN None ELSE fs[i].text
BY DEF TextsOf, Facts, Fact

LEMMA PutType == ASSUME NEW f \in OldSet PROVE Put(f) \in Fact /\ Put(f).text = f.text
BY DEF Put, Fact, OldSet

\* The documents with old facts written over them.
LEMMA WithIs ==
  ASSUME FilesType, NEW old \in SUBSET OldSet
  PROVE  /\ With(old) \in Facts
         /\ \A i \in Ids : \/ \E f \in old : f.id = i /\ With(old)[i] = Put(f)
                           \/ (\A f \in old : f.id # i) /\ With(old)[i] = docs[i]
         /\ old = {} => With(old) = docs
<1>1. ASSUME NEW i \in Ids, \E f \in old : f.id = i
      PROVE  \E f \in old : f.id = i /\ With(old)[i] = Put(f)
  <2> DEFINE g == CHOOSE f \in old : f.id = i
  <2>1. g \in old /\ g.id = i
    BY <1>1
  <2>2. With(old)[i] = Put(g)
    BY <1>1 DEF With
  <2>3. QED BY <2>1, <2>2
<1>2. ASSUME NEW i \in Ids, \A f \in old : f.id # i PROVE With(old)[i] = docs[i]
  BY <1>2 DEF With
<1>3. \A i \in Ids : With(old)[i] \in Fact \cup {None}
  <2>1. ASSUME NEW i \in Ids, \E f \in old : f.id = i PROVE With(old)[i] \in Fact
    BY <1>1, <2>1, PutType
  <2>2. ASSUME NEW i \in Ids, \A f \in old : f.id # i PROVE With(old)[i] \in Fact \cup {None}
    BY <1>2, <2>2 DEF FilesType, Facts
  <2>3. QED BY <2>1, <2>2
<1>4. With(old) \in Facts
  <2>1. With(old) = [i \in Ids |-> With(old)[i]]
    BY DEF With
  <2>2. QED BY <1>3, <2>1 DEF Facts
<1>5. ASSUME old = {} PROVE With(old) = docs
  <2>1. With(old) = [i \in Ids |-> docs[i]]
    BY <1>5 DEF With
  <2>2. QED BY <2>1 DEF FilesType, Facts
<1>6. QED BY <1>1, <1>2, <1>4, <1>5

\* The facts become fs.
LEMMA ToIs ==
  ASSUME NEW fs \in Facts
  PROVE  /\ To(fs) \in Seq(Writes)
         /\ fs = docs => To(fs) = <<>> /\ Ops(To(fs)) = {}
         /\ fs # docs => /\ To(fs) = <<[op |-> "facts", facts |-> fs]>>
                         /\ Ops(To(fs)) = {[op |-> "facts", facts |-> fs]}
<1>1. fs = docs => To(fs) = <<>>
  BY DEF To
<1>2. fs # docs => To(fs) = <<[op |-> "facts", facts |-> fs]>>
  BY DEF To
<1>3. To(fs) \in Seq(Writes)
  <2> DEFINE w == [op |-> "facts", facts |-> fs]
  <2>1. w \in Writes
    BY WriteTypes
  <2> HIDE DEF w
  <2>2. <<w>> \in Seq(Writes) /\ <<>> \in Seq(Writes)
    BY <2>1
  <2>3. QED BY <1>1, <1>2, <2>2 DEF w
<1>4. QED BY <1>1, <1>2, <1>3, OpsOf

\* What an import writes, an index and the old dreams.
IndexOps == {w \in Writes : w.op \in {"index", "unlinkIndex"}}
DreamOps == {w \in Writes : w.op \in {"dreams", "unlinkDreams", "mark"}}

LEMMA OpName == \A t : Op(t).op = t
BY DEF Op

LEMMA OneWrite ==
  ASSUME NEW w \in Writes
  PROVE  <<w>> \in Seq(Writes) /\ Ops(<<w>>) = {w} /\ <<>> \in Seq(Writes) /\ Ops(<<>>) = {}
BY OpsOf

\* One write more.
LEMMA OpsAppend ==
  ASSUME NEW q \in Seq(Writes), NEW w \in Writes
  PROVE  q \o <<w>> \in Seq(Writes) /\ Ops(q \o <<w>>) = Ops(q) \cup {w}
<1> DEFINE s == <<w>>
<1>1. s \in Seq(Writes) /\ Ops(s) = {w}
  BY OneWrite
<1> HIDE DEF s
<1>2. q \o s \in Seq(Writes) /\ Ops(q \o s) = Ops(q) \cup Ops(s)
  BY <1>1, OpsConcat
<1>3. QED BY <1>1, <1>2 DEF s

LEMMA ImportWritesIs ==
  ASSUME NEW q \in Seq(Writes)
  PROVE  ImportWrites(q) \in Seq(Writes) /\ Ops(ImportWrites(q)) = Ops(q) \cup {Op("unlinkFacts")}
<1> DEFINE w == Op("unlinkFacts")
<1>1. w \in Writes
  BY WriteTypes
<1>2. ImportWrites(q) = q \o <<w>>
  BY DEF ImportWrites
<1> HIDE DEF w
<1>3. q \o <<w>> \in Seq(Writes) /\ Ops(q \o <<w>>) = Ops(q) \cup {w}
  BY <1>1, OpsAppend
<1>4. QED BY <1>2, <1>3 DEF w

LEMMA IndexWrite ==
  ASSUME NEW X \in SUBSET (Texts \cup {Blank})
  PROVE  [op |-> "index", texts |-> X] \in IndexOps
BY WriteTypes DEF IndexOps

LEMMA IndexImportIs ==
  ASSUME FilesType, NEW X \in SUBSET (Texts \cup {Blank})
  PROVE  IndexImport(X) \in Seq(Writes) /\ Ops(IndexImport(X)) \subseteq IndexOps
<1> DEFINE q == IF coreIndex \in {None, {}} /\ oldIndex # {}
                THEN <<[op |-> "index", texts |-> oldIndex]>>
                ELSE IF coreIndex \in {None, {}} /\ X # {}
                     THEN <<[op |-> "index", texts |-> X]>> ELSE <<>>
<1>1. ASSUME oldIndex # None PROVE q \in Seq(Writes) /\ Ops(q) \subseteq IndexOps
  <2>1. oldIndex \in SUBSET (Texts \cup {Blank})
    <3>1. oldIndex \in (SUBSET Texts) \cup {None}
      BY DEF FilesType
    <3>2. oldIndex \in SUBSET Texts
      BY <1>1, <3>1
    <3>3. QED BY <3>2
  <2> DEFINE v == [op |-> "index", texts |-> oldIndex]
             w == [op |-> "index", texts |-> X]
  <2>2. v \in IndexOps /\ w \in IndexOps
    BY <2>1, IndexWrite
  <2>3. v \in Writes /\ w \in Writes
    BY <2>2 DEF IndexOps
  <2>4. q = <<v>> \/ q = <<w>> \/ q = <<>>
    OBVIOUS
  <2> HIDE DEF v, w, q
  <2>5. QED BY <2>2, <2>3, <2>4, OneWrite
<1>2. Op("unlinkIndex") \in Writes /\ Op("unlinkIndex") \in IndexOps
  BY WriteTypes, OpName DEF IndexOps
<1>3. CASE oldIndex = None
  <2>1. IndexImport(X) = <<>>
    BY <1>3 DEF IndexImport
  <2>2. QED BY <1>2, <2>1, OneWrite
<1>4. CASE oldIndex # None
  <2> DEFINE w == Op("unlinkIndex")
  <2>1. IndexImport(X) = q \o <<w>>
    BY <1>4 DEF IndexImport
  <2>2. w \in Writes /\ w \in IndexOps
    BY <1>2
  <2>3. q \in Seq(Writes) /\ Ops(q) \subseteq IndexOps
    BY <1>1, <1>4
  <2> HIDE DEF q, w
  <2>4. q \o <<w>> \in Seq(Writes) /\ Ops(q \o <<w>>) = Ops(q) \cup {w}
    BY <2>2, <2>3, OpsAppend
  <2>5. QED BY <2>1, <2>2, <2>3, <2>4
<1>5. QED BY <1>3, <1>4

\* Neither documents nor the removal of memory.json.
Plain == IndexOps \cup DreamOps

\* A write of documents, and those of a sequence.
WritesFacts(w) == w.op = "facts"

\* All documents a sequence writes become fs, which is not there yet.
Only(s, fs) == \A w \in Ops(s) : WritesFacts(w) => w.facts = fs /\ fs # docs

\* memory.json goes after the documents of it are written.
UnlinkLast(s) == \A j, k \in DOMAIN s : s[k].op = "unlinkFacts" /\ WritesFacts(s[j]) => j < k

LEMMA PlainOps == /\ Plain \subseteq Writes
                  /\ \A w \in Plain : ~WritesFacts(w) /\ w.op # "unlinkFacts"
<1>1. Plain \subseteq Writes
  BY DEF Plain, IndexOps, DreamOps
<1>2. \A w \in Plain : w.op \in {"index", "unlinkIndex", "dreams", "unlinkDreams", "mark"}
  BY DEF Plain, IndexOps, DreamOps
<1>3. QED BY <1>1, <1>2 DEF WritesFacts

\* Plain writes before and after others.
LEMMA PlainBefore ==
  ASSUME NEW p \in Seq(Writes), Ops(p) \subseteq Plain, NEW s \in Seq(Writes), UnlinkLast(s)
  PROVE  UnlinkLast(p \o s)
<1>1. /\ Len(p) \in Nat /\ Len(s) \in Nat /\ DOMAIN p = 1 .. Len(p) /\ DOMAIN s = 1 .. Len(s)
      /\ DOMAIN (p \o s) = 1 .. Len(p) + Len(s)
      /\ \A k \in 1 .. Len(p) : (p \o s)[k] = p[k]
      /\ \A k \in 1 .. Len(s) : (p \o s)[k + Len(p)] = s[k]
  OBVIOUS
<1>2. \A k \in DOMAIN p : ~WritesFacts(p[k]) /\ p[k].op # "unlinkFacts"
  BY PlainOps DEF Ops
<1>3. ASSUME NEW j \in DOMAIN (p \o s), NEW k \in DOMAIN (p \o s),
             (p \o s)[k].op = "unlinkFacts", WritesFacts((p \o s)[j])
      PROVE  j < k
  <2>1. j \notin DOMAIN p /\ k \notin DOMAIN p
    BY <1>1, <1>2, <1>3
  <2>2. /\ j - Len(p) \in DOMAIN s /\ j = (j - Len(p)) + Len(p)
        /\ k - Len(p) \in DOMAIN s /\ k = (k - Len(p)) + Len(p)
    BY <1>1, <2>1
  <2>3. (p \o s)[j] = s[j - Len(p)] /\ (p \o s)[k] = s[k - Len(p)]
    BY <1>1, <2>2
  <2>4. j - Len(p) < k - Len(p)
    BY <1>3, <2>2, <2>3 DEF UnlinkLast
  <2>5. QED BY <1>1, <2>4
<1>4. QED BY <1>3 DEF UnlinkLast

LEMMA PlainAfter ==
  ASSUME NEW p \in Seq(Writes), Ops(p) \subseteq Plain, NEW s \in Seq(Writes), UnlinkLast(s)
  PROVE  UnlinkLast(s \o p)
<1>1. /\ Len(p) \in Nat /\ Len(s) \in Nat /\ DOMAIN p = 1 .. Len(p) /\ DOMAIN s = 1 .. Len(s)
      /\ DOMAIN (s \o p) = 1 .. Len(s) + Len(p)
      /\ \A k \in 1 .. Len(s) : (s \o p)[k] = s[k]
      /\ \A k \in 1 .. Len(p) : (s \o p)[k + Len(s)] = p[k]
  OBVIOUS
<1>2. \A k \in DOMAIN p : ~WritesFacts(p[k]) /\ p[k].op # "unlinkFacts"
  BY PlainOps DEF Ops
<1>3. \A k \in DOMAIN (s \o p) : k \notin DOMAIN s =>
        ~WritesFacts((s \o p)[k]) /\ (s \o p)[k].op # "unlinkFacts"
  <2>1. ASSUME NEW k \in DOMAIN (s \o p), k \notin DOMAIN s
        PROVE  ~WritesFacts((s \o p)[k]) /\ (s \o p)[k].op # "unlinkFacts"
    <3>1. k - Len(s) \in DOMAIN p /\ k = (k - Len(s)) + Len(s)
      BY <1>1, <2>1
    <3>2. (s \o p)[k] = p[k - Len(s)]
      BY <1>1, <3>1
    <3>3. QED BY <1>2, <3>1, <3>2
  <2>2. QED BY <2>1
<1>4. ASSUME NEW j \in DOMAIN (s \o p), NEW k \in DOMAIN (s \o p),
             (s \o p)[k].op = "unlinkFacts", WritesFacts((s \o p)[j])
      PROVE  j < k
  <2>1. j \in DOMAIN s /\ k \in DOMAIN s
    BY <1>3, <1>4
  <2>2. (s \o p)[j] = s[j] /\ (s \o p)[k] = s[k]
    BY <1>1, <2>1
  <2>3. QED BY <1>4, <2>1, <2>2 DEF UnlinkLast
<1>5. QED BY <1>4 DEF UnlinkLast

LEMMA ImportOrder ==
  ASSUME NEW fs \in Facts
  PROVE  /\ UnlinkLast(<<>>) /\ UnlinkLast(To(fs)) /\ UnlinkLast(ImportWrites(To(fs)))
         /\ To(fs) \in Seq(Writes) /\ ImportWrites(To(fs)) \in Seq(Writes)
<1> DEFINE v == [op |-> "facts", facts |-> fs]
           w == Op("unlinkFacts")
<1>1. v \in Writes /\ w \in Writes /\ WritesFacts(v) /\ ~WritesFacts(w)
      /\ v.op # "unlinkFacts" /\ w.op = "unlinkFacts"
  BY WriteTypes, OpName DEF WritesFacts
<1>2. To(fs) = <<>> \/ To(fs) = <<v>>
  BY DEF To
<1>3. ImportWrites(To(fs)) = To(fs) \o <<w>>
  BY DEF ImportWrites
<1> HIDE DEF v, w
<1>4. ImportWrites(To(fs)) = <<w>> \/ ImportWrites(To(fs)) = <<v, w>>
  BY <1>1, <1>2, <1>3, Joined
<1>5. UnlinkLast(<<>>) /\ UnlinkLast(<<v>>) /\ UnlinkLast(<<w>>) /\ UnlinkLast(<<v, w>>)
  BY <1>1 DEF UnlinkLast
<1>6. <<v>> \in Seq(Writes) /\ <<w>> \in Seq(Writes) /\ <<v, w>> \in Seq(Writes)
      /\ <<>> \in Seq(Writes)
  BY <1>1
<1>7. QED BY <1>2, <1>4, <1>5, <1>6

BootIndex == IF coreIndex = None THEN <<[op |-> "index", texts |-> {}]>> ELSE <<>>
BootFacts(fs) == IF oldFacts = None THEN <<>> ELSE ImportWrites(To(fs))
BootCore(fs) == IndexImport(CoreTexts([i \in Ids |-> ReadFact(fs[i])]))
OldPasses == IF oldDreams = None THEN <<>>
             ELSE <<[op |-> "dreams", set |-> oldDreams], Op("unlinkDreams")>>
BootWrites(fs) == BootIndex \o BootFacts(fs) \o BootCore(fs) \o OldPasses

LEMMA PlainParts ==
  ASSUME FilesType, NEW fs \in Facts
  PROVE  /\ BootIndex \in Seq(Writes) /\ Ops(BootIndex) \subseteq Plain
         /\ BootCore(fs) \in Seq(Writes) /\ Ops(BootCore(fs)) \subseteq Plain
         /\ OldPasses \in Seq(Writes) /\ Ops(OldPasses) \subseteq Plain
<1>1. IndexOps \subseteq Plain /\ DreamOps \subseteq Plain
  BY DEF Plain
<1>2. BootIndex \in Seq(Writes) /\ Ops(BootIndex) \subseteq Plain
  <2> DEFINE w == [op |-> "index", texts |-> {}]
  <2>1. w \in IndexOps
    BY IndexWrite
  <2>2. w \in Writes
    BY <2>1 DEF IndexOps
  <2>3. BootIndex = <<w>> \/ BootIndex = <<>>
    BY DEF BootIndex
  <2> HIDE DEF w
  <2>4. /\ <<w>> \in Seq(Writes) /\ Ops(<<w>>) = {w}
        /\ <<>> \in Seq(Writes) /\ Ops(<<>>) = {}
    BY <2>2, OneWrite
  <2>5. CASE BootIndex = <<w>>
    BY <1>1, <2>1, <2>4, <2>5
  <2>6. CASE BootIndex = <<>>
    BY <2>4, <2>6
  <2>7. QED BY <2>3, <2>5, <2>6
<1>3. BootCore(fs) \in Seq(Writes) /\ Ops(BootCore(fs)) \subseteq Plain
  <2>1. ReadAll(fs) \in Facts
    BY ReadAllIs
  <2>2. CoreTexts(ReadAll(fs)) \in SUBSET (Texts \cup {Blank})
    BY <2>1, CoreTextsType
  <2>3. BootCore(fs) = IndexImport(CoreTexts(ReadAll(fs)))
    BY DEF BootCore, ReadAll
  <2>4. QED BY <1>1, <2>2, <2>3, IndexImportIs
<1>4. OldPasses \in Seq(Writes) /\ Ops(OldPasses) \subseteq Plain
  <2> DEFINE v == [op |-> "dreams", set |-> OldDreams]
             w == Op("unlinkDreams")
  <2>1. v \in Writes /\ w \in Writes
    BY WriteTypes
  <2>2. v \in DreamOps /\ w \in DreamOps
    BY <2>1, OpName DEF DreamOps
  <2>3. OldPasses = <<v, w>> \/ OldPasses = <<>>
    BY DEF OldPasses, FilesType
  <2> HIDE DEF v, w
  <2>4. <<v, w>> \in Seq(Writes) /\ Ops(<<v, w>>) = {v, w}
    BY <2>1, OpsOf
  <2>5. <<>> \in Seq(Writes) /\ Ops(<<>>) = {}
    BY <2>1, OneWrite
  <2>6. QED BY <1>1, <2>2, <2>3, <2>4, <2>5
<1>5. QED BY <1>2, <1>3, <1>4

LEMMA FactsOps ==
  ASSUME NEW fs \in Facts, NEW w \in Ops(To(fs)) \cup {Op("unlinkFacts")} \cup Plain, WritesFacts(w)
  PROVE  w = [op |-> "facts", facts |-> fs] /\ w.facts = fs /\ fs # docs
<1>1. w # Op("unlinkFacts") /\ w \notin Plain
  BY OpName, PlainOps DEF WritesFacts
<1>2. w \in Ops(To(fs))
  BY <1>1
<1>3. fs # docs /\ w = [op |-> "facts", facts |-> fs]
  BY <1>2, ToIs
<1>4. QED BY <1>3

\* What the start writes.
LEMMA BootWritesIs ==
  ASSUME FilesType, NEW fs \in Facts, oldFacts = None => fs = docs
  PROVE  /\ BootWrites(fs) \in Seq(Writes) /\ UnlinkLast(BootWrites(fs)) /\ Only(BootWrites(fs), fs)
         /\ fs # docs => [op |-> "facts", facts |-> fs] \in Ops(BootWrites(fs))
         /\ oldFacts # None <=> Op("unlinkFacts") \in Ops(BootWrites(fs))
<1> DEFINE a == BootIndex
           b == BootFacts(fs)
           c == BootCore(fs)
           e == OldPasses
<1>1. /\ a \in Seq(Writes) /\ Ops(a) \subseteq Plain /\ c \in Seq(Writes) /\ Ops(c) \subseteq Plain
      /\ e \in Seq(Writes) /\ Ops(e) \subseteq Plain
  BY PlainParts
<1>2. b \in Seq(Writes) /\ UnlinkLast(b)
  <2>1. CASE oldFacts = None
    <3>1. b = <<>>
      BY <2>1 DEF BootFacts
    <3>2. <<>> \in Seq(Writes)
      OBVIOUS
    <3>3. QED BY <3>1, <3>2, ImportOrder
  <2>2. CASE oldFacts # None
    <3>1. b = ImportWrites(To(fs))
      BY <2>2 DEF BootFacts
    <3>2. QED BY <3>1, ImportOrder
  <2>3. QED BY <2>1, <2>2
<1>3. /\ oldFacts = None => Ops(b) = {}
      /\ oldFacts # None => Ops(b) = Ops(To(fs)) \cup {Op("unlinkFacts")}
  <2>1. oldFacts = None => b = <<>>
    BY DEF BootFacts
  <2>2. oldFacts # None => b = ImportWrites(To(fs))
    BY DEF BootFacts
  <2>3. To(fs) \in Seq(Writes)
    BY ToIs
  <2>4. Ops(ImportWrites(To(fs))) = Ops(To(fs)) \cup {Op("unlinkFacts")}
    BY <2>3, ImportWritesIs
  <2>5. QED BY <2>1, <2>2, <2>4, OpsOf
<1>4. BootWrites(fs) = ((a \o b) \o c) \o e
  BY DEF BootWrites
<1> HIDE DEF a, b, c, e
<1>5. a \o b \in Seq(Writes) /\ Ops(a \o b) = Ops(a) \cup Ops(b) /\ UnlinkLast(a \o b)
  BY <1>1, <1>2, OpsConcat, PlainBefore
<1>6. /\ (a \o b) \o c \in Seq(Writes) /\ Ops((a \o b) \o c) = Ops(a \o b) \cup Ops(c)
      /\ UnlinkLast((a \o b) \o c)
  <2> DEFINE x == a \o b
  <2>1. x \in Seq(Writes) /\ UnlinkLast(x)
    BY <1>5
  <2> HIDE DEF x
  <2>2. x \o c \in Seq(Writes) /\ Ops(x \o c) = Ops(x) \cup Ops(c) /\ UnlinkLast(x \o c)
    BY <1>1, <2>1, OpsConcat, PlainAfter
  <2>3. QED BY <2>2 DEF x
<1>7. /\ ((a \o b) \o c) \o e \in Seq(Writes)
      /\ Ops(((a \o b) \o c) \o e) = Ops((a \o b) \o c) \cup Ops(e)
      /\ UnlinkLast(((a \o b) \o c) \o e)
  <2> DEFINE x == (a \o b) \o c
  <2>1. x \in Seq(Writes) /\ UnlinkLast(x)
    BY <1>6
  <2> HIDE DEF x
  <2>2. x \o e \in Seq(Writes) /\ Ops(x \o e) = Ops(x) \cup Ops(e) /\ UnlinkLast(x \o e)
    BY <1>1, <2>1, OpsConcat, PlainAfter
  <2>3. QED BY <2>2 DEF x
<1>8. /\ BootWrites(fs) \in Seq(Writes) /\ UnlinkLast(BootWrites(fs))
      /\ Ops(BootWrites(fs)) = Ops(b) \cup Ops(a) \cup Ops(c) \cup Ops(e)
  BY <1>4, <1>5, <1>6, <1>7
<1>9. Ops(BootWrites(fs)) \subseteq Ops(To(fs)) \cup {Op("unlinkFacts")} \cup Plain
  BY <1>1, <1>3, <1>8
<1>10. Only(BootWrites(fs), fs)
  BY <1>9, FactsOps DEF Only
<1>11. fs # docs => [op |-> "facts", facts |-> fs] \in Ops(BootWrites(fs))
  BY <1>3, <1>8, ToIs
<1>12. oldFacts # None => Op("unlinkFacts") \in Ops(BootWrites(fs))
  BY <1>3, <1>8
<1>13. oldFacts = None => Op("unlinkFacts") \notin Ops(BootWrites(fs))
  <2>1. Op("unlinkFacts") \notin Plain
    BY OpName, PlainOps
  <2>2. QED BY <1>1, <1>3, <1>8, <2>1
<1>14. QED BY <1>8, <1>10, <1>11, <1>12, <1>13

OldCore == {f.text : f \in {g \in IF oldFacts = None THEN {} ELSE oldFacts : g.core}}
MigrateIndex == IF oldFacts # None /\ (oldIndex # None \/ OldCore # {})
                THEN <<[op |-> "index", texts |-> OldCore]>> ELSE <<>>
MigrateDreams == IF oldDreams = None THEN <<>> ELSE <<[op |-> "dreams", set |-> oldDreams]>>
MigrateWrites(fs) == To(fs) \o MigrateIndex \o MigrateDreams \o <<Op("mark")>>

\* What the command writes.
LEMMA MigrateWritesIs ==
  ASSUME FilesType, NEW fs \in Facts
  PROVE  /\ MigrateWrites(fs) \in Seq(Writes) /\ UnlinkLast(MigrateWrites(fs))
         /\ Only(MigrateWrites(fs), fs)
         /\ fs # docs => [op |-> "facts", facts |-> fs] \in Ops(MigrateWrites(fs))
         /\ Op("unlinkFacts") \notin Ops(MigrateWrites(fs))
<1> DEFINE a == To(fs)
           b == MigrateIndex
           c == MigrateDreams
           e == <<Op("mark")>>
<1>1. a \in Seq(Writes) /\ UnlinkLast(a)
  BY ImportOrder
<1>2. b \in Seq(Writes) /\ Ops(b) \subseteq Plain
  <2> DEFINE w == [op |-> "index", texts |-> OldCore]
  <2>1. OldCore \in SUBSET (Texts \cup {Blank})
    <3> DEFINE old == IF oldFacts = None THEN {} ELSE oldFacts
    <3>1. old \in SUBSET OldSet
      <4>1. oldFacts \in (SUBSET [id : Ids, text : Texts, core : BOOLEAN]) \cup {None}
        BY DEF FilesType
      <4>2. QED BY <4>1 DEF OldSet
    <3>2. \A f \in old : f.text \in Texts
      BY <3>1 DEF OldSet
    <3>3. OldCore = {f.text : f \in {g \in old : g.core}}
      BY DEF OldCore
    <3>4. QED BY <3>2, <3>3
  <2>2. w \in IndexOps
    BY <2>1, IndexWrite
  <2>3. w \in Writes
    BY <2>2 DEF IndexOps
  <2>4. b = <<w>> \/ b = <<>>
    BY DEF MigrateIndex
  <2> HIDE DEF w
  <2>5. QED BY <2>2, <2>3, <2>4, OneWrite DEF Plain
<1>3. c \in Seq(Writes) /\ Ops(c) \subseteq Plain
  <2> DEFINE w == [op |-> "dreams", set |-> OldDreams]
  <2>1. w \in Writes
    BY WriteTypes
  <2>2. w \in DreamOps
    BY <2>1 DEF DreamOps
  <2>3. c = <<w>> \/ c = <<>>
    BY DEF MigrateDreams, FilesType
  <2> HIDE DEF w
  <2>4. QED BY <2>1, <2>2, <2>3, OneWrite DEF Plain
<1>4. e \in Seq(Writes) /\ Ops(e) \subseteq Plain
  <2> DEFINE w == Op("mark")
  <2>1. w \in Writes
    BY WriteTypes
  <2>2. w \in DreamOps
    BY <2>1, OpName DEF DreamOps
  <2>3. e = <<w>>
    OBVIOUS
  <2> HIDE DEF w
  <2>4. QED BY <2>1, <2>2, <2>3, OneWrite DEF Plain
<1>5. MigrateWrites(fs) = ((a \o b) \o c) \o e
  BY DEF MigrateWrites
<1>6. Ops(a) = Ops(To(fs))
  OBVIOUS
<1> HIDE DEF a, b, c, e
<1>7. a \o b \in Seq(Writes) /\ Ops(a \o b) = Ops(a) \cup Ops(b) /\ UnlinkLast(a \o b)
  BY <1>1, <1>2, OpsConcat, PlainAfter
<1>8. /\ (a \o b) \o c \in Seq(Writes) /\ Ops((a \o b) \o c) = Ops(a \o b) \cup Ops(c)
      /\ UnlinkLast((a \o b) \o c)
  <2> DEFINE x == a \o b
  <2>1. x \in Seq(Writes) /\ UnlinkLast(x)
    BY <1>7
  <2> HIDE DEF x
  <2>2. x \o c \in Seq(Writes) /\ Ops(x \o c) = Ops(x) \cup Ops(c) /\ UnlinkLast(x \o c)
    BY <1>3, <2>1, OpsConcat, PlainAfter
  <2>3. QED BY <2>2 DEF x
<1>9. /\ ((a \o b) \o c) \o e \in Seq(Writes)
      /\ Ops(((a \o b) \o c) \o e) = Ops((a \o b) \o c) \cup Ops(e)
      /\ UnlinkLast(((a \o b) \o c) \o e)
  <2> DEFINE x == (a \o b) \o c
  <2>1. x \in Seq(Writes) /\ UnlinkLast(x)
    BY <1>8
  <2> HIDE DEF x
  <2>2. x \o e \in Seq(Writes) /\ Ops(x \o e) = Ops(x) \cup Ops(e) /\ UnlinkLast(x \o e)
    BY <1>4, <2>1, OpsConcat, PlainAfter
  <2>3. QED BY <2>2 DEF x
<1>10. /\ MigrateWrites(fs) \in Seq(Writes) /\ UnlinkLast(MigrateWrites(fs))
       /\ Ops(MigrateWrites(fs)) = Ops(To(fs)) \cup Ops(b) \cup Ops(c) \cup Ops(e)
  BY <1>5, <1>6, <1>7, <1>8, <1>9
<1>11. Ops(MigrateWrites(fs)) \subseteq Ops(To(fs)) \cup Plain
  BY <1>2, <1>3, <1>4, <1>10
<1>12. Only(MigrateWrites(fs), fs)
  BY <1>11, FactsOps DEF Only
<1>13. fs # docs => [op |-> "facts", facts |-> fs] \in Ops(MigrateWrites(fs))
  BY <1>10, ToIs
<1>14. Op("unlinkFacts") \notin Ops(MigrateWrites(fs))
  <2>1. Op("unlinkFacts") \notin Plain
    BY OpName, PlainOps
  <2>2. Op("unlinkFacts") \notin Ops(To(fs))
    <3>1. Op("unlinkFacts") # [op |-> "facts", facts |-> fs]
      BY OpName
    <3>2. QED BY <3>1, ToIs
  <2>3. QED BY <1>11, <2>1, <2>2
<1>15. QED BY <1>10, <1>12, <1>13, <1>14

\* The steps of startup, the command and a write, in these terms.
LEMMA BootIs ==
  ASSUME Boot
  PROVE  \E chosen : /\ chosen \subseteq (IF oldFacts = None THEN {} ELSE oldFacts)
                     /\ oldFacts # None => Imports(chosen)
                     /\ writes' = BootWrites(With(chosen)) /\ text' = TextsOf(With(chosen))
BY DEF Boot, BootWrites, BootIndex, BootFacts, BootCore, OldPasses

LEMMA MigrateIs ==
  ASSUME Migrate
  PROVE  \E old : /\ old = IF oldFacts = None THEN {} ELSE oldFacts
                  /\ writes' = MigrateWrites(With(old)) /\ text' = TextsOf(With(old))
BY DEF Migrate, MigrateWrites, MigrateIndex, MigrateDreams, OldCore

LEMMA OldType ==
  ASSUME FilesType, NEW old, old \subseteq (IF oldFacts = None THEN {} ELSE oldFacts)
  PROVE  old \in SUBSET OldSet /\ With(old) \in Facts /\ (oldFacts = None => With(old) = docs)
<1>1. oldFacts \in (SUBSET [id : Ids, text : Texts, core : BOOLEAN]) \cup {None}
  BY DEF FilesType
<1>2. old \in SUBSET OldSet
  BY <1>1 DEF OldSet
<1>3. With(old) \in Facts /\ (old = {} => With(old) = docs)
  BY <1>2, WithIs
<1>4. QED BY <1>2, <1>3

\* One write: of one document, or of something else, which is then done.
LEMMA OneWriteStep ==
  ASSUME TypeOK, WriteNext
  PROVE  /\ writes # <<>> /\ Head(writes) \in Writes /\ Tail(writes) \in Seq(Writes)
         /\ Head(writes) \in Ops(writes) /\ Ops(writes) = {Head(writes)} \cup Ops(Tail(writes))
         /\ \/ WritesFacts(Head(writes)) /\ WriteFact(Head(writes).facts)
               /\ Head(writes).facts \in Facts
            \/ ~WritesFacts(Head(writes)) /\ docs' = docs /\ writes' = Tail(writes)
         /\ \/ writes' = writes /\ WritesFacts(Head(writes))
            \/ writes' = Tail(writes) /\ (WritesFacts(Head(writes)) => docs' = Head(writes).facts)
<1>1. writes \in Seq(Writes) /\ writes # <<>>
  BY DEF TypeOK, ServerType, WriteNext
<1>2. /\ Head(writes) \in Writes /\ Tail(writes) \in Seq(Writes) /\ Head(writes) \in Ops(writes)
      /\ Ops(writes) = {Head(writes)} \cup Ops(Tail(writes))
  BY <1>1, OpsTail
<1>3. /\ IF Head(writes).op = "facts" THEN WriteFact(Head(writes).facts) ELSE UNCHANGED docs
      /\ writes' = IF Head(writes).op = "facts" /\ docs' # Head(writes).facts
                   THEN writes ELSE Tail(writes)
  BY DEF WriteNext
<1>4. WritesFacts(Head(writes)) => Head(writes).facts \in Facts
  BY <1>2, WriteFields DEF WritesFacts
<1>5. QED BY <1>1, <1>2, <1>3, <1>4 DEF WritesFacts

LEMMA WriteFactIs ==
  ASSUME FilesType, NEW fs \in Facts, WriteFact(fs)
  PROVE  /\ docs' \in Facts
         /\ \E i \in Ids : /\ docs[i] # fs[i] /\ docs'[i] = fs[i]
                           /\ \A j \in Ids : j # i => docs'[j] = docs[j]
<1>1. PICK i \in Ids : docs[i] # fs[i] /\ docs' = [docs EXCEPT ![i] = fs[i]]
  BY DEF WriteFact
<1>2. docs \in [Ids -> Fact \cup {None}] /\ fs[i] \in Fact \cup {None}
  BY DEF FilesType, Facts
<1>3. QED BY <1>1, <1>2 DEF Facts

LEMMA FilesWrite == ASSUME TypeOK, WriteNext PROVE FilesType'
<1> DEFINE w == Head(writes)
<1>1. w \in Writes
  BY OneWriteStep
<1>2. docs' \in Facts
  <2>1. CASE WritesFacts(w)
    <3>1. w.facts \in Facts /\ WriteFact(w.facts)
      BY <2>1, OneWriteStep
    <3>2. QED BY <3>1, WriteFactIs DEF TypeOK
  <2>2. CASE ~WritesFacts(w)
    <3>1. docs' = docs
      BY <2>2, OneWriteStep
    <3>2. QED BY <3>1 DEF TypeOK, FilesType
  <2>3. QED BY <2>1, <2>2
<1>3. /\ w.op = "index" => w.texts \subseteq Texts \cup {Blank}
      /\ w.op = "dreams" => w.set \subseteq OldDreams
  BY <1>1, WriteFields
<1>4. /\ IF w.op = "index" THEN coreIndex' = w.texts /\ cut' = (server # "up")
         ELSE UNCHANGED <<coreIndex, cut>>
      /\ dreams' = IF w.op = "dreams" THEN dreams \cup w.set ELSE dreams
      /\ oldFacts' = IF w.op = "unlinkFacts" THEN None ELSE oldFacts
      /\ oldIndex' = IF w.op = "unlinkIndex" THEN None ELSE oldIndex
      /\ oldDreams' = IF w.op = "unlinkDreams" THEN None ELSE oldDreams
      /\ marker' = (marker \/ w.op = "mark")
  BY DEF WriteNext
<1> HIDE DEF w
<1>5. coreIndex' \in (SUBSET (Texts \cup {Blank})) \cup {None}
  BY <1>3, <1>4 DEF TypeOK, FilesType
<1>6. dreams' \subseteq Dreamers \cup OldDreams
  BY <1>3, <1>4 DEF TypeOK, FilesType
<1>7. oldFacts' \in (SUBSET [id : Ids, text : Texts, core : BOOLEAN]) \cup {None}
  BY <1>4 DEF TypeOK, FilesType
<1>8. oldIndex' \in (SUBSET Texts) \cup {None} /\ oldDreams' \in {OldDreams, None}
  BY <1>4 DEF TypeOK, FilesType
<1>9. marker' \in BOOLEAN
  BY <1>4, ZenonT(30)
<1>10. QED BY <1>2, <1>5, <1>6, <1>7, <1>8, <1>9 DEF FilesType

\* Everything that is no write leaves the files, and the passes they record.
LEMMA FilesNext == ASSUME TypeOK, [Next]_vars PROVE FilesType'
<1>1. ASSUME UNCHANGED <<docs, coreIndex, oldFacts, oldIndex, oldDreams, marker>>,
             dreams' \subseteq Dreamers \cup OldDreams
      PROVE  FilesType'
  BY <1>1 DEF TypeOK, FilesType
<1>2. ASSUME UNCHANGED files PROVE FilesType'
  BY <1>2, FilesKept DEF TypeOK
<1>3. CASE WriteNext
  BY <1>3, FilesWrite
<1>4. CASE Boot \/ Dedupe \/ Crash \/ Migrate
  BY <1>2, <1>4 DEF Boot, Dedupe, Crash, Migrate
<1>5. CASE Edit
  BY <1>2, <1>5 DEF Edit, Add, Update, Delete, Edits
<1>6. CASE SetCore
  BY <1>2, <1>6 DEF SetCore
<1>7. CASE ClearDreams
  BY <1>1, <1>7 DEF ClearDreams
<1>8. ASSUME NEW d \in Dreamers, Pass(d) PROVE FilesType'
  <2>1. CASE Record(d)
    <3>1. UNCHANGED <<docs, coreIndex, oldFacts, oldIndex, oldDreams, marker>>
      BY <2>1 DEF Record
    <3>2. dreams' = dreams \/ dreams' = dreams \cup {d}
      BY <2>1 DEF Record
    <3>3. dreams \subseteq Dreamers \cup OldDreams
      BY DEF TypeOK, FilesType
    <3>4. QED BY <1>1, <3>1, <3>2, <3>3
  <2>2. CASE ~Record(d)
    <3>1. UNCHANGED files
      BY <1>8, <2>2 DEF Pass, BeginPass, ReadCandidates, AskLLM, Apply, ReadBefore, Consolidate,
                        ReadAfter, EndPass
    <3>2. QED BY <1>2, <3>1
  <2>3. QED BY <2>1, <2>2
<1>9. CASE UNCHANGED vars
  BY <1>2, <1>9 DEF vars
<1>10. QED BY <1>3, <1>4, <1>5, <1>6, <1>7, <1>8, <1>9 DEF Next

(* Saves *)

TextSet == [Ids -> Texts \cup {Blank, None}]

\* Every document reads as the text does.
Agrees(fs, tx) == \A i \in Ids :
  /\ fs[i] = None <=> tx[i] = None
  /\ fs[i] # None => ReadFact(fs[i]).text = ReadText(tx[i])

LEMMA ReadAgrees ==
  ASSUME NEW fs \in Facts, NEW tx, Agrees(fs, tx) PROVE Agrees(ReadAll(fs), tx)
<1>1. ASSUME NEW i \in Ids
      PROVE  /\ ReadAll(fs)[i] = None <=> tx[i] = None
             /\ ReadAll(fs)[i] # None => ReadFact(ReadAll(fs)[i]).text = ReadText(tx[i])
  <2>1. ReadAll(fs)[i] = ReadFact(fs[i]) /\ fs[i] \in Fact \cup {None}
        /\ (ReadAll(fs)[i] = None <=> fs[i] = None)
    BY ReadAllIs
  <2>2. ReadFact(ReadFact(fs[i])) = ReadFact(fs[i])
    BY <2>1, ReadFactIs
  <2>3. (fs[i] = None <=> tx[i] = None) /\ (fs[i] # None => ReadFact(fs[i]).text = ReadText(tx[i]))
    BY DEF Agrees
  <2>4. QED BY <2>1, <2>2, <2>3
<1>2. QED BY <1>1 DEF Agrees

\* One fact is written, or goes.
LEMMA SetOne ==
  ASSUME NEW fs \in Facts, NEW i \in Ids, NEW f \in Fact
  PROVE  /\ [fs EXCEPT ![i] = f] \in Facts
         /\ \A tx \in TextSet, t \in Texts \cup {Blank} :
              Agrees(fs, tx) /\ ReadFact(f).text = ReadText(t) =>
                Agrees([fs EXCEPT ![i] = f], [tx EXCEPT ![i] = t])
<1> DEFINE gs == [fs EXCEPT ![i] = f]
<1>1. gs \in Facts /\ gs[i] = f /\ \A j \in Ids : j # i => gs[j] = fs[j]
  BY DEF Facts
<1>2. ASSUME NEW tx \in TextSet, NEW t \in Texts \cup {Blank},
             Agrees(fs, tx), ReadFact(f).text = ReadText(t)
      PROVE  Agrees(gs, [tx EXCEPT ![i] = t])
  <2> DEFINE ty == [tx EXCEPT ![i] = t]
  <2>1. ty[i] = t /\ \A j \in Ids : j # i => ty[j] = tx[j]
    BY DEF TextSet
  <2>2. t # None /\ f # None
    BY MemoryAssumption, NoneApart
  <2> HIDE DEF gs, ty
  <2>3. ASSUME NEW j \in Ids
        PROVE  /\ gs[j] = None <=> ty[j] = None
               /\ gs[j] # None => ReadFact(gs[j]).text = ReadText(ty[j])
    <3>1. CASE j = i
      BY <1>1, <1>2, <2>1, <2>2, <3>1
    <3>2. CASE j # i
      BY <1>1, <1>2, <2>1, <3>2 DEF Agrees
    <3>3. QED BY <3>1, <3>2
  <2>4. QED BY <2>3 DEF Agrees, gs, ty
<1>3. QED BY <1>1, <1>2

LEMMA DropOne ==
  ASSUME NEW fs \in Facts, NEW i \in Ids
  PROVE  /\ [fs EXCEPT ![i] = None] \in Facts
         /\ \A tx \in TextSet :
              Agrees(fs, tx) => Agrees([fs EXCEPT ![i] = None], [tx EXCEPT ![i] = None])
BY DEF Facts, TextSet, Agrees

LEMMA NewFact ==
  ASSUME NEW t \in Texts, NEW c \in BOOLEAN
  PROVE  [text |-> t, core |-> c] \in Fact /\ ReadFact([text |-> t, core |-> c]).text = ReadText(t)
<1>1. [text |-> t, core |-> c] \in Fact /\ [text |-> t, core |-> c] # None
  BY NoneApart
<1>2. QED BY <1>1, ReadFactIs

\* What is read is of its type and agrees if the documents do.
LEMMA ReadOk ==
  ASSUME TypeOK
  PROVE  /\ Read \in Facts /\ docs \in Facts /\ text \in TextSet
         /\ Agrees(docs, text) => Agrees(Read, text)
         /\ \A i \in Ids : (Read[i] = None <=> docs[i] = None) /\ Read[i] = ReadFact(docs[i])
                           /\ Read[i] \in Fact \cup {None}
BY ReadAgrees, ReadAllIs, ReadIs DEF TypeOK, FilesType, HistoryType, TextSet

\* A save of facts that agree with the texts then.
SavesAgreed == \E fs \in Facts : Saves(fs) /\ (Agrees(docs, text) => Agrees(fs, text'))

LEMMA AddIs ==
  ASSUME TypeOK, NEW t \in Texts, NEW c \in BOOLEAN, Add(t, c)
  PROVE  SavesAgreed /\ text' \in TextSet /\ used' \subseteq Ids
<1>1. PICK i \in Ids \ used : /\ used' = used \cup {i}
                              /\ Saves([Read EXCEPT ![i] = [text |-> t, core |-> c]])
                              /\ text' = [text EXCEPT ![i] = t]
  BY DEF Add
<1> DEFINE f == [text |-> t, core |-> c]
<1>2. f \in Fact /\ ReadFact(f).text = ReadText(t)
  BY NewFact
<1>3. Read \in Facts /\ text \in TextSet /\ (Agrees(docs, text) => Agrees(Read, text))
  BY ReadOk
<1>4. Saves([Read EXCEPT ![i] = f])
  BY <1>1
<1> HIDE DEF f
<1>5. /\ [Read EXCEPT ![i] = f] \in Facts
      /\ Agrees(docs, text) => Agrees([Read EXCEPT ![i] = f], text')
  BY <1>1, <1>2, <1>3, SetOne
<1>6. SavesAgreed
  BY <1>4, <1>5 DEF SavesAgreed
<1>7. text' \in TextSet
  BY <1>1, <1>3 DEF TextSet
<1>8. used' \subseteq Ids
  BY <1>1 DEF TypeOK, HistoryType
<1>9. QED BY <1>6, <1>7, <1>8

LEMMA DeleteIs ==
  ASSUME TypeOK, NEW i \in Ids, Delete(i) PROVE SavesAgreed /\ text' \in TextSet /\ used' = used
<1>1. Saves([Read EXCEPT ![i] = None]) /\ text' = [text EXCEPT ![i] = None] /\ used' = used
  BY DEF Delete
<1>2. Read \in Facts /\ text \in TextSet /\ (Agrees(docs, text) => Agrees(Read, text))
  BY ReadOk
<1>3. /\ [Read EXCEPT ![i] = None] \in Facts
      /\ Agrees(docs, text) => Agrees([Read EXCEPT ![i] = None], text')
  BY <1>1, <1>2, DropOne
<1>4. SavesAgreed
  BY <1>1, <1>3 DEF SavesAgreed
<1>5. text' \in TextSet
  BY <1>1, <1>2 DEF TextSet
<1>6. QED BY <1>1, <1>4, <1>5

LEMMA UpdateIs ==
  ASSUME TypeOK, NEW i \in Ids, NEW t \in Texts, NEW c \in BOOLEAN, Update(i, t, c)
  PROVE  SavesAgreed /\ text' \in TextSet /\ used' = used
<1> DEFINE f == [Read[i] EXCEPT !.text = t]
<1>1. /\ Saves([Read EXCEPT ![i].text = t]) /\ text' = [text EXCEPT ![i] = t] /\ used' = used
      /\ Read[i] # None
  BY DEF Update
<1>2. Read \in Facts /\ text \in TextSet /\ (Agrees(docs, text) => Agrees(Read, text))
  BY ReadOk
<1>3. Read[i] \in Fact
  BY <1>1, <1>2 DEF Facts
<1>4. f \in Fact /\ ReadFact(f).text = ReadText(t)
  <2>1. f = [text |-> t, core |-> Read[i].core] /\ Read[i].core \in BOOLEAN
    BY <1>3 DEF Fact
  <2>2. QED BY <2>1, NewFact
<1>5. [Read EXCEPT ![i].text = t] = [Read EXCEPT ![i] = f]
  OBVIOUS
<1> HIDE DEF f
<1>6. /\ [Read EXCEPT ![i] = f] \in Facts
      /\ Agrees(docs, text) => Agrees([Read EXCEPT ![i] = f], text')
  BY <1>1, <1>2, <1>4, SetOne
<1>7. SavesAgreed
  BY <1>1, <1>5, <1>6 DEF SavesAgreed
<1>8. text' \in TextSet
  BY <1>1, <1>2 DEF TextSet
<1>9. QED BY <1>1, <1>7, <1>8

\* Another core flag.
LEMMA Recore ==
  ASSUME NEW f \in Fact, NEW c \in BOOLEAN
  PROVE  /\ [f EXCEPT !.core = c] \in Fact /\ [f EXCEPT !.core = c].text = f.text
         /\ ReadFact([f EXCEPT !.core = c]).text = ReadFact(f).text
<1>1. [f EXCEPT !.core = c] \in Fact /\ [f EXCEPT !.core = c].text = f.text
  BY DEF Fact
<1>2. [f EXCEPT !.core = c] # None /\ f # None
  BY <1>1, NoneApart
<1>3. QED BY <1>1, <1>2, ReadFactIs

LEMMA SetCoreIs ==
  ASSUME TypeOK, SetCore
  PROVE  (SavesAgreed \/ writes' = writes) /\ text' = text /\ used' = used
<1>1. text' = text /\ used' = used
  BY DEF SetCore, history
<1>2. CASE Read[put.id] # None
  <2> DEFINE i == put.id
             f == [Read[i] EXCEPT !.core = put.core]
  <2>1. Saves([Read EXCEPT ![i].core = put.core])
    BY <1>2 DEF SetCore
  <2>2. i \in Ids /\ put.core \in BOOLEAN
    BY DEF SetCore, TypeOK, ServerType
  <2>3. Read \in Facts /\ text \in TextSet /\ (Agrees(docs, text) => Agrees(Read, text))
        /\ Read[i] \in Fact
    BY <1>2, <2>2, ReadOk
  <2>4. f \in Fact /\ ReadFact(f).text = ReadFact(Read[i]).text
    BY <2>2, <2>3, Recore
  <2>5. [Read EXCEPT ![i].core = put.core] = [Read EXCEPT ![i] = f]
    OBVIOUS
  <2> HIDE DEF f, i
  <2>6. [Read EXCEPT ![i] = f] \in Facts
    BY <2>2, <2>3, <2>4, SetOne
  <2>7. ASSUME Agrees(docs, text) PROVE Agrees([Read EXCEPT ![i] = f], text)
    <3>1. Agrees(Read, text)
      BY <2>3, <2>7
    <3>2. text[i] # None /\ ReadFact(Read[i]).text = ReadText(text[i])
      BY <2>2, <2>3, <3>1, NoneApart DEF Agrees
    <3>3. text[i] \in Texts \cup {Blank}
      BY <2>2, <2>3, <3>2 DEF TextSet
    <3>4. [text EXCEPT ![i] = text[i]] = text
      BY <2>3 DEF TextSet
    <3>5. QED BY <2>2, <2>3, <2>4, <3>1, <3>2, <3>3, <3>4, SetOne
  <2>8. QED BY <1>1, <2>1, <2>5, <2>6, <2>7 DEF SavesAgreed
<1>3. CASE Read[put.id] = None
  BY <1>1, <1>3 DEF SetCore
<1>4. QED BY <1>2, <1>3

\* What a pass applies, and what that removes.
LEMMA ApplyIs ==
  ASSUME TypeOK, NEW d \in Dreamers, Apply(d)
  PROVE  /\ \E fs \in Facts :
              /\ Saves(fs) /\ (Agrees(docs, text) => Agrees(fs, text'))
              /\ \A i \in There(Read) : fs[i] = None => i \in Pruned(d, Read) \cup Merged(d, Read)
         /\ text' \in TextSet /\ used' \subseteq Ids /\ changed' \in [Dreamers -> BOOLEAN]
<1> DEFINE new == {t \in answer[d].new : t \notin {Read[i].text : i \in There(Read)}}
           fresh == {i \in Ids \ used : \A j \in Ids \ used : i <= j}
           drop == Pruned(d, Read) \cup Merged(d, Read)
<1>1. PICK add \in {[i \in fresh |-> t] : t \in new} \cup (IF new = {} THEN {<<>>} ELSE {}) :
        /\ Saves([i \in Ids |-> IF i \in drop THEN None
                                ELSE IF i \in DOMAIN add THEN [text |-> add[i], core |-> FALSE]
                                ELSE Read[i]])
        /\ text' = [i \in Ids |-> IF i \in drop THEN None
                                  ELSE IF i \in DOMAIN add THEN add[i] ELSE text[i]]
  BY DEF Apply, Base
<1>2. used' = used \cup (IF new = {} THEN {} ELSE fresh)
  BY DEF Apply, Base
<1>3. changed' = [changed EXCEPT ![d] = new # {} \/ drop # {}]
  BY DEF Apply, Base
<1>4. new \subseteq Texts
  <2>1. answer[d] \in Answers
    BY DEF TypeOK, PassType
  <2>2. QED BY <2>1 DEF Answers
<1>5. fresh \subseteq Ids
  OBVIOUS
<1> HIDE DEF new, fresh, drop
<1>6. \A i \in DOMAIN add : i \in Ids /\ add[i] \in Texts
  <2>1. CASE \E t \in new : add = [i \in fresh |-> t]
    BY <1>4, <1>5, <2>1
  <2>2. CASE add = <<>>
    BY <2>2
  <2>3. QED BY <1>1, <2>1, <2>2
<1>7. Read \in Facts /\ text \in TextSet /\ (Agrees(docs, text) => Agrees(Read, text))
  BY ReadOk
<1> DEFINE fs == [i \in Ids |-> IF i \in drop THEN None
                               ELSE IF i \in DOMAIN add THEN [text |-> add[i], core |-> FALSE]
                               ELSE Read[i]]
<1>8. Saves(fs)
  BY <1>1
<1>9. \A i \in DOMAIN add : /\ [text |-> add[i], core |-> FALSE] \in Fact
                           /\ [text |-> add[i], core |-> FALSE] # None /\ add[i] # None
                           /\ ReadFact([text |-> add[i], core |-> FALSE]).text = ReadText(add[i])
  <2>1. \A t \in Texts : /\ [text |-> t, core |-> FALSE] \in Fact
                         /\ ReadFact([text |-> t, core |-> FALSE]).text = ReadText(t)
    BY NewFact
  <2>2. \A t \in Texts : [text |-> t, core |-> FALSE] # None /\ t # None
    BY <2>1, NoneApart, MemoryAssumption
  <2>3. QED BY <1>6, <2>1, <2>2
<1>10. \A i \in Ids : fs[i] \in Fact \cup {None}
  BY <1>7, <1>9 DEF Facts
<1>11. fs \in Facts
  BY <1>10 DEF Facts
<1>12. \A i \in Ids : text'[i] \in Texts \cup {Blank, None}
  BY <1>1, <1>6, <1>7 DEF TextSet
<1>13. text' \in TextSet
  BY <1>1, <1>12 DEF TextSet
<1>14. ASSUME Agrees(Read, text) PROVE Agrees(fs, text')
  <2>1. ASSUME NEW i \in Ids
        PROVE  /\ fs[i] = None <=> text'[i] = None
               /\ fs[i] # None => ReadFact(fs[i]).text = ReadText(text'[i])
    <3>1. CASE i \in drop
      BY <1>1, <3>1
    <3>2. CASE i \notin drop /\ i \in DOMAIN add
      <4>1. fs[i] = [text |-> add[i], core |-> FALSE] /\ text'[i] = add[i]
        BY <1>1, <3>2
      <4>2. QED BY <1>9, <3>2, <4>1
    <3>3. CASE i \notin drop /\ i \notin DOMAIN add
      <4>1. fs[i] = Read[i] /\ text'[i] = text[i]
        BY <1>1, <3>3
      <4>2. QED BY <1>14, <4>1 DEF Agrees
    <3>4. QED BY <3>1, <3>2, <3>3
  <2> HIDE DEF fs
  <2>2. QED BY <2>1 DEF Agrees
<1>15. \A i \in There(Read) : fs[i] = None => i \in drop
  <2>1. ASSUME NEW i \in There(Read), i \notin drop PROVE fs[i] # None
    <3>1. i \in Ids /\ Read[i] # None
      BY DEF There
    <3>2. CASE i \in DOMAIN add
      <4>1. fs[i] = [text |-> add[i], core |-> FALSE]
        BY <2>1, <3>1, <3>2
      <4>2. QED BY <1>9, <3>2, <4>1
    <3>3. CASE i \notin DOMAIN add
      BY <2>1, <3>1, <3>3
    <3>4. QED BY <3>2, <3>3
  <2>2. QED BY <2>1
<1> HIDE DEF fs
<1>16. used' \subseteq Ids
  BY <1>2, <1>5 DEF TypeOK, HistoryType
<1>17. changed' \in [Dreamers -> BOOLEAN]
  <2>1. changed \in [Dreamers -> BOOLEAN]
    BY DEF TypeOK, PassType
  <2>2. (new # {} \/ drop # {}) \in BOOLEAN
    OBVIOUS
  <2>3. QED BY <1>3, <2>1, <2>2
<1>18. \E gs \in Facts :
         /\ Saves(gs) /\ (Agrees(docs, text) => Agrees(gs, text'))
         /\ \A i \in There(Read) : gs[i] = None => i \in Pruned(d, Read) \cup Merged(d, Read)
  BY <1>7, <1>8, <1>11, <1>14, <1>15 DEF drop
<1>19. QED BY <1>13, <1>16, <1>17, <1>18

\* Facts that differ from others in the core flags, or are gone.
LEMMA Rewrite ==
  ASSUME NEW rs \in Facts, NEW tx, Agrees(rs, tx), NEW fs \in Facts, NEW ty,
         \A i \in Ids : \/ fs[i] = None /\ ty[i] = None
                        \/ /\ rs[i] # None /\ fs[i] # None /\ ty[i] = tx[i]
                           /\ ReadFact(fs[i]).text = ReadFact(rs[i]).text
  PROVE  Agrees(fs, ty)
BY DEF Agrees

LEMMA ConsolidateIs ==
  ASSUME TypeOK, NEW d \in Dreamers, Consolidate(d)
  PROVE  SavesAgreed /\ text' = text /\ used' = used
<1>1. PICK best :
        Saves([i \in Ids |-> IF Read[i] = None THEN None
                             ELSE [Read[i] EXCEPT !.core = Read[i].text \in best]])
  BY DEF Consolidate
<1>2. Read \in Facts /\ text \in TextSet /\ (Agrees(docs, text) => Agrees(Read, text))
  BY ReadOk
<1> DEFINE new(f) == [f EXCEPT !.core = f.text \in best]
           fs == [i \in Ids |-> IF Read[i] = None THEN None ELSE new(Read[i])]
<1>3. Saves(fs)
  BY <1>1
<1>4. \A f \in Fact : new(f) \in Fact /\ ReadFact(new(f)).text = ReadFact(f).text /\ new(f) # None
  <2>1. ASSUME NEW f \in Fact
        PROVE  new(f) \in Fact /\ ReadFact(new(f)).text = ReadFact(f).text /\ new(f) # None
    <3>1. (f.text \in best) \in BOOLEAN
      OBVIOUS
    <3>2. new(f) \in Fact /\ ReadFact(new(f)).text = ReadFact(f).text
      BY <3>1, Recore
    <3>3. QED BY <3>2, NoneApart
  <2>2. QED BY <2>1
<1> HIDE DEF new
<1>5. \A i \in Ids : Read[i] # None => Read[i] \in Fact
  BY <1>2 DEF Facts
<1>6. fs \in Facts
  <2>1. \A i \in Ids : fs[i] \in Fact \cup {None}
    BY <1>4, <1>5
  <2>2. QED BY <2>1 DEF Facts
<1>7. \A i \in Ids : \/ fs[i] = None /\ Read[i] = None
                     \/ /\ Read[i] # None /\ fs[i] # None
                        /\ ReadFact(fs[i]).text = ReadFact(Read[i]).text
  BY <1>4, <1>5
<1> HIDE DEF fs
<1>8. text' = text /\ used' = used
  BY DEF Consolidate
<1>9. ASSUME Agrees(Read, text) PROVE Agrees(fs, text)
  <2>1. \A i \in Ids : Read[i] = None => text[i] = None
    BY <1>9 DEF Agrees
  <2>2. QED BY <1>2, <1>6, <1>7, <1>9, <2>1, Rewrite
<1>10. QED BY <1>2, <1>3, <1>6, <1>8, <1>9 DEF SavesAgreed

\* What the start keeps of facts with equal texts.
LEMMA DedupeIs ==
  ASSUME TypeOK, Dedupe
  PROVE  /\ text' \in TextSet /\ used' = used /\ server' = "up" /\ writes = <<>>
         /\ \/ writes' = writes /\ text' = text
            \/ \E fs \in Facts :
                 /\ Saves(fs) /\ (Agrees(docs, text) => Agrees(fs, text'))
                 /\ \A i \in There(Read) : Read[i].text # Blank =>
                      \E k \in There(Read) : fs[k] = Read[k] /\ Read[k].text = Read[i].text
<1>1. PICK keep \in SUBSET There(Read) :
        /\ \A i \in There(Read) : IF Read[i].text = Blank THEN i \in keep
             ELSE \E k \in keep : Read[k].text = Read[i].text /\ (Read[i].core => Read[k].core)
        /\ IF keep = There(Read) THEN UNCHANGED <<writes, text, cut>>
           ELSE /\ Saves([i \in Ids |-> IF i \in keep THEN Read[i] ELSE None])
                /\ text' = [i \in Ids |-> IF i \in keep THEN text[i] ELSE None]
                /\ UNCHANGED cut
  BY DEF Dedupe
<1>2. used' = used /\ server' = "up" /\ writes = <<>>
  BY DEF Dedupe
<1>3. Read \in Facts /\ text \in TextSet /\ (Agrees(docs, text) => Agrees(Read, text))
  BY ReadOk
<1>4. CASE keep = There(Read)
  BY <1>1, <1>2, <1>3, <1>4
<1>5. CASE keep # There(Read)
  <2> DEFINE fs == [i \in Ids |-> IF i \in keep THEN Read[i] ELSE None]
  <2>1. Saves(fs) /\ text' = [i \in Ids |-> IF i \in keep THEN text[i] ELSE None]
    BY <1>1, <1>5
  <2>2. text' \in TextSet
    BY <1>3, <2>1 DEF TextSet
  <2>3. fs \in Facts
    BY <1>3 DEF Facts
  <2>4. ASSUME Agrees(Read, text) PROVE Agrees(fs, text')
    <3>1. \A i \in Ids : \/ fs[i] = None /\ text'[i] = None
                         \/ /\ Read[i] # None /\ fs[i] # None /\ text'[i] = text[i]
                            /\ ReadFact(fs[i]).text = ReadFact(Read[i]).text
      BY <1>1, <2>1 DEF There
    <3> HIDE DEF fs
    <3>2. QED BY <1>3, <2>3, <2>4, <3>1, Rewrite
  <2>5. \A i \in There(Read) : Read[i].text # Blank =>
          \E k \in There(Read) : fs[k] = Read[k] /\ Read[k].text = Read[i].text
    <3>1. \A k \in keep : k \in There(Read) /\ fs[k] = Read[k]
      BY DEF There
    <3> HIDE DEF fs
    <3>2. QED BY <1>1, <3>1
  <2> HIDE DEF fs
  <2>6. QED BY <1>2, <1>3, <2>1, <2>2, <2>3, <2>4, <2>5
<1>6. QED BY <1>4, <1>5

(* The types *)

\* A save leaves the rest of the server as it is, a call apart.
LEMMA SavedServer ==
  ASSUME TypeOK, SavesAgreed, UNCHANGED <<server, crashes>>, calls' \in Nat,
         put' \in [id : Ids, core : BOOLEAN] \cup {None}
  PROVE  ServerType'
<1>1. writes' \in Seq(Writes)
  BY SaveIs DEF SavesAgreed, Saves
<1>2. QED BY <1>1 DEF TypeOK, ServerType

LEMMA ServerNext == ASSUME TypeOK, [Next]_vars PROVE ServerType'
<1>1. /\ server \in {"down", "boot", "up"} /\ writes \in Seq(Writes) /\ crashes \in Nat
      /\ calls \in Nat /\ put \in [id : Ids, core : BOOLEAN] \cup {None}
  BY DEF TypeOK, ServerType
<1>2. CASE WriteNext
  <2>1. writes' \in Seq(Writes)
    BY <1>1, <1>2, OneWriteStep
  <2>2. UNCHANGED <<server, put, crashes, calls>>
    BY <1>2 DEF WriteNext
  <2>3. QED BY <1>1, <2>1, <2>2 DEF ServerType
<1>3. CASE Boot
  <2>1. PICK chosen : /\ chosen \subseteq (IF oldFacts = None THEN {} ELSE oldFacts)
                      /\ writes' = BootWrites(With(chosen))
    BY <1>3, BootIs
  <2>2. writes' \in Seq(Writes)
    BY <2>1, OldType, BootWritesIs DEF TypeOK
  <2>3. server' = "boot" /\ UNCHANGED <<put, crashes, calls>>
    BY <1>3 DEF Boot
  <2>4. QED BY <1>1, <2>2, <2>3 DEF ServerType
<1>4. CASE Dedupe
  <2>1. writes' \in Seq(Writes)
    BY <1>1, <1>4, DedupeIs, SaveIs DEF Saves
  <2>2. server' = "up" /\ UNCHANGED <<put, crashes, calls>>
    BY <1>4 DEF Dedupe
  <2>3. QED BY <1>1, <2>1, <2>2 DEF ServerType
<1>5. CASE Crash
  <2>1. writes' \in Seq(Writes) /\ crashes' \in Nat
    BY <1>1, <1>5 DEF Crash
  <2>2. server' = "down" /\ put' = None /\ calls' = calls
    BY <1>5 DEF Crash
  <2>3. QED BY <1>1, <2>1, <2>2 DEF ServerType
<1>6. CASE Migrate
  <2>1. PICK old : /\ old = IF oldFacts = None THEN {} ELSE oldFacts
                   /\ writes' = MigrateWrites(With(old))
    BY <1>6, MigrateIs
  <2>2. writes' \in Seq(Writes)
    BY <2>1, OldType, MigrateWritesIs DEF TypeOK
  <2>3. UNCHANGED <<server, put, crashes, calls>>
    BY <1>6 DEF Migrate
  <2>4. QED BY <1>1, <2>2, <2>3 DEF ServerType
<1>7. ASSUME NEW t \in Texts, NEW c \in BOOLEAN, Add(t, c) PROVE ServerType'
  <2>1. UNCHANGED <<server, crashes, put>> /\ calls' = calls + 1
    BY <1>7 DEF Add, Edits
  <2>2. SavesAgreed
    BY <1>7, AddIs
  <2>3. QED BY <1>1, <2>1, <2>2, SavedServer
<1>8. ASSUME NEW i \in Ids, Delete(i) PROVE ServerType'
  <2>1. UNCHANGED <<server, crashes, put>> /\ calls' = calls + 1
    BY <1>8 DEF Delete, Edits
  <2>2. SavesAgreed
    BY <1>8, DeleteIs
  <2>3. QED BY <1>1, <2>1, <2>2, SavedServer
<1>9. ASSUME NEW i \in Ids, NEW t \in Texts, NEW c \in BOOLEAN, Update(i, t, c) PROVE ServerType'
  <2>1. /\ UNCHANGED <<server, crashes>> /\ calls' = calls + 1
        /\ put' = IF Read[i].core # c THEN [id |-> i, core |-> c] ELSE None
    BY <1>9 DEF Update, Edits
  <2>2. put' \in [id : Ids, core : BOOLEAN] \cup {None}
    BY <2>1
  <2>3. SavesAgreed
    BY <1>9, UpdateIs
  <2>4. QED BY <1>1, <2>1, <2>2, <2>3, SavedServer
<1>10. CASE SetCore
  <2>1. UNCHANGED <<server, crashes, calls>> /\ put' = None
    BY <1>10 DEF SetCore
  <2>2. SavesAgreed \/ writes' = writes
    BY <1>10, SetCoreIs
  <2>3. CASE SavesAgreed
    BY <1>1, <2>1, <2>3, SavedServer
  <2>4. CASE writes' = writes
    BY <1>1, <2>1, <2>4 DEF ServerType
  <2>5. QED BY <2>2, <2>3, <2>4
<1>11. CASE ClearDreams
  <2>1. UNCHANGED <<server, writes, put, crashes>> /\ calls' = calls + 1
    BY <1>11 DEF ClearDreams
  <2>2. QED BY <1>1, <2>1 DEF ServerType
<1>12. ASSUME NEW d \in Dreamers, Pass(d) PROVE ServerType'
  <2>1. UNCHANGED <<server, put, crashes, calls>>
    BY <1>12 DEF Pass, BeginPass, ReadCandidates, AskLLM, Apply, ReadBefore, Consolidate,
                 ReadAfter, Record, EndPass, PassFrame
  <2>2. CASE Apply(d)
    <3>1. SavesAgreed
      BY <2>2, ApplyIs DEF SavesAgreed
    <3>2. QED BY <1>1, <2>1, <3>1, SavedServer
  <2>3. CASE Consolidate(d)
    <3>1. SavesAgreed
      BY <2>3, ConsolidateIs
    <3>2. QED BY <1>1, <2>1, <3>1, SavedServer
  <2>4. CASE ~Apply(d) /\ ~Consolidate(d)
    <3>1. writes' = writes
      BY <1>12, <2>4 DEF Pass, BeginPass, ReadCandidates, AskLLM, ReadBefore, ReadAfter, Record,
                         EndPass
    <3>2. QED BY <1>1, <2>1, <3>1 DEF ServerType
  <2>5. QED BY <2>2, <2>3, <2>4
<1>13. CASE UNCHANGED vars
  BY <1>13, ServerKept DEF vars
<1>14. QED BY <1>2, <1>3, <1>4, <1>5, <1>6, <1>7, <1>8, <1>9, <1>10, <1>11, <1>12, <1>13
           DEF Next, Edit

LEMMA AnswersType == ASSUME NEW fs \in Facts PROVE AnswersTo(fs) \subseteq Answers
<1>1. There(fs) \subseteq Ids
  BY DEF There
<1> DEFINE ids == There(fs)
           groups == {[keep |-> k, drop |-> {e}] : k \in ids, e \in ids}
           proper == {g \in groups : g.keep \notin g.drop}
           new == {{}} \cup {{t} : t \in Texts}
           pruned == {p \in SUBSET ids : Cardinality(p) <= 1}
           merge == {{}} \cup {{g, h} : g \in proper, h \in proper}
<1>2. groups \subseteq Groups
  BY <1>1 DEF Groups
<1>3. new \subseteq SUBSET Texts
  OBVIOUS
<1>4. pruned \subseteq SUBSET Ids
  BY <1>1
<1>5. merge \subseteq SUBSET Groups
  <2>1. proper \subseteq Groups
    BY <1>2
  <2> HIDE DEF proper
  <2>2. QED BY <2>1
<1>6. AnswersTo(fs) = [new : new, pruned : pruned, merge : merge]
  BY DEF AnswersTo
<1> HIDE DEF new, pruned, merge
<1>7. QED BY <1>3, <1>4, <1>5, <1>6 DEF Answers

PassStages == {"new", "read", "llm", "apply", "before", "consolidate", "after", "record", "end",
               "over"}

LEMMA NothingType == NoFacts \in Facts /\ NoAnswer \in Answers
BY DEF NoFacts, Facts, NoAnswer, Answers

LEMMA PassNext == ASSUME TypeOK, [Next]_vars PROVE PassType'
<1>1. /\ pc \in [Dreamers -> PassStages] /\ seen \in [Dreamers -> Facts]
      /\ answer \in [Dreamers -> Answers]
  BY DEF TypeOK, PassType, PassStages
<1>2. changed \in [Dreamers -> BOOLEAN]
  BY DEF TypeOK, PassType
<1>3. dreaming \in BOOLEAN
  BY DEF TypeOK, PassType
<1>4. ASSUME UNCHANGED passVars PROVE PassType'
  BY <1>4, PassesKept DEF TypeOK
<1>5. CASE WriteNext \/ Boot \/ Dedupe \/ Migrate \/ SetCore \/ ClearDreams
  BY <1>4, <1>5 DEF WriteNext, Boot, Dedupe, Migrate, SetCore, ClearDreams
<1>6. CASE Edit
  BY <1>4, <1>6 DEF Edit, Add, Update, Delete, Edits
<1>7. CASE Crash
  <2>1. /\ pc' = [d \in Dreamers |-> IF pc[d] = "new" THEN "new" ELSE "over"]
        /\ UNCHANGED <<seen, answer, changed>> /\ dreaming' = FALSE
    BY <1>7 DEF Crash
  <2>2. pc' \in [Dreamers -> PassStages]
    BY <2>1 DEF PassStages
  <2>3. dreaming' \in BOOLEAN
    BY <2>1
  <2>4. changed' \in [Dreamers -> BOOLEAN]
    BY <1>2, <2>1
  <2>5. seen' \in [Dreamers -> Facts] /\ answer' \in [Dreamers -> Answers]
    BY <1>1, <2>1
  <2>6. QED BY <2>2, <2>3, <2>4, <2>5 DEF PassType, PassStages
<1>8. ASSUME NEW d \in Dreamers, Pass(d) PROVE PassType'
  <2>1. \E s \in PassStages : pc' = [pc EXCEPT ![d] = s]
    BY <1>8 DEF Pass, BeginPass, ReadCandidates, AskLLM, Apply, ReadBefore, Consolidate,
                ReadAfter, Record, EndPass, Goto, PassStages
  <2>2. pc' \in [Dreamers -> PassStages]
    BY <1>1, <2>1
  <2>3. \/ seen' = seen \/ seen' = [seen EXCEPT ![d] = Read]
        \/ seen' = [seen EXCEPT ![d] = NoFacts]
    BY <1>8 DEF Pass, BeginPass, ReadCandidates, AskLLM, Apply, ReadBefore, Consolidate,
                ReadAfter, Record, EndPass, Forget
  <2>4. seen' \in [Dreamers -> Facts]
    BY <1>1, <2>3, ReadOk, NothingType
  <2>5. \/ answer' = answer \/ answer' = [answer EXCEPT ![d] = NoAnswer]
        \/ \E a \in AnswersTo(seen[d]) : answer' = [answer EXCEPT ![d] = a]
    BY <1>8 DEF Pass, BeginPass, ReadCandidates, AskLLM, Apply, ReadBefore, Consolidate,
                ReadAfter, Record, EndPass, Forget
  <2>6. AnswersTo(seen[d]) \subseteq Answers
    BY <1>1, AnswersType
  <2>7. answer' \in [Dreamers -> Answers]
    BY <1>1, <2>5, <2>6, NothingType
  <2>8. changed' \in [Dreamers -> BOOLEAN]
    <3>1. CASE Apply(d)
      BY <3>1, ApplyIs
    <3>2. CASE ReadAfter(d)
      <4>1. \E b \in BOOLEAN : changed' = [changed EXCEPT ![d] = b]
        BY <3>2 DEF ReadAfter
      <4>2. QED BY <1>2, <4>1
    <3>3. CASE Record(d)
      <4>1. changed' = [changed EXCEPT ![d] = FALSE]
        BY <3>3 DEF Record
      <4>2. QED BY <1>2, <4>1
    <3>4. CASE ~Apply(d) /\ ~ReadAfter(d) /\ ~Record(d)
      <4>1. changed' = changed
        BY <1>8, <3>4 DEF Pass, BeginPass, ReadCandidates, AskLLM, ReadBefore, Consolidate,
                          EndPass
      <4>2. QED BY <1>2, <4>1
    <3>5. QED BY <3>1, <3>2, <3>3, <3>4
  <2>9. dreaming' \in BOOLEAN
    <3>1. dreaming' = TRUE \/ dreaming' = FALSE \/ dreaming' = dreaming
      BY <1>8 DEF Pass, BeginPass, ReadCandidates, AskLLM, Apply, ReadBefore, Consolidate,
                  ReadAfter, Record, EndPass
    <3>2. QED BY <1>3, <3>1
  <2>10. QED BY <2>2, <2>4, <2>7, <2>8, <2>9 DEF PassType, PassStages
<1>9. CASE UNCHANGED vars
  BY <1>4, <1>9 DEF vars
<1>10. QED BY <1>5, <1>6, <1>7, <1>8, <1>9 DEF Next

LEMMA HistoryNext == ASSUME TypeOK, [Next]_vars PROVE HistoryType'
<1>1. used \subseteq Ids /\ text \in TextSet /\ had \in SUBSET [id : Ids, text : Texts, core : BOOLEAN]
  BY DEF TypeOK, HistoryType, TextSet
<1>2. had' = had
  BY DEF Next, vars, history, WriteNext, Boot, Dedupe, Crash, Migrate, Edit, Add, Update, Delete,
         Edits, SetCore, ClearDreams, Pass, BeginPass, ReadCandidates, AskLLM, Apply, ReadBefore,
         Consolidate, ReadAfter, Record, EndPass, PassFrame
<1>3. cut' \in BOOLEAN
  <2>1. cut \in BOOLEAN
    BY DEF TypeOK, HistoryType
  <2>2. \/ cut' = cut \/ cut' = TRUE \/ cut' = (server # "up") \/ cut' = (cut \/ writes # <<>>)
    BY DEF Next, vars, history, WriteNext, Boot, Dedupe, Crash, Migrate, Edit, Add, Update,
           Delete, Edits, SetCore, ClearDreams, Pass, BeginPass, ReadCandidates, AskLLM, Apply,
           ReadBefore, Consolidate, ReadAfter, Record, EndPass
  <2>3. QED BY <2>1, <2>2
<1>4. ASSUME NEW fs \in Facts, text' = TextsOf(fs) PROVE text' \in TextSet
  BY <1>4, TextsOfType DEF TextSet
<1>5. used' \subseteq Ids /\ text' \in TextSet
  <2>1. CASE WriteNext \/ ClearDreams
    BY <1>1, <2>1 DEF WriteNext, ClearDreams, history
  <2>2. CASE Boot
    <3>1. PICK chosen : /\ chosen \subseteq (IF oldFacts = None THEN {} ELSE oldFacts)
                        /\ text' = TextsOf(With(chosen))
      BY <2>2, BootIs
    <3>2. With(chosen) \in Facts
      BY <3>1, OldType DEF TypeOK
    <3>3. text' \in TextSet
      BY <1>4, <3>1, <3>2
    <3>4. QED BY <1>1, <2>2, <3>3 DEF Boot
  <2>3. CASE Dedupe
    BY <1>1, <2>3, DedupeIs
  <2>4. CASE Crash
    <3>1. text' = TextsOf(docs) /\ docs \in Facts
      BY <2>4, ReadOk DEF Crash
    <3>2. QED BY <1>1, <1>4, <2>4, <3>1 DEF Crash
  <2>5. CASE Migrate
    <3>1. PICK old : /\ old = IF oldFacts = None THEN {} ELSE oldFacts
                     /\ text' = TextsOf(With(old))
      BY <2>5, MigrateIs
    <3>2. With(old) \in Facts
      BY <3>1, OldType DEF TypeOK
    <3>3. text' \in TextSet
      BY <1>4, <3>1, <3>2
    <3>4. QED BY <1>1, <2>5, <3>3 DEF Migrate
  <2>6. CASE Edit
    BY <1>1, <2>6, AddIs, DeleteIs, UpdateIs DEF Edit
  <2>7. CASE SetCore
    BY <1>1, <2>7, SetCoreIs
  <2>8. ASSUME NEW d \in Dreamers, Pass(d) PROVE used' \subseteq Ids /\ text' \in TextSet
    <3>1. CASE Apply(d)
      BY <3>1, ApplyIs
    <3>2. CASE ~Apply(d)
      <4>1. UNCHANGED <<used, text>>
        BY <2>8, <3>2 DEF Pass, BeginPass, ReadCandidates, AskLLM, ReadBefore, Consolidate,
                          ReadAfter, Record, EndPass
      <4>2. QED BY <1>1, <4>1
    <3>3. QED BY <3>1, <3>2
  <2>9. CASE UNCHANGED vars
    BY <1>1, <2>9 DEF vars, history
  <2>10. QED BY <2>1, <2>2, <2>3, <2>4, <2>5, <2>6, <2>7, <2>8, <2>9 DEF Next
<1>6. QED BY <1>1, <1>2, <1>3, <1>5 DEF HistoryType, TextSet

LEMMA InitType == ASSUME Init PROVE TypeOK
<1>1. oldFacts \in (SUBSET [id : Ids, text : Texts, core : BOOLEAN]) \cup {None}
  BY MemoryAssumption DEF Init
<1>2. oldFacts # None => oldFacts \in SUBSET [id : Ids, text : Texts, core : BOOLEAN]
  BY <1>1
<1>3. FilesType
  <2>1. oldIndex \in (SUBSET Texts) \cup {None}
    <3>1. oldIndex \in {None, {}} \/ (oldFacts # None /\ oldIndex = {f.text : f \in oldFacts})
      BY DEF Init
    <3>2. QED BY <1>2, <3>1
  <2>2. docs \in Facts /\ coreIndex = None
    BY NothingType DEF Init
  <2>3. dreams = {} /\ oldDreams \in {OldDreams, None} /\ marker = FALSE
    BY DEF Init
  <2>4. marker \in BOOLEAN
    BY <2>3
  <2>5. coreIndex \in (SUBSET (Texts \cup {Blank})) \cup {None} /\ dreams \subseteq Dreamers \cup OldDreams
    BY <2>2, <2>3
  <2>6. QED BY <1>1, <2>1, <2>2, <2>3, <2>4, <2>5 DEF FilesType
<1>4. ServerType
  <2>1. writes \in Seq(Writes)
    BY DEF Init
  <2>2. server = "down" /\ put = None /\ crashes = 0 /\ calls = 0
    BY DEF Init
  <2>3. QED BY <2>1, <2>2 DEF ServerType
<1>5. PassType
  <2>1. /\ pc = [d \in Dreamers |-> "new"] /\ seen = [d \in Dreamers |-> NoFacts]
        /\ answer = [d \in Dreamers |-> NoAnswer]
    BY DEF Init
  <2>2. changed \in [Dreamers -> BOOLEAN]
    BY DEF Init
  <2>3. dreaming \in BOOLEAN
    BY DEF Init
  <2>4. QED BY <2>1, <2>2, <2>3, NothingType DEF PassType
<1>6. HistoryType
  <2>1. had \in SUBSET [id : Ids, text : Texts, core : BOOLEAN]
    BY <1>2 DEF Init
  <2>2. used \subseteq Ids
    BY <2>1 DEF Init
  <2>3. text \in [Ids -> Texts \cup {Blank, None}]
    BY DEF Init, NoFacts
  <2>4. cut \in BOOLEAN
    BY DEF Init
  <2>5. QED BY <2>1, <2>2, <2>3, <2>4 DEF HistoryType
<1>7. QED BY <1>3, <1>4, <1>5, <1>6 DEF TypeOK

\* Documents, files, passes and what is pending always have their types: what is
\* written is a document, whoever writes it.
THEOREM TypeCorrect == Spec => []TypeOK
<1>1. Init => TypeOK
  BY InitType
<1>2. TypeOK /\ [Next]_vars => TypeOK'
  <2>1. ASSUME TypeOK, [Next]_vars PROVE TypeOK'
    BY <2>1, FilesNext, ServerNext, PassNext, HistoryNext DEF TypeOK
  <2>2. QED BY <2>1
<1>3. QED BY <1>1, <1>2, PTL DEF Spec

(* No edit is undone *)

Pending == \E w \in Ops(writes) : WritesFacts(w)

\* All pending documents read as the texts last given do, and without any the
\* documents on the disk.
StaleInv ==
  /\ \A w \in Ops(writes) : WritesFacts(w) => Agrees(w.facts, text)
  /\ ~Pending => Agrees(docs, text)

LEMMA SaveOps ==
  ASSUME TypeOK, NEW fs \in Facts, Saves(fs)
  PROVE  /\ Only(writes', fs) /\ UnlinkLast(writes') /\ Op("unlinkFacts") \notin Ops(writes')
         /\ fs # docs => [op |-> "facts", facts |-> fs] \in Ops(writes')
<1> DEFINE v == [op |-> "facts", facts |-> fs]
           w == [op |-> "index", texts |-> CoreTexts(fs)]
<1>1. /\ v.op = "facts" /\ v.facts = fs /\ ~WritesFacts(w) /\ w.op # "unlinkFacts"
      /\ v # Op("unlinkFacts") /\ w # Op("unlinkFacts")
  BY OpName DEF WritesFacts
<1>2. /\ fs = docs => writes' = <<w>>
      /\ fs # docs => writes' = <<v, w>>
  BY SaveIs DEF Saves
<1> HIDE DEF v, w
<1>3. Ops(<<w>>) = {w} /\ Ops(<<v, w>>) = {v, w}
  BY OpsOf
<1>4. UnlinkLast(<<w>>) /\ UnlinkLast(<<v, w>>)
  BY <1>1 DEF UnlinkLast
<1>5. Only(writes', fs)
  BY <1>1, <1>2, <1>3 DEF Only
<1>6. Op("unlinkFacts") \notin Ops(writes')
  BY <1>1, <1>2, <1>3
<1>7. fs # docs => v \in Ops(writes')
  BY <1>2, <1>3
<1>8. UnlinkLast(writes')
  BY <1>2, <1>4
<1>9. QED BY <1>5, <1>6, <1>7, <1>8 DEF v

\* New writes of documents that agree.
LEMMA StaleNew ==
  ASSUME NEW fs, docs' = docs, Only(writes', fs), Agrees(fs, text'),
         fs # docs => [op |-> "facts", facts |-> fs] \in Ops(writes')
  PROVE  StaleInv'
<1>1. \A w \in Ops(writes') : WritesFacts(w) => Agrees(w.facts, text')
  BY DEF Only
<1>2. ASSUME ~Pending' PROVE Agrees(docs', text')
  <2>1. fs = docs
    <3>1. WritesFacts([op |-> "facts", facts |-> fs])
      BY DEF WritesFacts
    <3>2. QED BY <1>2, <3>1 DEF Pending
  <2>2. QED BY <2>1
<1>3. QED BY <1>1, <1>2 DEF StaleInv

LEMMA StaleSave ==
  ASSUME TypeOK, StaleInv, Free, docs' = docs, SavesAgreed PROVE StaleInv'
<1>1. Agrees(docs, text)
  BY OpsOf DEF StaleInv, Free, Pending
<1>2. PICK fs \in Facts : Saves(fs) /\ Agrees(fs, text')
  BY <1>1 DEF SavesAgreed
<1>3. QED BY <1>2, SaveOps, StaleNew

LEMMA StaleKept == ASSUME StaleInv, UNCHANGED <<docs, writes, text>> PROVE StaleInv'
BY DEF StaleInv, Pending

\* Without a write of documents in the sequence that is dropped or done.
LEMMA StaleWrite == ASSUME TypeOK, StaleInv, WriteNext PROVE StaleInv'
<1> DEFINE w == Head(writes)
<1>1. text' = text
  BY DEF WriteNext
<1>2. w \in Ops(writes) /\ Ops(writes) = {w} \cup Ops(Tail(writes))
  BY OneWriteStep
<1>3. \/ writes' = writes /\ WritesFacts(w)
      \/ writes' = Tail(writes) /\ (WritesFacts(w) => docs' = w.facts)
  BY OneWriteStep
<1>4. ~WritesFacts(w) => docs' = docs
  BY OneWriteStep
<1> HIDE DEF w
<1>5. Ops(writes') \subseteq Ops(writes)
  BY <1>2, <1>3
<1>6. \A v \in Ops(writes') : WritesFacts(v) => Agrees(v.facts, text')
  BY <1>1, <1>5 DEF StaleInv
<1>7. ASSUME ~Pending' PROVE Agrees(docs', text')
  <2>1. writes' # writes \/ ~WritesFacts(w)
    BY <1>2, <1>7 DEF Pending
  <2>2. CASE WritesFacts(w)
    <3>1. docs' = w.facts
      BY <1>3, <2>1, <2>2
    <3>2. QED BY <1>1, <1>2, <2>2, <3>1 DEF StaleInv
  <2>3. CASE ~WritesFacts(w)
    <3>1. ~Pending
      BY <1>2, <1>3, <1>7, <2>3 DEF Pending
    <3>2. QED BY <1>1, <1>4, <2>3, <3>1 DEF StaleInv
  <2>4. QED BY <2>2, <2>3
<1>8. QED BY <1>6, <1>7 DEF StaleInv

LEMMA TextsAgree == ASSUME NEW fs \in Facts PROVE Agrees(fs, TextsOf(fs))
<1>1. ASSUME NEW i \in Ids
      PROVE  /\ fs[i] = None <=> TextsOf(fs)[i] = None
             /\ fs[i] # None => ReadFact(fs[i]).text = ReadText(TextsOf(fs)[i])
  <2>1. fs[i] \in Fact \cup {None}
    BY DEF Facts
  <2>2. TextsOf(fs)[i] = IF fs[i] = None THEN None ELSE fs[i].text
    BY TextsOfType
  <2>3. fs[i] # None => fs[i].text # None
    BY <2>1, MemoryAssumption DEF Fact
  <2>4. fs[i] # None => ReadFact(fs[i]).text = ReadText(fs[i].text)
    BY <2>1, ReadFactIs
  <2>5. QED BY <2>2, <2>3, <2>4
<1>2. QED BY <1>1 DEF Agrees

LEMMA StaleInit == ASSUME Init PROVE StaleInv
<1>1. docs = NoFacts /\ text = NoFacts /\ writes = <<>>
  BY DEF Init
<1>2. QED BY <1>1, OpsOf DEF StaleInv, Agrees, NoFacts

LEMMA StaleNext == ASSUME TypeOK, StaleInv, [Next]_vars PROVE StaleInv'
<1>1. CASE WriteNext
  BY <1>1, StaleWrite
<1>2. CASE Boot
  <2>1. PICK chosen : /\ chosen \subseteq (IF oldFacts = None THEN {} ELSE oldFacts)
                      /\ writes' = BootWrites(With(chosen)) /\ text' = TextsOf(With(chosen))
    BY <1>2, BootIs
  <2> DEFINE fs == With(chosen)
  <2>2. fs \in Facts /\ (oldFacts = None => fs = docs)
    BY <2>1, OldType DEF TypeOK
  <2>3. writes' = BootWrites(fs) /\ text' = TextsOf(fs)
    BY <2>1
  <2>4. docs' = docs
    BY <1>2 DEF Boot, files
  <2> HIDE DEF fs
  <2>5. Only(writes', fs) /\ (fs # docs => [op |-> "facts", facts |-> fs] \in Ops(writes'))
    BY <2>2, <2>3, BootWritesIs DEF TypeOK
  <2>6. Agrees(fs, text')
    BY <2>2, <2>3, TextsAgree
  <2>7. QED BY <2>4, <2>5, <2>6, StaleNew
<1>3. CASE Dedupe
  <2>1. docs' = docs /\ writes = <<>>
    BY <1>3 DEF Dedupe, files
  <2>2. Agrees(docs, text)
    BY <2>1, OpsOf DEF StaleInv, Pending
  <2>3. CASE writes' = writes /\ text' = text
    BY <2>1, <2>3, StaleKept
  <2>4. CASE \E fs \in Facts : Saves(fs) /\ (Agrees(docs, text) => Agrees(fs, text'))
    <3>1. PICK fs \in Facts : Saves(fs) /\ Agrees(fs, text')
      BY <2>2, <2>4
    <3>2. QED BY <2>1, <3>1, SaveOps, StaleNew
  <2>5. QED BY <1>3, <2>3, <2>4, DedupeIs
<1>4. CASE Crash
  <2>1. writes' = <<>> /\ docs' = docs /\ text' = TextsOf(docs)
    BY <1>4 DEF Crash, files
  <2>2. Agrees(docs', text')
    BY <2>1, ReadOk, TextsAgree
  <2>3. Ops(writes') = {}
    BY <2>1, OpsOf
  <2>4. QED BY <2>2, <2>3 DEF StaleInv
<1>5. CASE Migrate
  <2>1. PICK old : /\ old = IF oldFacts = None THEN {} ELSE oldFacts
                   /\ writes' = MigrateWrites(With(old)) /\ text' = TextsOf(With(old))
    BY <1>5, MigrateIs
  <2> DEFINE fs == With(old)
  <2>2. fs \in Facts
    BY <2>1, OldType DEF TypeOK
  <2>3. writes' = MigrateWrites(fs) /\ text' = TextsOf(fs)
    BY <2>1
  <2>4. docs' = docs
    BY <1>5 DEF Migrate, files
  <2> HIDE DEF fs
  <2>5. Only(writes', fs) /\ (fs # docs => [op |-> "facts", facts |-> fs] \in Ops(writes'))
    BY <2>2, <2>3, MigrateWritesIs DEF TypeOK
  <2>6. Agrees(fs, text')
    BY <2>2, <2>3, TextsAgree
  <2>7. QED BY <2>4, <2>5, <2>6, StaleNew
<1>6. CASE Edit
  <2>1. Free /\ docs' = docs
    BY <1>6 DEF Edit, Add, Update, Delete, Edits, files
  <2>2. SavesAgreed
    BY <1>6, AddIs, DeleteIs, UpdateIs DEF Edit
  <2>3. QED BY <2>1, <2>2, StaleSave
<1>7. CASE SetCore
  <2>1. Free /\ docs' = docs
    BY <1>7 DEF SetCore, files
  <2>2. SavesAgreed \/ (writes' = writes /\ text' = text)
    BY <1>7, SetCoreIs
  <2>3. QED BY <2>1, <2>2, StaleSave, StaleKept
<1>8. CASE ClearDreams
  BY <1>8, StaleKept DEF ClearDreams, history
<1>9. ASSUME NEW d \in Dreamers, Pass(d) PROVE StaleInv'
  <2>1. docs' = docs
    BY <1>9 DEF Pass, BeginPass, ReadCandidates, AskLLM, Apply, ReadBefore, Consolidate,
                ReadAfter, Record, EndPass, files
  <2>2. CASE Apply(d) \/ Consolidate(d)
    <3>1. Free
      BY <2>2 DEF Apply, Consolidate
    <3>2. SavesAgreed
      BY <2>2, ApplyIs, ConsolidateIs DEF SavesAgreed
    <3>3. QED BY <2>1, <3>1, <3>2, StaleSave
  <2>3. CASE ~Apply(d) /\ ~Consolidate(d)
    <3>1. UNCHANGED <<writes, text>>
      BY <1>9, <2>3 DEF Pass, BeginPass, ReadCandidates, AskLLM, ReadBefore, ReadAfter, Record,
                        EndPass
    <3>2. QED BY <2>1, <3>1, StaleKept
  <2>4. QED BY <2>2, <2>3
<1>10. CASE UNCHANGED vars
  BY <1>10, StaleKept DEF vars, files, history
<1>11. QED BY <1>1, <1>2, <1>3, <1>4, <1>5, <1>6, <1>7, <1>8, <1>9, <1>10 DEF Next

LEMMA StaleProperty == ASSUME TypeOK, StaleInv PROVE NoStaleWrite
<1>1. ASSUME Free PROVE Agrees(docs, text)
  BY <1>1, OpsOf DEF StaleInv, Free, Pending
<1>2. QED BY <1>1 DEF NoStaleWrite, Agrees

\* No edit is undone by a save of what was read before it, and no removed fact
\* comes back: the documents read as the texts last given, whenever the lock is
\* free.
THEOREM EditsStay == Spec => []NoStaleWrite
<1>1. Init => StaleInv
  BY StaleInit
<1>2. TypeOK /\ StaleInv /\ [Next]_vars => StaleInv'
  BY StaleNext
<1>3. TypeOK /\ StaleInv => NoStaleWrite
  BY StaleProperty
<1>4. QED BY <1>1, <1>2, <1>3, TypeCorrect, PTL DEF Spec

(* The index agrees with the facts *)

\* Facts as they are written, and the core ones among those read back.
LEMMA CoreRead ==
  ASSUME NEW fs \in Facts PROVE CoreTexts(ReadAll(fs)) = CoreTexts(fs) \ Ruled
<1> DEFINE rs == ReadAll(fs)
<1>1. \A i \in Ids : rs[i] = ReadFact(fs[i]) /\ (rs[i] = None <=> fs[i] = None)
  BY ReadAllIs
<1>2. \A i \in Ids : fs[i] # None /\ fs[i].text \in Ruled => ~ReadFact(fs[i]).core
  BY DEF ReadFact
<1>3. \A i \in Ids : fs[i] # None /\ fs[i].text \notin Ruled => ReadFact(fs[i]) = fs[i]
  BY DEF ReadFact
<1> HIDE DEF rs
<1>4. {j \in There(rs) : rs[j].core} = {j \in There(fs) : fs[j].core /\ fs[j].text \notin Ruled}
  BY <1>1, <1>2, <1>3 DEF There
<1>5. \A j \in {k \in There(rs) : rs[k].core} : rs[j].text = fs[j].text
  BY <1>1, <1>3, <1>4 DEF There
<1>6. CoreTexts(rs) \subseteq CoreTexts(fs) \ Ruled
  BY <1>4, <1>5 DEF CoreTexts
<1>7. CoreTexts(fs) \ Ruled \subseteq CoreTexts(rs)
  <2>1. ASSUME NEW j \in There(fs), fs[j].core, fs[j].text \notin Ruled
        PROVE  fs[j].text \in CoreTexts(rs)
    <3>1. j \in {k \in There(rs) : rs[k].core} /\ rs[j].text = fs[j].text
      BY <1>4, <1>5, <2>1
    <3>2. QED BY <3>1 DEF CoreTexts
  <2>2. QED BY <2>1 DEF CoreTexts
<1>8. QED BY <1>6, <1>7 DEF rs

IndexOp(X) == [op |-> "index", texts |-> X]
FactsOp(fs) == [op |-> "facts", facts |-> fs]

\* What a save has still to do: the index of the documents there, or those documents
\* and their index.
Saved ==
  \/ \E X : writes = <<IndexOp(X)>> /\ X \ Ruled = CoreTexts(ReadAll(docs))
  \/ \E fs \in Facts : writes = <<FactsOp(fs), IndexOp(CoreTexts(fs))>>

IndexInv ==
  /\ ~cut /\ (server # "up" \/ writes = <<>>) =>
       ~Pending /\ coreIndex \ Ruled = CoreTexts(ReadAll(docs))
  /\ server = "up" /\ writes # <<>> => Saved
  /\ ~cut \/ server = "up" => oldFacts = None
  /\ server = "boot" /\ oldFacts # None => Op("unlinkFacts") \in Ops(writes)

LEMMA IndexSave ==
  ASSUME TypeOK, IndexInv, NEW fs \in Facts, Saves(fs), server' = "up", docs' = docs, oldFacts = None,
         oldFacts' = oldFacts
  PROVE  IndexInv'
<1> DEFINE v == FactsOp(fs)
           w == IndexOp(CoreTexts(fs))
<1>1. (writes' = <<w>> /\ fs = docs) \/ writes' = <<v, w>>
  BY SaveIs DEF Saves, FactsOp, IndexOp
<1>2. fs = docs => CoreTexts(fs) \ Ruled = CoreTexts(ReadAll(docs'))
  BY CoreRead
<1>3. Saved'
  BY <1>1, <1>2 DEF Saved
<1> HIDE DEF v, w
<1>4. writes' # <<>>
  BY <1>1
<1>5. QED BY <1>3, <1>4 DEF IndexInv

LEMMA IndexKept ==
  ASSUME IndexInv, UNCHANGED <<docs, coreIndex, oldFacts, server, writes, cut>> PROVE IndexInv'
BY DEF IndexInv, Pending, Saved

LEMMA IndexWritten == ASSUME TypeOK, IndexInv, WriteNext PROVE IndexInv'
<1> DEFINE w == Head(writes)
<1>1. w \in Writes /\ w \in Ops(writes) /\ Ops(writes) = {w} \cup Ops(Tail(writes)) /\ writes # <<>>
  BY OneWriteStep
<1>2. /\ IF w.op = "index" THEN coreIndex' = w.texts /\ cut' = (server # "up")
         ELSE UNCHANGED <<coreIndex, cut>>
      /\ oldFacts' = IF w.op = "unlinkFacts" THEN None ELSE oldFacts
      /\ server' = server
  BY DEF WriteNext
<1>3. \/ writes' = writes /\ WritesFacts(w)
      \/ writes' = Tail(writes) /\ (WritesFacts(w) => docs' = w.facts)
  BY OneWriteStep
<1>4. ~WritesFacts(w) => docs' = docs /\ writes' = Tail(writes)
  BY OneWriteStep
<1>5. CASE server = "up"
  <2>1. oldFacts' = None
    BY <1>2, <1>5 DEF IndexInv
  <2>2. Saved
    BY <1>1, <1>5 DEF IndexInv
  <2>3. CASE \E X : writes = <<IndexOp(X)>> /\ X \ Ruled = CoreTexts(ReadAll(docs))
    <3>1. PICK X : writes = <<IndexOp(X)>> /\ X \ Ruled = CoreTexts(ReadAll(docs))
      BY <2>3
    <3> DEFINE v == IndexOp(X)
    <3>2. v.op = "index" /\ v.texts = X /\ ~WritesFacts(v)
      BY DEF IndexOp, WritesFacts
    <3>3. writes = <<v>>
      BY <3>1
    <3> HIDE DEF v
    <3>4. w = v /\ Tail(writes) = <<>>
      BY <3>3
    <3> HIDE DEF w
    <3>5. docs' = docs /\ writes' = <<>> /\ coreIndex' = X
      BY <1>2, <1>4, <3>2, <3>4
    <3>6. ~Pending'
      BY <3>5, OpsOf DEF Pending
    <3>7. QED BY <1>2, <1>5, <2>1, <3>1, <3>5, <3>6 DEF IndexInv
  <2>4. CASE \E fs \in Facts : writes = <<FactsOp(fs), IndexOp(CoreTexts(fs))>>
    <3>1. PICK fs \in Facts : writes = <<FactsOp(fs), IndexOp(CoreTexts(fs))>>
      BY <2>4
    <3> DEFINE v == FactsOp(fs)
               u == IndexOp(CoreTexts(fs))
    <3>2. WritesFacts(v) /\ v.op # "index" /\ v.facts = fs
      BY DEF FactsOp, WritesFacts
    <3>3. writes = <<v, u>>
      BY <3>1
    <3> HIDE DEF v, u
    <3>4. w = v /\ Tail(writes) = <<u>>
      BY <3>3
    <3> HIDE DEF w
    <3>5. CASE writes' = writes
      <4>1. Saved'
        BY <3>1, <3>5 DEF Saved
      <4>2. QED BY <1>1, <1>2, <1>5, <2>1, <3>5, <4>1 DEF IndexInv
    <3>6. CASE writes' = <<u>> /\ docs' = fs
      <4>1. CoreTexts(fs) \ Ruled = CoreTexts(ReadAll(docs'))
        BY <3>6, CoreRead
      <4>2. writes' = <<IndexOp(CoreTexts(fs))>> /\ writes' # <<>>
        BY <3>6 DEF u
      <4>3. Saved'
        BY <4>1, <4>2 DEF Saved
      <4>4. QED BY <1>2, <1>5, <2>1, <4>2, <4>3 DEF IndexInv
    <3>7. QED BY <1>3, <3>2, <3>4, <3>5, <3>6
  <2>5. QED BY <2>2, <2>3, <2>4 DEF Saved
<1>6. CASE server # "up"
  <2>1. ASSUME ~cut' PROVE ~cut /\ w.op # "index" /\ coreIndex' = coreIndex
    BY <1>2, <1>6, <2>1
  <2>2. ASSUME ~cut' PROVE ~Pending' /\ coreIndex' \ Ruled = CoreTexts(ReadAll(docs')) /\ oldFacts' = None
    <3>1. ~Pending /\ coreIndex \ Ruled = CoreTexts(ReadAll(docs)) /\ oldFacts = None
      BY <1>6, <2>1, <2>2 DEF IndexInv
    <3>2. ~WritesFacts(w)
      BY <1>1, <3>1 DEF Pending
    <3>3. docs' = docs /\ Ops(writes') \subseteq Ops(writes)
      BY <1>1, <1>4, <3>2
    <3> HIDE DEF w
    <3>4. ~Pending'
      BY <3>1, <3>3 DEF Pending
    <3>5. oldFacts' = None
      BY <1>2, <3>1
    <3>6. QED BY <2>1, <2>2, <3>1, <3>3, <3>4, <3>5
  <2>3. ASSUME server = "boot", oldFacts' # None PROVE Op("unlinkFacts") \in Ops(writes')
    <3>1. w.op # "unlinkFacts" /\ oldFacts # None
      BY <1>2, <2>3
    <3>2. Op("unlinkFacts") \in Ops(writes) /\ Op("unlinkFacts") # w
      BY <2>3, <3>1, OpName DEF IndexInv
    <3>3. QED BY <1>1, <1>3, <3>2
  <2>4. QED BY <1>2, <1>6, <2>2, <2>3 DEF IndexInv
<1>7. QED BY <1>5, <1>6

LEMMA IndexNext == ASSUME TypeOK, IndexInv, [Next]_vars PROVE IndexInv'
<1>1. CASE WriteNext
  BY <1>1, IndexWritten
<1>2. CASE Boot
  <2>1. PICK chosen : /\ chosen \subseteq (IF oldFacts = None THEN {} ELSE oldFacts)
                      /\ writes' = BootWrites(With(chosen))
    BY <1>2, BootIs
  <2> DEFINE fs == With(chosen)
  <2>2. fs \in Facts /\ (oldFacts = None => fs = docs)
    BY <2>1, OldType DEF TypeOK
  <2>3. writes' = BootWrites(fs)
    BY <2>1
  <2>4. /\ UNCHANGED <<docs, coreIndex, oldFacts, cut>> /\ server' = "boot"
        /\ server = "down"
    BY <1>2 DEF Boot, files
  <2> HIDE DEF fs
  <2>5. Only(writes', fs) /\ (oldFacts # None => Op("unlinkFacts") \in Ops(writes'))
    BY <2>2, <2>3, BootWritesIs DEF TypeOK
  <2>6. ASSUME ~cut PROVE ~Pending'
    <3>1. oldFacts = None
      BY <2>6 DEF IndexInv
    <3>2. QED BY <2>2, <2>5, <3>1 DEF Only, Pending
  <2>7. QED BY <2>4, <2>5, <2>6 DEF IndexInv
<1>3. CASE Dedupe
  <2>1. /\ UNCHANGED <<docs, coreIndex, oldFacts, cut>> /\ server' = "up" /\ server = "boot"
        /\ writes = <<>>
    BY <1>3 DEF Dedupe, files
  <2>2. oldFacts = None
    BY <2>1, OpsOf DEF IndexInv
  <2>3. CASE writes' = writes
    <3>1. Pending' = Pending
      BY <2>3 DEF Pending
    <3>2. QED BY <2>1, <2>2, <2>3, <3>1 DEF IndexInv
  <2>4. CASE \E fs \in Facts : Saves(fs)
    BY <2>1, <2>2, <2>4, IndexSave
  <2>5. QED BY <1>3, <2>3, <2>4, DedupeIs
<1>4. CASE Crash
  <2>1. /\ UNCHANGED <<docs, coreIndex, oldFacts>> /\ server' = "down" /\ writes' = <<>>
        /\ cut' = (cut \/ writes # <<>>)
    BY <1>4 DEF Crash, files
  <2>2. ASSUME ~cut' PROVE ~cut /\ writes = <<>>
    BY <2>1, <2>2
  <2>3. ~Pending'
    BY <2>1, OpsOf DEF Pending
  <2>4. QED BY <2>1, <2>2, <2>3 DEF IndexInv
<1>5. CASE Migrate
  <2>1. cut' = TRUE /\ server' = "down"
    BY <1>5 DEF Migrate
  <2>2. QED BY <2>1 DEF IndexInv
<1>6. ASSUME SavesAgreed, Free, UNCHANGED <<server, docs, oldFacts>> PROVE IndexInv'
  <2>1. oldFacts = None /\ server' = "up"
    BY <1>6 DEF Free, IndexInv
  <2>2. QED BY <1>6, <2>1, IndexSave DEF SavesAgreed
<1>7. CASE Edit
  <2>1. Free /\ UNCHANGED <<server, docs, oldFacts>>
    BY <1>7 DEF Edit, Add, Update, Delete, Edits, files
  <2>2. SavesAgreed
    BY <1>7, AddIs, DeleteIs, UpdateIs DEF Edit
  <2>3. QED BY <1>6, <2>1, <2>2
<1>8. CASE SetCore
  <2>1. Free /\ UNCHANGED <<server, docs, coreIndex, oldFacts, cut>>
    BY <1>8 DEF SetCore, files, history
  <2>2. SavesAgreed \/ writes' = writes
    BY <1>8, SetCoreIs
  <2>3. QED BY <1>6, <2>1, <2>2, IndexKept
<1>9. CASE ClearDreams
  BY <1>9, IndexKept DEF ClearDreams, history
<1>10. ASSUME NEW d \in Dreamers, Pass(d) PROVE IndexInv'
  <2>1. UNCHANGED <<server, docs, coreIndex, oldFacts, cut>>
    BY <1>10 DEF Pass, BeginPass, ReadCandidates, AskLLM, Apply, ReadBefore, Consolidate,
                 ReadAfter, Record, EndPass, files, PassFrame
  <2>2. CASE Apply(d) \/ Consolidate(d)
    <3>1. Free
      BY <2>2 DEF Apply, Consolidate
    <3>2. SavesAgreed
      BY <2>2, ApplyIs, ConsolidateIs DEF SavesAgreed
    <3>3. QED BY <1>6, <2>1, <3>1, <3>2
  <2>3. CASE ~Apply(d) /\ ~Consolidate(d)
    <3>1. UNCHANGED writes
      BY <1>10, <2>3 DEF Pass, BeginPass, ReadCandidates, AskLLM, ReadBefore, ReadAfter, Record,
                         EndPass
    <3>2. QED BY <2>1, <3>1, IndexKept
  <2>4. QED BY <2>2, <2>3
<1>11. CASE UNCHANGED vars
  BY <1>11, IndexKept DEF vars, files, history
<1>12. QED BY <1>1, <1>2, <1>3, <1>4, <1>5, <1>7, <1>8, <1>9, <1>10, <1>11 DEF Next

\* MEMORY.md lists the core facts whenever the lock is free, except from a crash
\* in the middle of a save, or an import of an older index, to the next save.
THEOREM IndexCurrent == Spec => []IndexAgrees
<1>1. Init => IndexInv
  BY DEF Init, IndexInv
<1>2. TypeOK /\ IndexInv /\ [Next]_vars => IndexInv'
  BY IndexNext
<1>3. IndexInv => IndexAgrees
  BY ReadIs DEF IndexInv, IndexAgrees, Free
<1>4. QED BY <1>1, <1>2, <1>3, TypeCorrect, PTL DEF Spec

(* An import loses nothing *)

\* Every fact of old, but those that are not read back, has its text in fs, in fs
\* and ds in the same document; and every document of fs is one of them.
Has(fs, old) == \A f \in old : f.text \in Ruled \/ \E i \in Ids : fs[i] # None /\ fs[i].text = f.text
Both(fs, ds, old) == \A f \in old : f.text \in Ruled \/
  \E i \in Ids : fs[i] # None /\ fs[i].text = f.text /\ ds[i] # None /\ ds[i].text = f.text
FromOld(fs, old) == \A i \in Ids : fs[i] # None => \E f \in old : f.id = i /\ f.text = fs[i].text

Quiet == calls = 0 /\ \A d \in Dreamers : pc[d] = "new"

\* Until memory.json goes the documents are those of it; before it goes all of it
\* is written; and then all stays until somebody changes it.
ImportInv ==
  /\ oldFacts \in {None, had}
  /\ \A v, w \in Ops(writes) : WritesFacts(v) /\ WritesFacts(w) => v.facts = w.facts
  /\ UnlinkLast(writes)
  /\ oldFacts # None => /\ FromOld(docs, had)
                        /\ \A w \in Ops(writes) : WritesFacts(w) => FromOld(w.facts, had)
  /\ Op("unlinkFacts") \in Ops(writes) =>
       /\ \A w \in Ops(writes) : WritesFacts(w) => Has(w.facts, had)
       /\ ~Pending => Has(docs, had)
  /\ Quiet /\ oldFacts = None =>
       Has(docs, had) /\ \A w \in Ops(writes) : WritesFacts(w) => Both(w.facts, docs, had)
  /\ put # None => calls > 0

\* The older version's facts have ids of their own.
LEMMA HadIs ==
  ASSUME Init PROVE had \subseteq OldSet /\ \A f, g \in had : f.id = g.id => f = g
BY MemoryAssumption DEF Init, OldSet

\* What holds of the facts the older version left, always.
HadInv == had \subseteq OldSet /\ \A f, g \in had : f.id = g.id => f = g

LEMMA HadKept == ASSUME [Next]_vars PROVE had' = had
BY DEF Next, vars, history, WriteNext, Boot, Dedupe, Crash, Migrate, Edit, Add, Update, Delete,
       Edits, SetCore, ClearDreams, Pass, BeginPass, ReadCandidates, AskLLM, Apply, ReadBefore,
       Consolidate, ReadAfter, Record, EndPass, PassFrame

LEMMA ImportKept ==
  ASSUME ImportInv, UNCHANGED <<docs, writes, oldFacts, had>>, Quiet' => Quiet,
         put' # None => calls' > 0
  PROVE  ImportInv'
BY DEF ImportInv, Pending

\* Documents that are all written, or written in part.
LEMMA ImportWritten == ASSUME TypeOK, ImportInv, WriteNext PROVE ImportInv'
<1> DEFINE w == Head(writes)
<1>1. w \in Writes /\ w \in Ops(writes) /\ Ops(writes) = {w} \cup Ops(Tail(writes)) /\ writes # <<>>
  BY OneWriteStep
<1>2. /\ oldFacts' = IF w.op = "unlinkFacts" THEN None ELSE oldFacts
      /\ UNCHANGED <<put, calls, pc, had>>
  BY DEF WriteNext, passVars
<1>3. \/ writes' = writes /\ WritesFacts(w)
      \/ writes' = Tail(writes) /\ (WritesFacts(w) => docs' = w.facts)
  BY OneWriteStep
<1>4. \/ WritesFacts(w) /\ WriteFact(w.facts) /\ w.facts \in Facts
      \/ ~WritesFacts(w) /\ docs' = docs /\ writes' = Tail(writes)
  BY OneWriteStep
<1>5. Quiet' = Quiet
  BY <1>2 DEF Quiet
<1>6. writes \in Seq(Writes) /\ writes # <<>>
  BY <1>1 DEF TypeOK, ServerType
<1>7. UnlinkLast(writes')
  <2>1. CASE writes' = writes
    BY <2>1 DEF ImportInv
  <2>2. CASE writes' = Tail(writes)
    <3>1. /\ Len(writes) \in Nat /\ DOMAIN writes = 1 .. Len(writes)
          /\ DOMAIN Tail(writes) = 1 .. Len(writes) - 1
      BY <1>6
    <3>2. \A k \in DOMAIN Tail(writes) : k \in Nat /\ k + 1 \in DOMAIN writes /\ Tail(writes)[k] = writes[k + 1]
      BY <1>6, <3>1
    <3>3. ASSUME NEW j \in DOMAIN Tail(writes), NEW k \in DOMAIN Tail(writes),
                 Tail(writes)[k].op = "unlinkFacts", WritesFacts(Tail(writes)[j])
          PROVE  j < k
      <4>1. j + 1 < k + 1
        BY <3>2, <3>3 DEF ImportInv, UnlinkLast
      <4>2. QED BY <3>2, <4>1
    <3>4. QED BY <2>2, <3>3 DEF UnlinkLast
  <2>3. QED BY <1>3, <2>1, <2>2
\* When memory.json goes next no documents are pending.
<1>8. w.op = "unlinkFacts" => ~Pending
  <2>1. ASSUME w.op = "unlinkFacts", NEW j \in DOMAIN writes, WritesFacts(writes[j]) PROVE FALSE
    <3>1. /\ Len(writes) \in Nat /\ DOMAIN writes = 1 .. Len(writes) /\ 1 \in DOMAIN writes
          /\ w = writes[1]
      BY <1>6
    <3>2. j < 1
      BY <2>1, <3>1 DEF ImportInv, UnlinkLast
    <3>3. QED BY <3>1, <3>2
  <2>2. QED BY <2>1 DEF Pending, Ops
<1>9. w.op = "unlinkFacts" => w = Op("unlinkFacts")
  BY <1>1 DEF Writes, Op
<1> HIDE DEF w
<1>10. Ops(writes') \subseteq Ops(writes)
  BY <1>1, <1>3
<1>11. oldFacts' \in {None, had'}
  BY <1>2 DEF ImportInv
<1>12. \A u, v \in Ops(writes') : WritesFacts(u) /\ WritesFacts(v) => u.facts = v.facts
  BY <1>10 DEF ImportInv
<1>13. put' # None => calls' > 0
  BY <1>2 DEF ImportInv
<1>14. CASE WritesFacts(w)
  <2> DEFINE fs == w.facts
  <2>1. fs \in Facts /\ WriteFact(fs) /\ oldFacts' = oldFacts
    BY <1>2, <1>4, <1>14 DEF WritesFacts
  <2>2. PICK i \in Ids : docs'[i] = fs[i] /\ \A j \in Ids : j # i => docs'[j] = docs[j]
    BY <2>1, WriteFactIs DEF TypeOK
  <2>3. \A v \in Ops(writes) : WritesFacts(v) => v.facts = fs
    BY <1>1, <1>14 DEF ImportInv
  <2>4. \/ Pending' /\ w \in Ops(writes')
        \/ docs' = fs
    BY <1>1, <1>3, <1>14 DEF Pending
  <2>5. Op("unlinkFacts") \in Ops(writes') => Has(fs, had)
    BY <1>1, <1>10, <1>14 DEF ImportInv
  <2>6. oldFacts # None => FromOld(docs, had) /\ FromOld(fs, had)
    BY <1>1, <1>14 DEF ImportInv
  <2>7. Quiet /\ oldFacts = None => Both(fs, docs, had)
    BY <1>1, <1>14 DEF ImportInv
  <2> HIDE DEF fs
  <2>8. oldFacts' # None => FromOld(docs', had')
    BY <1>2, <2>1, <2>2, <2>6 DEF FromOld
  <2>9. oldFacts' # None => \A v \in Ops(writes') : WritesFacts(v) => FromOld(v.facts, had')
    BY <1>2, <1>10, <2>1, <2>3, <2>6
  <2>10. Quiet /\ oldFacts = None => Both(fs, docs', had)
    <3>1. ASSUME Both(fs, docs, had) PROVE Both(fs, docs', had)
      BY <2>2, <3>1 DEF Both
    <3>2. QED BY <2>7, <3>1
  <2>11. Both(fs, docs', had) => Has(docs', had)
    BY DEF Both, Has
  <2>12. Quiet' /\ oldFacts' = None =>
           Has(docs', had') /\ \A v \in Ops(writes') : WritesFacts(v) => Both(v.facts, docs', had')
    BY <1>2, <1>5, <1>10, <2>1, <2>3, <2>10, <2>11
  <2>13. Op("unlinkFacts") \in Ops(writes') =>
           /\ \A v \in Ops(writes') : WritesFacts(v) => Has(v.facts, had')
           /\ ~Pending' => Has(docs', had')
    BY <1>2, <1>10, <2>3, <2>4, <2>5
  <2>14. QED BY <1>7, <1>11, <1>12, <1>13, <2>8, <2>9, <2>12, <2>13 DEF ImportInv
<1>15. CASE ~WritesFacts(w)
  <2>1. docs' = docs /\ writes' = Tail(writes)
    BY <1>4, <1>15
  <2>2. Pending' = Pending
    <3>1. Pending <=> Pending'
      BY <1>1, <1>10, <1>15, <2>1 DEF Pending
    <3>2. QED BY <3>1 DEF Pending
  <2>3. oldFacts' # None => oldFacts # None
    BY <1>2
  <2>4. oldFacts' # None => /\ FromOld(docs', had')
                            /\ \A v \in Ops(writes') : WritesFacts(v) => FromOld(v.facts, had')
    BY <1>2, <1>10, <2>1, <2>3 DEF ImportInv
  <2>5. Op("unlinkFacts") \in Ops(writes') =>
          /\ \A v \in Ops(writes') : WritesFacts(v) => Has(v.facts, had')
          /\ ~Pending' => Has(docs', had')
    BY <1>2, <1>10, <2>1, <2>2 DEF ImportInv
  <2>6. ASSUME Quiet', oldFacts' = None
        PROVE  Has(docs', had') /\ \A v \in Ops(writes') : WritesFacts(v) => Both(v.facts, docs', had')
    <3>1. CASE w.op = "unlinkFacts"
      <4>1. Has(docs, had) /\ ~Pending
        BY <1>1, <1>8, <1>9, <3>1 DEF ImportInv
      <4>2. QED BY <1>2, <2>1, <2>2, <4>1 DEF Pending
    <3>2. CASE w.op # "unlinkFacts"
      <4>1. oldFacts = None /\ Quiet
        BY <1>2, <1>5, <2>6, <3>2
      <4>2. QED BY <1>2, <1>10, <2>1, <4>1 DEF ImportInv
    <3>3. QED BY <3>1, <3>2
  <2>7. QED BY <1>7, <1>11, <1>12, <1>13, <2>4, <2>5, <2>6 DEF ImportInv
<1>16. QED BY <1>14, <1>15

LEMMA WithFromOld ==
  ASSUME FilesType, HadInv, NEW old, old \subseteq had, FromOld(docs, had)
  PROVE  FromOld(With(old), had)
<1>1. old \in SUBSET OldSet
  BY DEF HadInv
<1>2. \A i \in Ids : \/ \E f \in old : f.id = i /\ With(old)[i] = Put(f)
                     \/ (\A f \in old : f.id # i) /\ With(old)[i] = docs[i]
  BY <1>1, WithIs
<1>3. \A f \in old : f \in had /\ Put(f).text = f.text
  BY <1>1, PutType
<1>4. QED BY <1>2, <1>3 DEF FromOld

\* A text with no '---' reads as it is.
LEMMA SameText ==
  ASSUME TypeOK, NEW i \in Ids, Read[i] # None, Read[i].text # Blank
  PROVE  docs[i] # None /\ docs[i].text = Read[i].text /\ Read[i] = docs[i]
<1>1. Read[i] = ReadFact(docs[i]) /\ docs[i] # None
  BY ReadOk
<1>2. QED BY <1>1 DEF ReadFact

\* The import gives every old fact a document with its text.
LEMMA ImportsHas ==
  ASSUME TypeOK, HadInv, oldFacts = had, FromOld(docs, had), NEW chosen, chosen \subseteq had,
         Imports(chosen)
  PROVE  Has(With(chosen), had)
<1> DEFINE fs == With(chosen)
           have == {Read[i].text : i \in There(Read)}
           open == {f \in had : f.id \notin There(Read) /\ f.text \notin have}
<1>1. chosen \in SUBSET OldSet
  BY DEF HadInv
<1>2. /\ \A i \in Ids : \/ \E f \in chosen : f.id = i /\ fs[i] = Put(f)
                        \/ (\A f \in chosen : f.id # i) /\ fs[i] = docs[i]
      /\ fs \in Facts
  BY <1>1, WithIs DEF TypeOK
<1>3. chosen \subseteq open /\ \A f \in open : \E g \in chosen : g.text = f.text
  BY DEF Imports
<1>4. ASSUME NEW i \in Ids, docs[i] # None PROVE fs[i] = docs[i]
  <2>1. i \in There(Read)
    BY <1>4, ReadOk DEF There
  <2>2. \A f \in chosen : f.id # i
    BY <1>3, <2>1
  <2>3. QED BY <1>2, <2>2
<1> HIDE DEF fs
<1>5. ASSUME NEW f \in had, f.text \notin Ruled
      PROVE  \E i \in Ids : fs[i] # None /\ fs[i].text = f.text
  <2>1. f.id \in Ids /\ f.text \in Texts /\ f.text # Blank
    BY MemoryAssumption DEF HadInv, OldSet
  <2>2. CASE f.text \in have
    <3>1. PICK i \in There(Read) : Read[i].text = f.text
      BY <2>2
    <3>2. i \in Ids /\ Read[i] # None
      BY <3>1 DEF There
    <3>3. docs[i] # None /\ docs[i].text = f.text
      BY <2>1, <3>1, <3>2, SameText
    <3>4. QED BY <1>4, <3>2, <3>3
  <2>3. CASE f.id \in There(Read)
    <3>1. docs[f.id] # None
      BY <2>1, <2>3, ReadOk DEF There
    <3>2. \E g \in had : g.id = f.id /\ g.text = docs[f.id].text
      BY <2>1, <3>1 DEF FromOld
    <3>3. docs[f.id].text = f.text
      BY <3>2 DEF HadInv
    <3>4. QED BY <1>4, <2>1, <3>1, <3>3
  <2>4. CASE f \in open
    <3>1. PICK g \in chosen : g.text = f.text
      BY <1>3, <2>4
    <3>2. g \in had /\ g.id \in Ids
      BY <1>1, <1>3 DEF OldSet
    <3>3. PICK h \in chosen : h.id = g.id /\ fs[g.id] = Put(h)
      BY <1>2, <3>1, <3>2
    <3>4. h = g
      BY <1>3, <3>2, <3>3 DEF HadInv
    <3>5. Put(g) \in Fact /\ Put(g).text = g.text
      BY <1>1, PutType
    <3>6. QED BY <3>1, <3>2, <3>3, <3>4, <3>5, NoneApart
  <2>5. QED BY <2>2, <2>3, <2>4
<1>6. QED BY <1>5 DEF Has, fs

\* A save when memory.json has gone.
LEMMA ImportSave ==
  ASSUME TypeOK, ImportInv, oldFacts = None, NEW fs \in Facts, Saves(fs),
         UNCHANGED <<docs, oldFacts, had>>, put' # None => calls' > 0,
         Quiet' => Quiet /\ Both(fs, docs, had)
  PROVE  ImportInv'
<1>1. /\ Only(writes', fs) /\ UnlinkLast(writes') /\ Op("unlinkFacts") \notin Ops(writes')
  BY SaveOps
<1>2. \A v \in Ops(writes') : WritesFacts(v) => v.facts = fs
  BY <1>1 DEF Only
<1>3. \A u, v \in Ops(writes') : WritesFacts(u) /\ WritesFacts(v) => u.facts = v.facts
  BY <1>2
<1>4. Quiet' => Has(docs', had') /\ \A v \in Ops(writes') : WritesFacts(v) => Both(v.facts, docs', had')
  BY <1>2 DEF ImportInv
<1>5. QED BY <1>1, <1>3, <1>4 DEF ImportInv

LEMMA ImportEdit ==
  ASSUME TypeOK, ImportInv, IndexInv, Free, SavesAgreed, UNCHANGED <<docs, oldFacts, had>>,
         put' # None => calls' > 0, ~Quiet'
  PROVE  ImportInv'
<1>1. oldFacts = None
  BY DEF Free, IndexInv
<1>2. QED BY <1>1, ImportSave DEF SavesAgreed

LEMMA ImportBoot == ASSUME TypeOK, HadInv, ImportInv, Boot PROVE ImportInv'
<1>1. PICK chosen : /\ chosen \subseteq (IF oldFacts = None THEN {} ELSE oldFacts)
                    /\ oldFacts # None => Imports(chosen)
                    /\ writes' = BootWrites(With(chosen))
  BY BootIs
<1> DEFINE fs == With(chosen)
<1>2. fs \in Facts /\ (oldFacts = None => fs = docs)
  BY <1>1, OldType DEF TypeOK
<1>3. /\ UNCHANGED <<docs, oldFacts, had, put, calls, pc>> /\ writes = <<>>
  BY DEF Boot, files, passVars
<1>4. oldFacts # None => /\ oldFacts = had /\ FromOld(docs, had) /\ chosen \subseteq had
                         /\ Imports(chosen)
  BY <1>1 DEF ImportInv
<1>5. oldFacts # None => Has(fs, had)
  BY <1>4, ImportsHas
<1>6. oldFacts # None => FromOld(fs, had)
  BY <1>4, WithFromOld DEF TypeOK
<1>7. writes' = BootWrites(fs)
  BY <1>1
<1> HIDE DEF fs
<1>8. /\ UnlinkLast(writes') /\ Only(writes', fs)
      /\ fs # docs => [op |-> "facts", facts |-> fs] \in Ops(writes')
      /\ oldFacts # None <=> Op("unlinkFacts") \in Ops(writes')
  BY <1>2, <1>7, BootWritesIs DEF TypeOK
<1>9. \A v \in Ops(writes') : WritesFacts(v) => v.facts = fs /\ fs # docs
  BY <1>8 DEF Only
<1>10. ~Pending' => fs = docs
  <2>1. WritesFacts([op |-> "facts", facts |-> fs])
    BY DEF WritesFacts
  <2>2. QED BY <1>8, <2>1 DEF Pending
<1>11. \A u, v \in Ops(writes') : WritesFacts(u) /\ WritesFacts(v) => u.facts = v.facts
  BY <1>9
<1>12. oldFacts' # None => /\ FromOld(docs', had')
                           /\ \A w \in Ops(writes') : WritesFacts(w) => FromOld(w.facts, had')
  BY <1>3, <1>4, <1>6, <1>9
<1>13. Op("unlinkFacts") \in Ops(writes') =>
         /\ \A w \in Ops(writes') : WritesFacts(w) => Has(w.facts, had')
         /\ ~Pending' => Has(docs', had')
  BY <1>3, <1>5, <1>8, <1>9, <1>10
<1>14. Quiet' => Quiet
  BY <1>3 DEF Quiet
<1>15. Quiet' /\ oldFacts' = None =>
         Has(docs', had') /\ \A w \in Ops(writes') : WritesFacts(w) => Both(w.facts, docs', had')
  BY <1>2, <1>3, <1>9, <1>14 DEF ImportInv
<1>16. oldFacts' \in {None, had'} /\ (put' # None => calls' > 0)
  BY <1>3 DEF ImportInv
<1>17. QED BY <1>8, <1>11, <1>12, <1>13, <1>15, <1>16 DEF ImportInv

LEMMA ImportMigrate == ASSUME TypeOK, HadInv, ImportInv, Migrate PROVE ImportInv'
<1>1. PICK old : /\ old = IF oldFacts = None THEN {} ELSE oldFacts
                 /\ writes' = MigrateWrites(With(old))
  BY MigrateIs
<1> DEFINE fs == With(old)
<1>2. fs \in Facts /\ (oldFacts = None => fs = docs)
  BY <1>1, OldType DEF TypeOK
<1>3. UNCHANGED <<docs, oldFacts, had, put, calls, pc>>
  BY DEF Migrate, files, passVars
<1>4. oldFacts # None => old \subseteq had /\ FromOld(docs, had)
  BY <1>1 DEF ImportInv
<1>5. oldFacts # None => FromOld(fs, had)
  BY <1>4, WithFromOld DEF TypeOK
<1>6. writes' = MigrateWrites(fs)
  BY <1>1
<1> HIDE DEF fs
<1>7. UnlinkLast(writes') /\ Only(writes', fs) /\ Op("unlinkFacts") \notin Ops(writes')
  BY <1>2, <1>6, MigrateWritesIs DEF TypeOK
<1>8. \A v \in Ops(writes') : WritesFacts(v) => v.facts = fs /\ fs # docs
  BY <1>7 DEF Only
<1>9. \A u, v \in Ops(writes') : WritesFacts(u) /\ WritesFacts(v) => u.facts = v.facts
  BY <1>8
<1>10. oldFacts' # None => /\ FromOld(docs', had')
                           /\ \A w \in Ops(writes') : WritesFacts(w) => FromOld(w.facts, had')
  BY <1>3, <1>4, <1>5, <1>8
<1>11. Quiet' => Quiet
  BY <1>3 DEF Quiet
<1>12. Quiet' /\ oldFacts' = None =>
         Has(docs', had') /\ \A w \in Ops(writes') : WritesFacts(w) => Both(w.facts, docs', had')
  BY <1>2, <1>3, <1>8, <1>11 DEF ImportInv
<1>13. oldFacts' \in {None, had'} /\ (put' # None => calls' > 0)
  BY <1>3 DEF ImportInv
<1>14. QED BY <1>7, <1>9, <1>10, <1>12, <1>13 DEF ImportInv

\* A text that dedupe removes stays in another document.
LEMMA ImportDedupe == ASSUME TypeOK, HadInv, ImportInv, IndexInv, Dedupe PROVE ImportInv'
<1>1. /\ UNCHANGED <<docs, oldFacts, had, put, calls, pc>> /\ server = "boot" /\ writes = <<>>
  BY DEF Dedupe, files, passVars
<1>2. oldFacts = None
  BY <1>1, OpsOf DEF IndexInv
<1>3. Quiet' => Quiet
  BY <1>1 DEF Quiet
<1>4. put' # None => calls' > 0
  BY <1>1 DEF ImportInv
<1>5. CASE writes' = writes
  BY <1>1, <1>3, <1>4, <1>5, ImportKept
<1>6. CASE \E fs \in Facts :
             /\ Saves(fs)
             /\ \A i \in There(Read) : Read[i].text # Blank =>
                  \E k \in There(Read) : fs[k] = Read[k] /\ Read[k].text = Read[i].text
  <2>1. PICK fs \in Facts :
          /\ Saves(fs)
          /\ \A i \in There(Read) : Read[i].text # Blank =>
               \E k \in There(Read) : fs[k] = Read[k] /\ Read[k].text = Read[i].text
    BY <1>6
  <2>2. ASSUME Quiet', NEW f \in had, f.text \notin Ruled
        PROVE  \E i \in Ids : /\ fs[i] # None /\ fs[i].text = f.text
                              /\ docs[i] # None /\ docs[i].text = f.text
    <3>1. Has(docs, had)
      BY <1>2, <1>3, <2>2 DEF ImportInv
    <3>2. PICK i \in Ids : docs[i] # None /\ docs[i].text = f.text
      BY <2>2, <3>1 DEF Has
    <3>3. Read[i] = docs[i] /\ i \in There(Read)
      BY <2>2, <3>2, ReadOk DEF ReadFact, There
    <3>4. f.text # Blank
      BY MemoryAssumption DEF HadInv, OldSet
    <3>5. PICK k \in There(Read) : fs[k] = Read[k] /\ Read[k].text = f.text
      BY <2>1, <3>2, <3>3, <3>4
    <3>6. k \in Ids /\ Read[k] # None
      BY <3>5 DEF There
    <3>7. docs[k] # None /\ docs[k].text = Read[k].text
      BY <3>4, <3>5, <3>6, SameText
    <3>8. QED BY <3>5, <3>6, <3>7
  <2>3. Quiet' => Quiet /\ Both(fs, docs, had)
    BY <1>3, <2>2 DEF Both
  <2>4. QED BY <1>1, <1>2, <1>4, <2>1, <2>3, ImportSave
<1>7. QED BY <1>5, <1>6, DedupeIs

\* A pass that has begun has not always been new.
LEMMA PassBegun == ASSUME TypeOK, NEW d \in Dreamers, Pass(d) PROVE ~Quiet'
<1>1. \E s \in PassStages \ {"new"} : pc' = [pc EXCEPT ![d] = s]
  BY DEF Pass, BeginPass, ReadCandidates, AskLLM, Apply, ReadBefore, Consolidate, ReadAfter,
         Record, EndPass, Goto, PassStages
<1>2. pc \in [Dreamers -> PassStages]
  BY DEF TypeOK, PassType, PassStages
<1>3. pc'[d] # "new"
  BY <1>1, <1>2
<1>4. QED BY <1>3 DEF Quiet

LEMMA ImportNext ==
  ASSUME TypeOK, HadInv, IndexInv, ImportInv, [Next]_vars PROVE ImportInv'
<1>1. CASE WriteNext
  BY <1>1, ImportWritten
<1>2. CASE Boot
  BY <1>2, ImportBoot
<1>3. CASE Dedupe
  BY <1>3, ImportDedupe
<1>4. CASE Crash
  <2>1. /\ writes' = <<>> /\ put' = None /\ UNCHANGED <<docs, oldFacts, had, calls>>
        /\ pc' = [d \in Dreamers |-> IF pc[d] = "new" THEN "new" ELSE "over"]
    BY <1>4 DEF Crash, files
  <2>2. Quiet' => Quiet
    BY <2>1 DEF Quiet
  <2>3. Ops(writes') = {}
    BY <2>1, OpsOf
  <2>4. UnlinkLast(writes')
    BY <2>1 DEF UnlinkLast
  <2>5. QED BY <2>1, <2>2, <2>3, <2>4 DEF ImportInv
<1>5. CASE Migrate
  BY <1>5, ImportMigrate
<1>6. calls \in Nat
  BY DEF TypeOK, ServerType
<1>7. CASE Edit
  <2>1. Free /\ UNCHANGED <<docs, oldFacts, had>> /\ calls' = calls + 1
    BY <1>7 DEF Edit, Add, Update, Delete, Edits, files
  <2>2. SavesAgreed
    BY <1>7, AddIs, DeleteIs, UpdateIs DEF Edit
  <2>3. ~Quiet' /\ calls' > 0
    BY <1>6, <2>1 DEF Quiet
  <2>4. QED BY <2>1, <2>2, <2>3, ImportEdit
<1>8. CASE SetCore
  <2>1. /\ Free /\ UNCHANGED <<docs, oldFacts, had, calls, pc>> /\ put' = None /\ put # None
    BY <1>8 DEF SetCore, files, history, passVars
  <2>2. SavesAgreed \/ writes' = writes
    BY <1>8, SetCoreIs
  <2>3. ~Quiet'
    BY <1>6, <2>1 DEF ImportInv, Quiet
  <2>4. QED BY <2>1, <2>2, <2>3, ImportEdit, ImportKept
<1>9. CASE ClearDreams
  <2>1. UNCHANGED <<docs, oldFacts, had, writes>> /\ calls' = calls + 1
    BY <1>9 DEF ClearDreams, history
  <2>2. ~Quiet' /\ calls' > 0
    BY <1>6, <2>1 DEF Quiet
  <2>3. QED BY <2>1, <2>2, ImportKept
<1>10. ASSUME NEW d \in Dreamers, Pass(d) PROVE ImportInv'
  <2>1. UNCHANGED <<docs, oldFacts, had, put, calls>>
    BY <1>10 DEF Pass, BeginPass, ReadCandidates, AskLLM, Apply, ReadBefore, Consolidate,
                 ReadAfter, Record, EndPass, files, PassFrame
  <2>2. ~Quiet'
    BY <1>10, PassBegun
  <2>3. put' # None => calls' > 0
    BY <2>1 DEF ImportInv
  <2>4. CASE Apply(d) \/ Consolidate(d)
    <3>1. Free
      BY <2>4 DEF Apply, Consolidate
    <3>2. SavesAgreed
      BY <2>4, ApplyIs, ConsolidateIs DEF SavesAgreed
    <3>3. QED BY <2>1, <2>2, <2>3, <3>1, <3>2, ImportEdit
  <2>5. CASE ~Apply(d) /\ ~Consolidate(d)
    <3>1. UNCHANGED writes
      BY <1>10, <2>5 DEF Pass, BeginPass, ReadCandidates, AskLLM, ReadBefore, ReadAfter, Record,
                         EndPass
    <3>2. QED BY <2>1, <2>2, <2>3, <3>1, ImportKept
  <2>6. QED BY <2>4, <2>5
<1>11. CASE UNCHANGED vars
  <2>1. UNCHANGED <<docs, writes, oldFacts, had, put, calls, pc>>
    BY <1>11 DEF vars, files, history, passVars
  <2>2. Quiet' => Quiet
    BY <2>1 DEF Quiet
  <2>3. QED BY <2>1, <2>2, ImportKept DEF ImportInv
<1>12. QED BY <1>1, <1>2, <1>3, <1>4, <1>5, <1>7, <1>8, <1>9, <1>10, <1>11 DEF Next

LEMMA ImportInit == ASSUME Init PROVE ImportInv
<1>1. docs = NoFacts /\ writes = <<>> /\ put = None /\ had = IF oldFacts = None THEN {} ELSE oldFacts
  BY DEF Init
<1>2. Ops(writes) = {} /\ UnlinkLast(writes)
  BY <1>1, OpsOf DEF UnlinkLast
<1>3. FromOld(docs, had)
  BY <1>1 DEF FromOld, NoFacts
<1>4. oldFacts = None => Has(docs, had)
  BY <1>1 DEF Has
<1>5. QED BY <1>1, <1>2, <1>3, <1>4 DEF ImportInv

LEMMA ImportProperty == ASSUME ImportInv PROVE ImportComplete
<1>1. ASSUME Quiet, oldFacts = None PROVE Has(docs, had)
  BY <1>1 DEF ImportInv
<1>2. QED BY <1>1 DEF Quiet, Has, ImportComplete, There

\* No fact of an older version is lost, whenever the process dies during its
\* import and however often it starts again: its file is there, or its text is in
\* a document, until somebody changes it.
THEOREM NothingLost == Spec => []ImportComplete
<1>1. Init => HadInv /\ IndexInv /\ ImportInv
  BY HadIs, ImportInit DEF HadInv, Init, IndexInv
<1>2. TypeOK /\ HadInv /\ IndexInv /\ ImportInv /\ [Next]_vars => HadInv' /\ IndexInv' /\ ImportInv'
  <2>1. ASSUME TypeOK, HadInv, IndexInv, ImportInv, [Next]_vars
        PROVE  HadInv' /\ IndexInv' /\ ImportInv'
    BY <2>1, HadKept, IndexNext, ImportNext DEF HadInv
  <2>2. QED BY <2>1
<1>3. ImportInv => ImportComplete
  BY ImportProperty
<1>4. QED BY <1>1, <1>2, <1>3, TypeCorrect, PTL DEF Spec

(* What a dream pass may remove *)

Spares == \A d \in Dreamers : pc[d] = "apply" /\ pc'[d] = "record" =>
  \A i \in There(docs) : Removes(i) =>
    /\ ReadFact(docs[i]).core => i \in Dropped(d)
    /\ i \in Dropped(d) \cup answer[d].pruned

LEMMA MergedIs == ASSUME NEW d, NEW fs PROVE Merged(d, fs) \subseteq Dropped(d)
<1>1. \A g, gone : DroppedBy(g, fs, gone) \subseteq g.drop
  BY DEF DroppedBy
<1>2. QED BY <1>1 DEF Merged, Dropped

\* Only Apply goes from "apply" to "record".
LEMMA OnlyApply ==
  ASSUME TypeOK, Next, NEW d \in Dreamers, pc[d] = "apply", pc'[d] = "record" PROVE Apply(d)
<1>1. pc \in [Dreamers -> PassStages]
  BY DEF TypeOK, PassType, PassStages
<1>2. CASE WriteNext \/ Boot \/ Dedupe \/ Migrate \/ SetCore \/ ClearDreams
  <2>1. pc' = pc
    BY <1>2 DEF WriteNext, Boot, Dedupe, Migrate, SetCore, ClearDreams, passVars
  <2>2. QED BY <2>1
<1>3. CASE Edit
  <2>1. pc' = pc
    BY <1>3 DEF Edit, Add, Update, Delete, Edits, passVars
  <2>2. QED BY <2>1
<1>4. CASE Crash
  <2>1. pc' = [e \in Dreamers |-> IF pc[e] = "new" THEN "new" ELSE "over"]
    BY <1>4 DEF Crash
  <2>2. QED BY <2>1
<1>5. ASSUME NEW e \in Dreamers, Pass(e) PROVE Apply(d)
  <2>1. \E s \in PassStages : pc' = [pc EXCEPT ![e] = s]
    BY <1>5 DEF Pass, BeginPass, ReadCandidates, AskLLM, Apply, ReadBefore, Consolidate,
                ReadAfter, Record, EndPass, Goto, PassStages
  <2>2. e = d
    BY <1>1, <2>1
  <2>3. QED BY <1>5, <2>2 DEF Pass, BeginPass, ReadCandidates, AskLLM, ReadBefore, Consolidate,
                              ReadAfter, Record, EndPass
<1>6. QED BY <1>2, <1>3, <1>4, <1>5 DEF Next

LEMMA ApplySpares ==
  ASSUME TypeOK, NEW d \in Dreamers, Apply(d), NEW i \in There(docs), Removes(i)
  PROVE  /\ ReadFact(docs[i]).core => i \in Dropped(d)
         /\ i \in Dropped(d) \cup answer[d].pruned
<1>1. PICK fs \in Facts :
        /\ Saves(fs)
        /\ \A j \in There(Read) : fs[j] = None => j \in Pruned(d, Read) \cup Merged(d, Read)
  BY ApplyIs
<1>2. Only(writes', fs)
  BY <1>1, SaveOps
<1>3. fs[i] = None
  BY <1>2 DEF Removes, Only, Ops, WritesFacts
<1>4. i \in There(Read) /\ Read[i] = ReadFact(docs[i])
  BY ReadOk DEF There
<1>5. i \in Pruned(d, Read) \cup Merged(d, Read)
  BY <1>1, <1>3, <1>4
<1>6. i \in Pruned(d, Read) => i \in answer[d].pruned /\ ~ReadFact(docs[i]).core
  BY <1>4 DEF Pruned, Protected
<1>7. i \in Merged(d, Read) => i \in Dropped(d)
  BY MergedIs
<1>8. QED BY <1>5, <1>6, <1>7

\* A dream pass never prunes a core fact, even one that became core while the
\* model was asked, and removes only what the answer prunes or merges.
THEOREM DreamsSpare == Spec => DreamSpares
<1>1. TypeOK /\ [Next]_vars => [Spares]_vars
  <2>1. ASSUME TypeOK, Next PROVE Spares
    BY <2>1, OnlyApply, ApplySpares DEF Spares
  <2>2. QED BY <2>1
<1>2. QED BY <1>1, TypeCorrect, PTL DEF Spec, DreamSpares, Spares
=============================================================================
