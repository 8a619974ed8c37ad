--------------------------- MODULE XMLMessagesProofs ---------------------------
(***************************************************************************)
(* Proofs about XMLMessages.  A message does not change while it is read,  *)
(* so that what is proved of the three parsers is proved apart.  For each  *)
(* there is an invariant of its loops: what the local variables hold after *)
(* the elements before tagDepth, and what the files, the search or the     *)
(* results read before are.  The properties are what it says at the end.   *)
(***************************************************************************)
EXTENDS XMLMessages, SequenceTheorems, TLAPS

----------------------------------------------------------------------------
(* Lists *)

LEMMA ListSeq ==
  ASSUME NEW s, IsList(s)
  PROVE  \E S : s \in Seq(S)
<1>1. s \in [1 .. Len(s) -> {s[i] : i \in 1 .. Len(s)}] /\ Len(s) \in Nat
  BY DEF IsList
<1> QED
  BY <1>1, SeqDef

LEMMA SeqList ==
  ASSUME NEW S, NEW s \in Seq(S)
  PROVE  IsList(s)
BY LenProperties DEF IsList

LEMMA ListFacts ==
  ASSUME NEW s, IsList(s)
  PROVE  DOMAIN s = 1 .. Len(s) /\ Len(s) \in Nat /\ (s = <<>> <=> Len(s) = 0)
<1>1. PICK S : s \in Seq(S)
  BY ListSeq
<1> QED
  BY <1>1

\* A list is known by its members
LEMMA ListsEqual ==
  ASSUME NEW s, IsList(s), NEW t, IsList(t), Len(s) = Len(t), \A i \in 1 .. Len(s) : s[i] = t[i]
  PROVE  s = t
BY DEF IsList

\* push_front()
LEMMA PushFront ==
  ASSUME NEW s, IsList(s), NEW x
  PROVE  /\ IsList(<<x>> \o s) /\ Len(<<x>> \o s) = Len(s) + 1
         /\ (<<x>> \o s)[1] = x /\ \A i \in 1 .. Len(s) : (<<x>> \o s)[i + 1] = s[i]
<1>1. PICK S : s \in Seq(S)
  BY ListSeq
<1>2. s \in Seq(S \cup {x}) /\ <<x>> \in Seq(S \cup {x})
  BY <1>1, SeqMonotonic
<1>3. <<x>> \o s \in Seq(S \cup {x})
  BY <1>2, ConcatProperties
<1>4. IsList(<<x>> \o s)
  BY <1>3, SeqList
<1> QED
  BY <1>2, <1>4, ConcatProperties

\* push_back()
LEMMA PushBack ==
  ASSUME NEW s, IsList(s), NEW x
  PROVE  /\ IsList(Append(s, x)) /\ Len(Append(s, x)) = Len(s) + 1
         /\ Append(s, x)[Len(s) + 1] = x /\ \A i \in 1 .. Len(s) : Append(s, x)[i] = s[i]
<1>1. PICK S : s \in Seq(S)
  BY ListSeq
<1>2. s \in Seq(S \cup {x})
  BY <1>1, SeqMonotonic
<1>3. Append(s, x) \in Seq(S \cup {x})
  BY <1>2
<1>4. IsList(Append(s, x))
  BY <1>3, SeqList
<1> QED
  BY <1>2, <1>4

\* j is t after s
IsJoin(j, s, t) ==
  /\ IsList(j) /\ Len(j) = Len(s) + Len(t)
  /\ \A i \in 1 .. Len(s) : j[i] = s[i]
  /\ \A i \in 1 .. Len(t) : j[Len(s) + i] = t[i]

LEMMA JoinFacts ==
  ASSUME NEW s, IsList(s), NEW t, IsList(t)
  PROVE  IsJoin(s \o t, s, t)
<1>1. PICK S : s \in Seq(S)
  BY ListSeq
<1>2. PICK T : t \in Seq(T)
  BY ListSeq
<1>3. s \in Seq(S \cup T) /\ t \in Seq(S \cup T)
  BY <1>1, <1>2, SeqMonotonic
<1>4. s \o t \in Seq(S \cup T)
  BY <1>3, ConcatProperties
<1>5. IsList(s \o t)
  BY <1>4, SeqList
<1> QED
  BY <1>3, <1>5, ConcatProperties DEF IsJoin

LEMMA OneElement ==
  ASSUME NEW x
  PROVE  IsList(<<x>>) /\ Len(<<x>>) = 1 /\ <<x>>[1] = x
<1>1. <<x>> \in Seq({x})
  OBVIOUS
<1>2. IsList(<<x>>)
  BY <1>1, SeqList
<1> QED
  BY <1>2

LEMMA NoElement == IsList(<<>>) /\ Len(<<>>) = 0
BY DEF IsList

LEMMA ReverseFacts ==
  ASSUME NEW s, IsList(s)
  PROVE  IsList(Reverse(s)) /\ Len(Reverse(s)) = Len(s) /\ \A i \in 1 .. Len(s) : Reverse(s)[i] = s[Len(s) - i + 1]
<1>1. PICK S : s \in Seq(S)
  BY ListSeq
<1>2. Reverse(s) \in [1 .. Len(s) -> S] /\ Len(s) \in Nat
  BY <1>1 DEF Reverse
<1>3. Reverse(s) \in Seq(S)
  BY <1>2, SeqDef
<1>4. IsList(Reverse(s))
  BY <1>3, SeqList
<1> QED
  BY <1>1, <1>2, <1>3, <1>4 DEF Reverse

LEMMA TabulateFacts ==
  ASSUME NEW n \in Nat, NEW f
  PROVE  IsList([i \in 1 .. n |-> f[i]]) /\ Len([i \in 1 .. n |-> f[i]]) = n
<1>1. [i \in 1 .. n |-> f[i]] \in [1 .. n -> {f[i] : i \in 1 .. n}]
  OBVIOUS
<1>2. [i \in 1 .. n |-> f[i]] \in Seq({f[i] : i \in 1 .. n})
  BY <1>1, SeqDef
<1>3. IsList([i \in 1 .. n |-> f[i]])
  BY <1>2, SeqList
<1> QED
  BY <1>1, <1>2, <1>3

LEMMA TextFacts ==
  ASSUME NEW c, IsText(c), c # <<>>
  PROVE  c = <<c[1]>>
<1>1. IsList(c) /\ Len(c) <= 1
  BY DEF IsText
<1>2. PICK n \in Nat : n = Len(c) /\ n # 0 /\ n <= 1
  BY <1>1, ListFacts
<1>3. Len(c) = 1
  BY <1>2
<1>4. PICK o : o = <<c[1]>>
  OBVIOUS
<1>5. IsList(o) /\ Len(o) = 1 /\ o[1] = c[1]
  BY <1>4, OneElement
<1>6. c = o
  BY <1>1, <1>3, <1>5, ListsEqual
<1> QED
  BY <1>4, <1>6

----------------------------------------------------------------------------
(* The loops *)

LEMMA LoopFacts ==
  /\ Depth["root"] = 1 /\ Depth["section"] = 2 /\ Depth["file"] = 3 /\ Depth["words"] = 4
  /\ Depth["slot"] = 2 /\ Depth["date"] = 3 /\ Depth["found"] = 2
  /\ Loops = {"root", "section", "file", "words", "slot", "date", "found"}
BY DEF Depth, Loops

LEMMA SiblingFacts ==
  /\ Siblings("root") = Document /\ Siblings("section") = Tag1.content /\ Siblings("file") = Tag2.content
  /\ Siblings("words") = Tag3.content /\ Siblings("slot") = Tag1.content /\ Siblings("date") = Tag2.content
  /\ Siblings("found") = Tag1.content
BY LoopFacts DEF Siblings

\* What each loop looks for
LEMMA NestedFacts ==
  /\ Indexing => Nested("root") = Sections /\ Texts("root") = {}
  /\ Searching => Nested("root") = {"TIMESLOT"} /\ Texts("root") = DOMAIN Criterion \cup {"CONTENT"}
  /\ Answering => Nested("root") = {"FILE"} /\ Texts("root") = {}
  /\ Nested("section") = {Section[Tag1.tag].of} /\ Texts("section") = {}
  /\ Nested("file") = {"INDEXAGE"} \cap Section[Tag1.tag].tags
  /\ Texts("file") = Section[Tag1.tag].tags \ {"INDEXAGE"}
  /\ Nested("words") = {} /\ Texts("words") = {"MOT"}
  /\ Nested("slot") = {"BEGIN", "END"} /\ Texts("slot") = {}
  /\ Nested("date") = {} /\ Texts("date") = {"DAY", "MONTH", "YEAR"}
  /\ Nested("found") = {}
  /\ Texts("found") = {"NAME", "PATH", "PERM", "SIZE", "LASTMODIF", "PROPRIO"}
<1>1. Indexing => ~Searching /\ ~Answering
  BY DEF Indexing, Searching, Answering
<1>2. Searching => ~Answering
  BY DEF Searching, Answering
<1>3. DOMAIN DatePart = {"DAY", "MONTH", "YEAR"}
  BY DEF DatePart
<1>4. DOMAIN FoundPart = {"NAME", "PATH", "PERM", "SIZE", "LASTMODIF", "PROPRIO"}
  BY DEF FoundPart
<1>5. /\ Indexing => Nested("root") = Sections /\ Texts("root") = {}
      /\ Searching => Nested("root") = {"TIMESLOT"} /\ Texts("root") = DOMAIN Criterion \cup {"CONTENT"}
      /\ Answering => Nested("root") = {"FILE"} /\ Texts("root") = {}
  BY <1>1, <1>2 DEF Nested, Texts
<1>6. /\ Nested("section") = {Section[Tag1.tag].of} /\ Texts("section") = {}
      /\ Nested("file") = {"INDEXAGE"} \cap Section[Tag1.tag].tags
      /\ Texts("file") = Section[Tag1.tag].tags \ {"INDEXAGE"}
      /\ Nested("words") = {} /\ Texts("words") = {"MOT"}
      /\ Nested("slot") = {"BEGIN", "END"} /\ Texts("slot") = {}
      /\ Nested("date") = {} /\ Texts("date") = {"DAY", "MONTH", "YEAR"}
      /\ Nested("found") = {} /\ Texts("found") = {"NAME", "PATH", "PERM", "SIZE", "LASTMODIF", "PROPRIO"}
  BY <1>3, <1>4 DEF Nested, Texts
<1> QED
  BY <1>5, <1>6

\* The parser of each message runs its own loops, each within an element of the loop
\* around it that this loop goes into
Place ==
  /\ msg \in Messages /\ tagDepth \in [1 .. 4 -> Nat \ {0}]
  /\ pc \in {"send", "root", "done", "dead"}
            \cup (IF Indexing THEN {"section", "file", "words"} ELSE IF Searching THEN {"slot", "date"} ELSE {"found"})
  /\ Indexing \/ Searching \/ Answering
  /\ pc \in {"section", "file", "words"} => tagDepth[1] <= Len(Document) /\ Tag1.tag \in Sections
  /\ pc \in {"slot", "date"} => tagDepth[1] <= Len(Document) /\ Tag1.tag = "TIMESLOT"
  /\ pc = "found" => tagDepth[1] <= Len(Document) /\ Tag1.tag = "FILE"
  /\ pc \in {"file", "words"} => tagDepth[2] <= Len(Tag1.content) /\ Tag2.tag = Section[Tag1.tag].of
  /\ pc = "words" => tagDepth[3] <= Len(Tag2.content) /\ Tag3.tag = "INDEXAGE" /\ Tag3.tag \in Section[Tag1.tag].tags
  /\ pc = "date" => tagDepth[2] <= Len(Tag1.content) /\ Tag2.tag \in {"BEGIN", "END"}

\* Where a step leaves the pointers as they are, the elements are the same
LEMMA Unmoved ==
  ASSUME UNCHANGED msg
  PROVE  /\ Document' = Document /\ Kind' = Kind /\ (Indexing' <=> Indexing) /\ (Searching' <=> Searching)
         /\ (Answering' <=> Answering)
         /\ tagDepth'[1] = tagDepth[1] => Tag1' = Tag1
         /\ tagDepth'[1] = tagDepth[1] /\ tagDepth'[2] = tagDepth[2] => Tag2' = Tag2
         /\ tagDepth'[1] = tagDepth[1] /\ tagDepth'[2] = tagDepth[2] /\ tagDepth'[3] = tagDepth[3] => Tag3' = Tag3
BY DEF Kind, Indexing, Searching, Answering, Document, Tag1, Tag2, Tag3

LEMMA Moves ==
  ASSUME tagDepth \in [1 .. 4 -> Nat \ {0}], NEW l \in Loops
  PROVE  /\ Onward(l) => /\ pc' = l /\ tagDepth' \in [1 .. 4 -> Nat \ {0}]
                         /\ tagDepth'[Depth[l]] = tagDepth[Depth[l]] + 1
                         /\ \A d \in 1 .. 4 : d # Depth[l] => tagDepth'[d] = tagDepth[d]
         /\ Enter(l) => /\ pc' = l /\ tagDepth' \in [1 .. 4 -> Nat \ {0}]
                        /\ tagDepth'[Depth[l]] = 1
                        /\ \A d \in 1 .. 4 : d # Depth[l] => tagDepth'[d] = tagDepth[d]
<1>1. Depth[l] \in 1 .. 4
  BY LoopFacts
<1> QED
  BY <1>1 DEF Onward, Enter

\* What the steps of each parser do
LEMMA ReadSectionSteps ==
  ASSUME Place
  PROVE  /\ EnterSection =>
              /\ Indexing /\ pc = "root" /\ tagDepth[1] <= Len(Document) /\ Tag1.tag \in Sections
              /\ Enter("section") /\ UNCHANGED <<msg, got>>
              /\ \E g, h \in Garbage : cur' = Locals(Tag1.tag, g, h)
         /\ EnterFile =>
              /\ Indexing /\ pc = "section" /\ tagDepth[2] <= Len(Tag1.content) /\ Tag2.tag = Section[Tag1.tag].of
              /\ Enter("file") /\ UNCHANGED <<msg, cur, got>>
         /\ ReadText =>
              /\ Indexing /\ pc = "file" /\ tagDepth[3] <= Len(Tag2.content)
              /\ Tag3.tag \in Section[Tag1.tag].tags \ {"INDEXAGE"} /\ Tag3.content # <<>>
              /\ cur' = [cur EXCEPT !.value[Tag3.tag] = Value(Tag3)] /\ pc' = "file" /\ UNCHANGED <<msg, got>>
              /\ tagDepth' = [tagDepth EXCEPT ![3] = IF Tag1.tag = "SUPPRESSIONS" THEN Len(Tag2.content) + 1
                                                      ELSE tagDepth[3] + 1]
         /\ EnterWords =>
              /\ Indexing /\ pc = "file" /\ tagDepth[3] <= Len(Tag2.content)
              /\ Tag3.tag = "INDEXAGE" /\ Tag3.tag \in Section[Tag1.tag].tags
              /\ Enter("words") /\ UNCHANGED <<msg, cur, got>>
         /\ LeaveWords => /\ Indexing /\ pc = "words" /\ tagDepth[4] > Len(Tag3.content)
                          /\ Onward("file") /\ UNCHANGED <<msg, cur, got>>
         /\ LeaveFile => /\ Indexing /\ pc = "file" /\ tagDepth[3] > Len(Tag2.content)
                         /\ Onward("section") /\ UNCHANGED <<msg, got>>
         /\ LeaveSection => /\ Indexing /\ pc = "section" /\ tagDepth[2] > Len(Tag1.content)
                            /\ Onward("root") /\ UNCHANGED msg
                            /\ got' = [got EXCEPT ![Tag1.tag] = cur.files]
<1>1. Indexing => ~Searching /\ ~Answering
  BY DEF Indexing, Searching, Answering
<1>2. /\ pc \in {"section", "file", "words"} => Indexing
      /\ pc \in {"slot", "date"} => Searching
      /\ pc = "found" => Answering
  BY DEF Place
<1>3. ASSUME EnterSection
      PROVE  /\ Indexing /\ pc = "root" /\ tagDepth[1] <= Len(Document) /\ Tag1.tag \in Sections
             /\ Enter("section") /\ UNCHANGED <<msg, got>>
             /\ \E g, h \in Garbage : cur' = Locals(Tag1.tag, g, h)
  BY <1>3, LoopFacts, SiblingFacts, NestedFacts DEF EnterSection, AtNested, AtElement, Element, Tag1
<1>4. ASSUME EnterFile
      PROVE  /\ Indexing /\ pc = "section" /\ tagDepth[2] <= Len(Tag1.content) /\ Tag2.tag = Section[Tag1.tag].of
             /\ Enter("file") /\ UNCHANGED <<msg, cur, got>>
  BY <1>2, <1>4, LoopFacts, SiblingFacts, NestedFacts DEF EnterFile, AtNested, AtElement, Element, Tag2
<1>5. ASSUME ReadText
      PROVE  /\ Indexing /\ pc = "file" /\ tagDepth[3] <= Len(Tag2.content)
             /\ Tag3.tag \in Section[Tag1.tag].tags \ {"INDEXAGE"} /\ Tag3.content # <<>>
             /\ cur' = [cur EXCEPT !.value[Tag3.tag] = Value(Tag3)] /\ pc' = "file" /\ UNCHANGED <<msg, got>>
             /\ tagDepth' = [tagDepth EXCEPT ![3] = IF Tag1.tag = "SUPPRESSIONS" THEN Len(Tag2.content) + 1
                                                     ELSE tagDepth[3] + 1]
  <2>1. /\ Indexing /\ pc = "file" /\ tagDepth[3] <= Len(Tag2.content)
        /\ Tag3.tag \in Section[Tag1.tag].tags \ {"INDEXAGE"} /\ Tag3.content # <<>>
    BY <1>2, <1>5, LoopFacts, SiblingFacts, NestedFacts DEF ReadText, AtText, AtElement, Element, Tag3
  <2>2. /\ cur' = [cur EXCEPT !.value[Tag3.tag] = Value(Tag3)] /\ UNCHANGED <<msg, got>>
    BY <1>5 DEF ReadText
  <2>3. CASE Tag1.tag = "SUPPRESSIONS"
    BY <1>5, <2>1, <2>2, <2>3 DEF ReadText
  <2>4. CASE Tag1.tag # "SUPPRESSIONS"
    BY <1>5, <2>1, <2>2, <2>4, LoopFacts DEF ReadText, Onward
  <2> QED
    BY <2>3, <2>4
<1>6. ASSUME EnterWords
      PROVE  /\ Indexing /\ pc = "file" /\ tagDepth[3] <= Len(Tag2.content)
             /\ Tag3.tag = "INDEXAGE" /\ Tag3.tag \in Section[Tag1.tag].tags
             /\ Enter("words") /\ UNCHANGED <<msg, cur, got>>
  BY <1>2, <1>6, LoopFacts, SiblingFacts, NestedFacts DEF EnterWords, AtNested, AtElement, Element, Tag3
<1>7. ASSUME LeaveWords
      PROVE  /\ Indexing /\ pc = "words" /\ tagDepth[4] > Len(Tag3.content)
             /\ Onward("file") /\ UNCHANGED <<msg, cur, got>>
  BY <1>2, <1>7, LoopFacts, SiblingFacts DEF LeaveWords, AtEnd
<1>8. ASSUME LeaveFile
      PROVE  /\ Indexing /\ pc = "file" /\ tagDepth[3] > Len(Tag2.content)
             /\ Onward("section") /\ UNCHANGED <<msg, got>>
  BY <1>2, <1>8, LoopFacts, SiblingFacts DEF LeaveFile, AtEnd
<1>9. ASSUME LeaveSection
      PROVE  /\ Indexing /\ pc = "section" /\ tagDepth[2] > Len(Tag1.content)
             /\ Onward("root") /\ UNCHANGED msg
             /\ got' = [got EXCEPT ![Tag1.tag] = cur.files]
  BY <1>2, <1>9, LoopFacts, SiblingFacts DEF LeaveSection, AtEnd
<1> QED
  BY <1>3, <1>4, <1>5, <1>6, <1>7, <1>8, <1>9

\* A word is read
LEMMA ReadWordSteps ==
  ASSUME Place, ReadWord
  PROVE  /\ Indexing /\ pc = "words" /\ tagDepth[4] <= Len(Tag3.content)
         /\ Tag3.content[tagDepth[4]].tag = "MOT" /\ Tag3.content[tagDepth[4]].content # <<>>
         /\ Onward("words") /\ UNCHANGED <<msg, got>>
         /\ \E f : /\ Tag3.content[tagDepth[4]].freq # <<>> => f = Tag3.content[tagDepth[4]].freq[1]
                   /\ cur' = [cur EXCEPT
                                !.value["INDEXAGE"] = <<[word |-> Tag3.content[tagDepth[4]].content[1], freq |-> f]>> \o @,
                                !.freq = 0]
<1>1. /\ Indexing /\ pc = "words" /\ tagDepth[4] <= Len(Tag3.content) /\ Element("words") = Tag3.content[tagDepth[4]]
      /\ Tag3.content[tagDepth[4]].tag = "MOT" /\ Tag3.content[tagDepth[4]].content # <<>>
  BY LoopFacts, SiblingFacts, NestedFacts DEF Place, ReadWord, AtText, AtElement, Element
<1>2. PICK w : w = Tag3.content[tagDepth[4]]
  OBVIOUS
<1>3. PICK f : f = IF w.freq = <<>> THEN cur.freq ELSE w.freq[1]
  OBVIOUS
<1>4. cur' = [cur EXCEPT !.value["INDEXAGE"] =
                           <<[word |-> w.content[1], freq |-> IF w.freq = <<>> THEN cur.freq ELSE w.freq[1]]>> \o @,
                         !.freq = 0]
  BY <1>1, <1>2 DEF ReadWord
<1>5. cur' = [cur EXCEPT !.value["INDEXAGE"] = <<[word |-> w.content[1], freq |-> f]>> \o @, !.freq = 0]
  BY <1>3, <1>4
<1>6. w.freq # <<>> => f = w.freq[1]
  BY <1>3
<1>7. Onward("words") /\ UNCHANGED <<msg, got>>
  BY DEF ReadWord
<1> QED
  BY <1>1, <1>2, <1>5, <1>6, <1>7

LEMMA ReadSearchSteps ==
  ASSUME Place
  PROVE  /\ ReadCriterion =>
              /\ Searching /\ pc = "root" /\ tagDepth[1] <= Len(Document)
              /\ Tag1.tag \in DOMAIN Criterion \cup {"CONTENT"} /\ Tag1.content # <<>>
              /\ got' = IF Tag1.tag = "CONTENT" THEN [got EXCEPT !.content = @ \/ Tag1.content[1] = "true"]
                        ELSE [got EXCEPT ![Criterion[Tag1.tag]] = Value(Tag1)]
              /\ Onward("root") /\ UNCHANGED <<msg, cur>>
         /\ EnterSlot =>
              /\ Searching /\ pc = "root" /\ tagDepth[1] <= Len(Document) /\ Tag1.tag = "TIMESLOT"
              /\ Enter("slot") /\ UNCHANGED <<msg, cur, got>>
         /\ EnterDate =>
              /\ Searching /\ pc = "slot" /\ tagDepth[2] <= Len(Tag1.content) /\ Tag2.tag \in {"BEGIN", "END"}
              /\ Enter("date") /\ UNCHANGED <<msg, got>>
              /\ \E g, h \in Garbage : cur' = [day |-> g, month |-> "", year |-> h]
         /\ ReadDatePart =>
              /\ Searching /\ pc = "date" /\ tagDepth[3] <= Len(Tag2.content)
              /\ Tag3.tag \in {"DAY", "MONTH", "YEAR"} /\ Tag3.content # <<>>
              /\ cur' = [cur EXCEPT ![DatePart[Tag3.tag]] = Value(Tag3)]
              /\ Onward("date") /\ UNCHANGED <<msg, got>>
         /\ LeaveDate =>
              /\ Searching /\ pc = "date" /\ tagDepth[3] > Len(Tag2.content)
              /\ got' = IF Tag2.tag = "BEGIN" THEN [got EXCEPT !.begin = cur] ELSE [got EXCEPT !.end = cur]
              /\ Onward("slot") /\ UNCHANGED msg
         /\ LeaveSlot => /\ Searching /\ pc = "slot" /\ tagDepth[2] > Len(Tag1.content)
                         /\ Onward("root") /\ UNCHANGED <<msg, cur, got>>
<1>1. Searching => ~Indexing /\ ~Answering
  BY DEF Indexing, Searching, Answering
<1>2. pc \in {"slot", "date"} => Searching
  BY DEF Place
<1>3. ASSUME ReadCriterion
      PROVE  /\ Searching /\ pc = "root" /\ tagDepth[1] <= Len(Document)
             /\ Tag1.tag \in DOMAIN Criterion \cup {"CONTENT"} /\ Tag1.content # <<>>
             /\ got' = IF Tag1.tag = "CONTENT" THEN [got EXCEPT !.content = @ \/ Tag1.content[1] = "true"]
                       ELSE [got EXCEPT ![Criterion[Tag1.tag]] = Value(Tag1)]
             /\ Onward("root") /\ UNCHANGED <<msg, cur>>
  <2>1. /\ Searching /\ pc = "root" /\ tagDepth[1] <= Len(Document)
        /\ Tag1.tag \in DOMAIN Criterion \cup {"CONTENT"} /\ Tag1.content # <<>>
    BY <1>3, LoopFacts, SiblingFacts, NestedFacts DEF ReadCriterion, AtText, AtElement, Element, Tag1
  <2> QED
    BY <1>3, <2>1 DEF ReadCriterion
<1>4. ASSUME EnterSlot
      PROVE  /\ Searching /\ pc = "root" /\ tagDepth[1] <= Len(Document) /\ Tag1.tag = "TIMESLOT"
             /\ Enter("slot") /\ UNCHANGED <<msg, cur, got>>
  BY <1>4, LoopFacts, SiblingFacts, NestedFacts DEF EnterSlot, AtNested, AtElement, Element, Tag1
<1>5. ASSUME EnterDate
      PROVE  /\ Searching /\ pc = "slot" /\ tagDepth[2] <= Len(Tag1.content) /\ Tag2.tag \in {"BEGIN", "END"}
             /\ Enter("date") /\ UNCHANGED <<msg, got>>
             /\ \E g, h \in Garbage : cur' = [day |-> g, month |-> "", year |-> h]
  BY <1>2, <1>5, LoopFacts, SiblingFacts, NestedFacts DEF EnterDate, AtNested, AtElement, Element, Tag2
<1>6. ASSUME ReadDatePart
      PROVE  /\ Searching /\ pc = "date" /\ tagDepth[3] <= Len(Tag2.content)
             /\ Tag3.tag \in {"DAY", "MONTH", "YEAR"} /\ Tag3.content # <<>>
             /\ cur' = [cur EXCEPT ![DatePart[Tag3.tag]] = Value(Tag3)]
             /\ Onward("date") /\ UNCHANGED <<msg, got>>
  <2>1. /\ Searching /\ pc = "date" /\ tagDepth[3] <= Len(Tag2.content)
        /\ Tag3.tag \in {"DAY", "MONTH", "YEAR"} /\ Tag3.content # <<>>
    BY <1>2, <1>6, LoopFacts, SiblingFacts, NestedFacts DEF ReadDatePart, AtText, AtElement, Element, Tag3
  <2> QED
    BY <1>6, <2>1 DEF ReadDatePart
<1>7. ASSUME LeaveDate
      PROVE  /\ Searching /\ pc = "date" /\ tagDepth[3] > Len(Tag2.content)
             /\ got' = IF Tag2.tag = "BEGIN" THEN [got EXCEPT !.begin = cur] ELSE [got EXCEPT !.end = cur]
             /\ Onward("slot") /\ UNCHANGED msg
  BY <1>2, <1>7, LoopFacts, SiblingFacts DEF LeaveDate, AtEnd
<1>8. ASSUME LeaveSlot
      PROVE  /\ Searching /\ pc = "slot" /\ tagDepth[2] > Len(Tag1.content)
             /\ Onward("root") /\ UNCHANGED <<msg, cur, got>>
  BY <1>2, <1>8, LoopFacts, SiblingFacts DEF LeaveSlot, AtEnd
<1> QED
  BY <1>3, <1>4, <1>5, <1>6, <1>7, <1>8

LEMMA ReadResultSteps ==
  ASSUME Place
  PROVE  /\ EnterFound =>
              /\ Answering /\ pc = "root" /\ tagDepth[1] <= Len(Document) /\ Tag1.tag = "FILE"
              /\ Enter("found") /\ UNCHANGED <<msg, got>>
              /\ \E g \in Garbage : cur' = NewFile(g)
         /\ MajField =>
              /\ Answering /\ pc = "found" /\ tagDepth[2] <= Len(Tag1.content)
              /\ Tag2.tag \in {"NAME", "PATH", "PERM", "SIZE", "LASTMODIF", "PROPRIO"} /\ Tag2.content # <<>>
              /\ cur' = [cur EXCEPT ![FoundPart[Tag2.tag]] = Value(Tag2)]
              /\ Onward("found") /\ UNCHANGED <<msg, got>>
         /\ LeaveFound =>
              /\ Answering /\ pc = "found" /\ tagDepth[2] > Len(Tag1.content)
              /\ got' = Append(got, cur) /\ Onward("root") /\ UNCHANGED msg
<1>1. Answering => ~Indexing /\ ~Searching
  BY DEF Indexing, Searching, Answering
<1>2. pc = "found" => Answering
  BY DEF Place
<1>3. ASSUME EnterFound
      PROVE  /\ Answering /\ pc = "root" /\ tagDepth[1] <= Len(Document) /\ Tag1.tag = "FILE"
             /\ Enter("found") /\ UNCHANGED <<msg, got>>
             /\ \E g \in Garbage : cur' = NewFile(g)
  BY <1>3, LoopFacts, SiblingFacts, NestedFacts DEF EnterFound, AtNested, AtElement, Element, Tag1
<1>4. ASSUME MajField
      PROVE  /\ Answering /\ pc = "found" /\ tagDepth[2] <= Len(Tag1.content)
             /\ Tag2.tag \in {"NAME", "PATH", "PERM", "SIZE", "LASTMODIF", "PROPRIO"} /\ Tag2.content # <<>>
             /\ cur' = [cur EXCEPT ![FoundPart[Tag2.tag]] = Value(Tag2)]
             /\ Onward("found") /\ UNCHANGED <<msg, got>>
  <2>1. /\ Answering /\ pc = "found" /\ tagDepth[2] <= Len(Tag1.content)
        /\ Tag2.tag \in {"NAME", "PATH", "PERM", "SIZE", "LASTMODIF", "PROPRIO"} /\ Tag2.content # <<>>
    BY <1>2, <1>4, LoopFacts, SiblingFacts, NestedFacts DEF MajField, AtText, AtElement, Element, Tag2
  <2> QED
    BY <1>4, <2>1 DEF MajField
<1>5. ASSUME LeaveFound
      PROVE  /\ Answering /\ pc = "found" /\ tagDepth[2] > Len(Tag1.content)
             /\ got' = Append(got, cur) /\ Onward("root") /\ UNCHANGED msg
  BY <1>2, <1>5, LoopFacts, SiblingFacts DEF LeaveFound, AtEnd
<1> QED
  BY <1>3, <1>4, <1>5

\* An element is skipped when no loop looks for it, and ends the reader when it has no text
LEMMA SkipSteps ==
  ASSUME Place, NEW l \in Loops, Skip(l)
  PROVE  /\ pc = l /\ Onward(l) /\ UNCHANGED <<msg, cur, got>>
         /\ tagDepth[Depth[l]] <= Len(Siblings(l))
         /\ l = "root" => Tag1.tag \notin Nested(l) \cup Texts(l)
         /\ l \in {"section", "slot", "found"} => Tag2.tag \notin Nested(l) \cup Texts(l)
         /\ l \in {"file", "date"} => Tag3.tag \notin Nested(l) \cup Texts(l)
         /\ l = "words" => Tag3.content[tagDepth[4]].tag # "MOT"
<1>1. /\ pc = l /\ Onward(l) /\ UNCHANGED <<msg, cur, got>> /\ tagDepth[Depth[l]] <= Len(Siblings(l))
      /\ Element(l).tag \notin Nested(l) \cup Texts(l)
  BY DEF Skip, AtElement
<1>2. /\ l = "root" => Element(l) = Tag1
      /\ l \in {"section", "slot", "found"} => Element(l) = Tag2
      /\ l \in {"file", "date"} => Element(l) = Tag3
      /\ l = "words" => Element(l) = Tag3.content[tagDepth[4]]
  BY LoopFacts, SiblingFacts DEF Element, Tag1, Tag2, Tag3
<1>3. Texts("words") = {"MOT"}
  BY NestedFacts
<1> QED
  BY <1>1, <1>2, <1>3

LEMMA UseNullSteps ==
  ASSUME Place, NEW l \in Loops, UseNull(l)
  PROVE  /\ pc = l /\ pc' = "dead" /\ UNCHANGED <<msg, tagDepth, cur, got>>
         /\ tagDepth[Depth[l]] <= Len(Siblings(l))
         /\ l = "root" => Tag1.tag \in Texts(l) /\ Tag1.content = <<>>
         /\ l = "found" => Tag2.tag \in Texts(l) /\ Tag2.content = <<>>
         /\ l \in {"file", "date"} => Tag3.tag \in Texts(l) /\ Tag3.content = <<>>
         /\ l = "words" => Tag3.content[tagDepth[4]].tag = "MOT" /\ Tag3.content[tagDepth[4]].content = <<>>
         /\ l \notin {"section", "slot"}
<1>1. /\ pc = l /\ pc' = "dead" /\ UNCHANGED <<msg, tagDepth, cur, got>> /\ tagDepth[Depth[l]] <= Len(Siblings(l))
      /\ Element(l).tag \in Texts(l) /\ Element(l).content = <<>>
  BY DEF UseNull, AtElement
<1>2. /\ l = "root" => Element(l) = Tag1
      /\ l = "found" => Element(l) = Tag2
      /\ l \in {"file", "date"} => Element(l) = Tag3
      /\ l = "words" => Element(l) = Tag3.content[tagDepth[4]]
  BY LoopFacts, SiblingFacts DEF Element, Tag1, Tag2, Tag3
<1>3. Texts("words") = {"MOT"} /\ Texts("section") = {} /\ Texts("slot") = {}
  BY NestedFacts
<1> QED
  BY <1>1, <1>2, <1>3

LEMMA EndSteps ==
  ASSUME Place, EndOfDocument
  PROVE  /\ pc = "root" /\ tagDepth[1] > Len(Document) /\ pc' = "done" /\ UNCHANGED <<msg, tagDepth, cur>>
         /\ got' = IF Searching THEN ValidDates(got) ELSE got
BY LoopFacts, SiblingFacts DEF EndOfDocument, AtEnd

LEMMA PlaceInit ==
  ASSUME Init
  PROVE  Place
<1>1. msg \in Messages /\ pc = "send" /\ tagDepth \in [1 .. 4 -> Nat \ {0}]
  BY DEF Init
<1>2. Indexing \/ Searching \/ Answering
  BY <1>1, MessagesAssumption DEF Indexing, Searching, Answering, Kind
<1> QED
  BY <1>1, <1>2 DEF Place

LEMMA PlaceStep ==
  ASSUME Place, [Next]_vars
  PROVE  Place'
<1>1. /\ msg \in Messages /\ tagDepth \in [1 .. 4 -> Nat \ {0}] /\ (Indexing \/ Searching \/ Answering)
      /\ Indexing => ~Searching /\ ~Answering
      /\ Searching => ~Answering
  BY DEF Place, Indexing, Searching, Answering
<1>2. CASE UNCHANGED vars
  <2>1. UNCHANGED <<msg, pc, tagDepth>>
    BY <1>2 DEF vars
  <2> QED
    BY <2>1, Unmoved DEF Place
<1>3. CASE Send
  <2>1. UNCHANGED <<msg, tagDepth>> /\ pc' \in {"root", "dead"}
    BY <1>3 DEF Send
  <2> QED
    BY <1>1, <2>1, Unmoved DEF Place
<1>4. CASE EndOfDocument
  BY <1>1, <1>4, EndSteps, Unmoved DEF Place
<1>5. CASE ReadSection
  <2>1. CASE EnterSection
    BY <1>1, <2>1, ReadSectionSteps, Moves, LoopFacts, Unmoved DEF Place
  <2>2. CASE EnterFile
    BY <1>1, <2>2, ReadSectionSteps, Moves, LoopFacts, Unmoved DEF Place
  <2>3. CASE ReadText
    <3>1. /\ tagDepth' \in [1 .. 4 -> Nat \ {0}]
          /\ tagDepth'[1] = tagDepth[1] /\ tagDepth'[2] = tagDepth[2]
      <4>1. Len(Tag2.content) \in Int /\ tagDepth[3] <= Len(Tag2.content) => Len(Tag2.content) + 1 \in Nat \ {0}
        BY <1>1
      <4> QED
        BY <1>1, <2>3, <4>1, ReadSectionSteps
    <3> QED
      BY <1>1, <2>3, <3>1, ReadSectionSteps, Unmoved DEF Place
  <2>4. CASE EnterWords
    BY <1>1, <2>4, ReadSectionSteps, Moves, LoopFacts, Unmoved DEF Place
  <2>5. CASE ReadWord
    <3>1. pc = "words" /\ Onward("words") /\ UNCHANGED msg /\ Indexing
      BY <2>5, ReadWordSteps
    <3> QED
      BY <1>1, <3>1, Moves, LoopFacts, Unmoved DEF Place
  <2>6. CASE LeaveWords
    BY <1>1, <2>6, ReadSectionSteps, Moves, LoopFacts, Unmoved DEF Place
  <2>7. CASE LeaveFile
    BY <1>1, <2>7, ReadSectionSteps, Moves, LoopFacts, Unmoved DEF Place
  <2>8. CASE LeaveSection
    BY <1>1, <2>8, ReadSectionSteps, Moves, LoopFacts, Unmoved DEF Place
  <2> QED
    BY <1>5, <2>1, <2>2, <2>3, <2>4, <2>5, <2>6, <2>7, <2>8 DEF ReadSection
<1>6. CASE ReadSearch
  <2>1. CASE ReadCriterion
    BY <1>1, <2>1, ReadSearchSteps, Moves, LoopFacts, Unmoved DEF Place
  <2>2. CASE EnterSlot
    <3>1. /\ pc = "root" /\ Enter("slot") /\ UNCHANGED msg /\ Searching
          /\ tagDepth[1] <= Len(Document) /\ Tag1.tag = "TIMESLOT"
      BY <2>2, ReadSearchSteps
    <3> QED
      BY <1>1, <3>1, Moves, LoopFacts, Unmoved DEF Place
  <2>3. CASE EnterDate
    <3>1. /\ pc = "slot" /\ Enter("date") /\ UNCHANGED msg /\ Searching
          /\ tagDepth[2] <= Len(Tag1.content) /\ Tag2.tag \in {"BEGIN", "END"}
      BY <2>3, ReadSearchSteps
    <3> QED
      BY <1>1, <3>1, Moves, LoopFacts, Unmoved DEF Place
  <2>4. CASE ReadDatePart
    <3>1. /\ pc = "date" /\ Onward("date") /\ UNCHANGED msg /\ Searching
      BY <2>4, ReadSearchSteps
    <3> QED
      BY <1>1, <3>1, Moves, LoopFacts, Unmoved DEF Place
  <2>5. CASE LeaveDate
    <3>1. /\ pc = "date" /\ Onward("slot") /\ UNCHANGED msg /\ Searching
      BY <2>5, ReadSearchSteps
    <3> QED
      BY <1>1, <3>1, Moves, LoopFacts, Unmoved DEF Place
  <2>6. CASE LeaveSlot
    BY <1>1, <2>6, ReadSearchSteps, Moves, LoopFacts, Unmoved DEF Place
  <2> QED
    BY <1>6, <2>1, <2>2, <2>3, <2>4, <2>5, <2>6 DEF ReadSearch
<1>7. CASE ReadResult
  <2>1. CASE EnterFound
    BY <1>1, <2>1, ReadResultSteps, Moves, LoopFacts, Unmoved DEF Place
  <2>2. CASE MajField
    BY <1>1, <2>2, ReadResultSteps, Moves, LoopFacts, Unmoved DEF Place
  <2>3. CASE LeaveFound
    BY <1>1, <2>3, ReadResultSteps, Moves, LoopFacts, Unmoved DEF Place
  <2> QED
    BY <1>7, <2>1, <2>2, <2>3 DEF ReadResult
<1>8. ASSUME NEW l \in Loops, Skip(l)
      PROVE  Place'
  <2>1. /\ pc' = pc /\ pc = l /\ UNCHANGED msg /\ tagDepth' \in [1 .. 4 -> Nat \ {0}]
        /\ \A d \in 1 .. 4 : d # Depth[l] => tagDepth'[d] = tagDepth[d]
    BY <1>1, <1>8, SkipSteps, Moves
  <2> QED
    BY <1>1, <2>1, LoopFacts, Unmoved DEF Place
<1>9. ASSUME NEW l \in Loops, UseNull(l)
      PROVE  Place'
  <2>1. pc' = "dead" /\ UNCHANGED <<msg, tagDepth>>
    BY <1>9, UseNullSteps
  <2> QED
    BY <1>1, <2>1, Unmoved DEF Place
<1> QED
  BY <1>2, <1>3, <1>4, <1>5, <1>6, <1>7, <1>8, <1>9 DEF Next

----------------------------------------------------------------------------
(* The documents of InterpretIndexation() *)

LEMMA SectionFacts ==
  /\ Sections = {"RENOMMAGES", "MODIFICATIONS", "SUPPRESSIONS", "CREATIONS"}
  /\ Section["SUPPRESSIONS"].tags = {"PATH"}
  /\ \A sec \in Sections : Section[sec].free \subseteq {"TAILLE", "NEWPATH"}
  /\ \A sec \in Sections : "MOT" \notin Section[sec].tags
BY DEF Section, Sections, Both

\* What the daemon sends of an event has no file element that the parser looks for
LEMMA EventDocument ==
  ASSUME NEW ev
  PROVE  IsIndexation(MIToBI(ev))
<1>1. ASSUME NEW tag, NEW sec \in Sections, NEW c, tag # Section[sec].of
      PROVE  IsIndexation(<<Elem(sec, <<Elem(tag, c)>>)>>)
  <2>1. PICK e : e = Elem(tag, c)
    OBVIOUS
  <2>2. PICK s : s = Elem(sec, <<e>>)
    OBVIOUS
  <2>3. e.tag = tag /\ s.tag = sec /\ s.content = <<e>>
    BY <2>1, <2>2 DEF Elem
  <2>4. IsList(<<e>>) /\ DOMAIN <<e>> = {1} /\ <<e>>[1] = e
    BY OneElement
  <2>5. IsList(<<s>>) /\ DOMAIN <<s>> = {1} /\ <<s>>[1] = s
    BY OneElement
  <2>6. IsIndexation(<<s>>)
    BY <1>1, <2>3, <2>4, <2>5 DEF IsIndexation
  <2> QED
    BY <2>1, <2>2, <2>6
<1>2. /\ "MODIFICATIONS" \in Sections /\ "FICHIERMOFIFIE" # Section["MODIFICATIONS"].of
      /\ "SUPPRESSIONS" \in Sections
  BY DEF Section, Sections
<1>3. IsIndexation(<<>>)
  BY NoElement, ListFacts DEF IsIndexation
<1>4. ASSUME NEW c
      PROVE  IsIndexation(<<Elem("SUPPRESSIONS", <<Elem("FICHIERSUPPRIME", <<Elem("FICHIERSUPPRIME", c)>>)>>)>>)
  <2>1. PICK x : x = Elem("FICHIERSUPPRIME", c)
    OBVIOUS
  <2>2. PICK e : e = Elem("FICHIERSUPPRIME", <<x>>)
    OBVIOUS
  <2>3. PICK s : s = Elem("SUPPRESSIONS", <<e>>)
    OBVIOUS
  <2>4. x.tag = "FICHIERSUPPRIME" /\ e.tag = "FICHIERSUPPRIME" /\ e.content = <<x>> /\ s.tag = "SUPPRESSIONS" /\ s.content = <<e>>
    BY <2>1, <2>2, <2>3 DEF Elem
  <2>5. IsList(<<x>>) /\ DOMAIN <<x>> = {1} /\ <<x>>[1] = x
    BY OneElement
  <2>6. IsFile("SUPPRESSIONS", e)
    BY <2>4, <2>5, SectionFacts DEF IsFile
  <2>7. IsList(<<e>>) /\ DOMAIN <<e>> = {1} /\ <<e>>[1] = e
    BY OneElement
  <2>8. IsList(<<s>>) /\ DOMAIN <<s>> = {1} /\ <<s>>[1] = s
    BY OneElement
  <2>9. IsIndexation(<<s>>)
    BY <2>4, <2>6, <2>7, <2>8 DEF IsIndexation
  <2> QED
    BY <2>1, <2>2, <2>3, <2>9
<1>5. CASE IsType(ev.mask, ANOTIFY_WRITE) /\ ev.info # <<>>
  <2>1. PICK c : MIToBI(ev) = <<Elem("MODIFICATIONS", <<Elem("FICHIERMOFIFIE", c)>>)>>
    BY <1>5 DEF MIToBI
  <2> QED
    BY <1>1, <1>2, <2>1
<1>6. CASE ~IsType(ev.mask, ANOTIFY_WRITE) /\ IsType(ev.mask, ANOTIFY_DELETE)
  <2>1. MIToBI(ev) = <<Elem("SUPPRESSIONS", <<Elem("FICHIERSUPPRIME", <<Elem("FICHIERSUPPRIME", Text(ev.name))>>)>>)>>
    BY <1>6 DEF MIToBI
  <2> QED
    BY <1>4, <2>1
<1>7. CASE ~(IsType(ev.mask, ANOTIFY_WRITE) /\ ev.info # <<>>) /\ ~(~IsType(ev.mask, ANOTIFY_WRITE) /\ IsType(ev.mask, ANOTIFY_DELETE))
  <2>1. MIToBI(ev) = <<>>
    BY <1>7 DEF MIToBI
  <2> QED
    BY <1>3, <2>1
<1> QED
  BY <1>5, <1>6, <1>7

LEMMA IndexingDocument ==
  ASSUME Place, Indexing
  PROVE  /\ IsIndexation(Document) /\ IsList(Document)
         /\ pc \in {"section", "file", "words"} =>
              /\ tagDepth[1] \in DOMAIN Document /\ IsList(Tag1.content) /\ Tag1.tag \in Sections
         /\ pc \in {"file", "words"} =>
              /\ tagDepth[2] \in DOMAIN Tag1.content /\ IsList(Tag2.content) /\ IsFile(Tag1.tag, Tag2)
         /\ pc = "words" => tagDepth[3] \in DOMAIN Tag2.content /\ IsList(Tag3.content)
         /\ pc = "section" /\ tagDepth[2] <= Len(Tag1.content) /\ Tag2.tag = Section[Tag1.tag].of =>
              tagDepth[2] \in DOMAIN Tag1.content /\ IsList(Tag2.content) /\ IsFile(Tag1.tag, Tag2)
<1>1. IsIndexation(Document)
  <2>1. CASE Kind = "event"
    BY <2>1, EventDocument DEF Document
  <2>2. CASE Kind = "indexation"
    BY <2>2, MessagesAssumption DEF Document, Kind, Place
  <2> QED
    BY <2>1, <2>2 DEF Indexing
<1>2. IsList(Document) /\ DOMAIN Document = 1 .. Len(Document)
  BY <1>1, ListFacts DEF IsIndexation
<1>3. tagDepth[1] \in Nat \ {0} /\ tagDepth[2] \in Nat \ {0} /\ tagDepth[3] \in Nat \ {0}
  BY DEF Place
<1>4. ASSUME pc \in {"section", "file", "words"}
      PROVE  tagDepth[1] \in DOMAIN Document /\ IsList(Tag1.content) /\ Tag1.tag \in Sections
             /\ \A f \in DOMAIN Tag1.content : Tag1.content[f].tag = Section[Tag1.tag].of => IsFile(Tag1.tag, Tag1.content[f])
  <2>1. tagDepth[1] \in DOMAIN Document /\ Tag1.tag \in Sections
    <3>1. Len(Document) \in Nat
      BY <1>2, ListFacts
    <3> QED
      BY <1>2, <1>3, <1>4, <3>1 DEF Place
  <2> QED
    BY <1>1, <2>1 DEF IsIndexation, Tag1
<1>5. ASSUME pc \in {"section", "file", "words"}, tagDepth[2] <= Len(Tag1.content), Tag2.tag = Section[Tag1.tag].of
      PROVE  tagDepth[2] \in DOMAIN Tag1.content /\ IsList(Tag2.content) /\ IsFile(Tag1.tag, Tag2)
  <2>1. Len(Tag1.content) \in Nat /\ DOMAIN Tag1.content = 1 .. Len(Tag1.content)
    BY <1>4, <1>5, ListFacts
  <2>2. tagDepth[2] \in DOMAIN Tag1.content
    BY <1>3, <1>5, <2>1
  <2>3. IsFile(Tag1.tag, Tag2)
    BY <1>4, <1>5, <2>2 DEF Tag2
  <2> QED
    BY <2>2, <2>3 DEF IsFile
<1>7. pc \in {"file", "words"} => tagDepth[2] \in DOMAIN Tag1.content /\ IsList(Tag2.content) /\ IsFile(Tag1.tag, Tag2)
  BY <1>5 DEF Place
<1>6. ASSUME pc = "words"
      PROVE  tagDepth[3] \in DOMAIN Tag2.content /\ IsList(Tag3.content)
  <2>1. tagDepth[3] \in DOMAIN Tag2.content
    <3>1. Len(Tag2.content) \in Nat /\ DOMAIN Tag2.content = 1 .. Len(Tag2.content)
      BY <1>6, <1>7, ListFacts
    <3> QED
      BY <1>3, <1>6, <3>1 DEF Place
  <2> QED
    BY <1>6, <1>7, <2>1 DEF Place, IsFile, Tag3
<1> QED
  BY <1>1, <1>2, <1>4, <1>5, <1>6, <1>7

----------------------------------------------------------------------------
(* The files read hold their own texts: the invariant of InterpretIndexation() *)

\* The local variables before the first element of a file: no text or word of another one
Fresh(sec, value) ==
  \A t \in Section[sec].tags : IF t = "INDEXAGE" THEN value[t] = <<>> ELSE t \in {"TAILLE", "GROUPE"} \/ value[t] = ""

\* Every word read is one of the file element f
OwnWords(words, f) ==
  \A k \in DOMAIN words : \E i \in DOMAIN f.content :
    f.content[i].tag = "INDEXAGE" /\ \E w \in DOMAIN f.content[i].content : f.content[i].content[w].content = <<words[k].word>>

\* The local variables after the first elements of file f, those before n: a text
\* that was not among them is fresh
SoFar(sec, value, f, n) ==
  \A t \in Section[sec].tags :
    IF t = "INDEXAGE" THEN OwnWords(value[t], f)
    ELSE \/ /\ \A i \in DOMAIN f.content : i < n => f.content[i].tag # t
            /\ t \in {"TAILLE", "GROUPE"} \/ value[t] = ""
         \/ \E i \in DOMAIN f.content : f.content[i].tag = t /\ f.content[i].content # <<>> /\ value[t] = Value(f.content[i])

\* File r was read in section element s, whole and with its own texts
OwnFile(sec, r, s) ==
  /\ DOMAIN r = Section[sec].tags /\ Complete(sec, r)
  /\ \E f \in DOMAIN s.content : s.content[f].tag = Section[sec].of /\ From(sec, r, s.content[f])

\* The files read of document d
OwnFiles(files, d) ==
  /\ files = [sec \in Sections |-> files[sec]]
  /\ \A sec \in Sections :
       /\ IsList(files[sec])
       /\ \A k \in DOMAIN files[sec] : \E s \in DOMAIN d : d[s].tag = sec /\ OwnFile(sec, files[sec][k], d[s])

\* The local variables of the function that reads section element s
InSection(c, s) ==
  /\ c = [value |-> c.value, freq |-> c.freq, files |-> c.files]
  /\ c.value = [t \in Section[s.tag].tags |-> c.value[t]]
  /\ "INDEXAGE" \in Section[s.tag].tags => IsList(c.value["INDEXAGE"])
  /\ IsList(c.files) /\ \A k \in DOMAIN c.files : OwnFile(s.tag, c.files[k], s)

SectionsRead ==
  Indexing =>
    /\ pc # "send" => OwnFiles(got, Document)
    /\ pc \in {"section", "file", "words"} => InSection(cur, Tag1)
    /\ pc = "section" => Fresh(Tag1.tag, cur.value)
    /\ pc \in {"file", "words"} => SoFar(Tag1.tag, cur.value, Tag2, tagDepth[3])

LEMMA FreshSoFar ==
  ASSUME NEW sec \in Sections, NEW value, Fresh(sec, value), NEW f, IsList(f.content)
  PROVE  SoFar(sec, value, f, 1)
<1>1. \A i \in DOMAIN f.content : ~(i < 1)
  BY ListFacts
<1>2. \A x : OwnWords(<<>>, x)
  BY DEF OwnWords
<1> QED
  BY <1>1, <1>2 DEF Fresh, SoFar

\* A text of f is read
LEMMA TextSoFar ==
  ASSUME NEW sec \in Sections, NEW value, value = [t \in Section[sec].tags |-> value[t]],
         NEW f, IsList(f.content), NEW n \in DOMAIN f.content, SoFar(sec, value, f, n),
         f.content[n].tag \in Section[sec].tags \ {"INDEXAGE"}, f.content[n].content # <<>>,
         NEW m, m = n + 1 \/ sec = "SUPPRESSIONS"
  PROVE  SoFar(sec, [value EXCEPT ![f.content[n].tag] = Value(f.content[n])], f, m)
<1>1. PICK e : e = f.content[n]
  OBVIOUS
<1>2. PICK v : v = [value EXCEPT ![e.tag] = Value(e)]
  OBVIOUS
<1>3. v[e.tag] = Value(e) /\ \A t \in Section[sec].tags : t # e.tag => v[t] = value[t]
  BY <1>1, <1>2
<1>4. ASSUME NEW t \in Section[sec].tags
      PROVE  IF t = "INDEXAGE" THEN OwnWords(v[t], f)
             ELSE \/ /\ \A i \in DOMAIN f.content : i < m => f.content[i].tag # t
                     /\ t \in {"TAILLE", "GROUPE"} \/ v[t] = ""
                  \/ \E i \in DOMAIN f.content :
                       f.content[i].tag = t /\ f.content[i].content # <<>> /\ v[t] = Value(f.content[i])
  <2>1. CASE t = e.tag
    BY <1>1, <1>3, <2>1
  <2>2. CASE t # e.tag
    <3>1. m = n + 1
      BY <1>1, <2>2, SectionFacts
    <3>2. \A i \in DOMAIN f.content : i < m => i < n \/ i = n
      BY <3>1, ListFacts
    <3> QED
      BY <1>1, <1>3, <2>2, <3>2 DEF SoFar
  <2> QED
    BY <2>1, <2>2
<1> QED
  BY <1>1, <1>2, <1>4 DEF SoFar

\* An element that is not a text of the section is passed
LEMMA PassSoFar ==
  ASSUME NEW sec \in Sections, NEW value, NEW f, IsList(f.content), NEW n \in DOMAIN f.content, SoFar(sec, value, f, n),
         f.content[n].tag \notin Section[sec].tags \ {"INDEXAGE"}
  PROVE  SoFar(sec, value, f, n + 1)
<1>1. \A i \in DOMAIN f.content : i < n + 1 => i < n \/ i = n
  BY ListFacts
<1> QED
  BY <1>1 DEF SoFar

\* A word of f is read
LEMMA WordSoFar ==
  ASSUME NEW sec \in Sections, NEW value, value = [t \in Section[sec].tags |-> value[t]],
         "INDEXAGE" \in Section[sec].tags, IsList(value["INDEXAGE"]),
         NEW f, NEW n \in DOMAIN f.content, SoFar(sec, value, f, n), f.content[n].tag = "INDEXAGE",
         NEW w \in DOMAIN f.content[n].content, IsText(f.content[n].content[w].content), f.content[n].content[w].content # <<>>,
         NEW x, x.word = f.content[n].content[w].content[1]
  PROVE  SoFar(sec, [value EXCEPT !["INDEXAGE"] = <<x>> \o @], f, n)
<1>1. PICK e : e = f.content[n].content[w].content
  OBVIOUS
<1>2. e = <<x.word>>
  BY <1>1, TextFacts
<1>3. PICK words : words = value["INDEXAGE"]
  OBVIOUS
<1>4. OwnWords(<<x>> \o words, f)
  <2>1. IsList(<<x>> \o words) /\ Len(<<x>> \o words) = Len(words) + 1 /\ (<<x>> \o words)[1] = x
        /\ \A i \in 1 .. Len(words) : (<<x>> \o words)[i + 1] = words[i]
    BY <1>3, PushFront
  <2>2. PICK all : all = <<x>> \o words
    OBVIOUS
  <2>3. DOMAIN words = 1 .. Len(words) /\ Len(words) \in Nat /\ DOMAIN all = 1 .. Len(words) + 1
    BY <1>3, <2>1, <2>2, ListFacts
  <2>4. OwnWords(words, f)
    BY <1>3 DEF SoFar
  <2>5. ASSUME NEW k \in DOMAIN all
        PROVE  \E i \in DOMAIN f.content : f.content[i].tag = "INDEXAGE"
                 /\ \E v \in DOMAIN f.content[i].content : f.content[i].content[v].content = <<all[k].word>>
    <3>1. CASE k = 1
      BY <1>1, <1>2, <2>1, <2>2, <3>1
    <3>2. CASE k # 1
      <4>1. PICK j \in DOMAIN words : all[k] = words[j]
        <5>1. k - 1 \in 1 .. Len(words) /\ k - 1 + 1 = k
          BY <2>3, <3>2
        <5> QED
          BY <2>1, <2>2, <2>3, <5>1
      <4> QED
        BY <2>4, <4>1 DEF OwnWords
    <3> QED
      BY <3>1, <3>2
  <2> QED
    BY <2>2, <2>5 DEF OwnWords
<1>5. PICK v : v = [value EXCEPT !["INDEXAGE"] = <<x>> \o words]
  OBVIOUS
<1>6. v["INDEXAGE"] = <<x>> \o words /\ \A t \in Section[sec].tags : t # "INDEXAGE" => v[t] = value[t]
  BY <1>5
<1>7. \A t \in Section[sec].tags : t = "INDEXAGE" => OwnWords(v[t], f)
  BY <1>4, <1>6
<1>8. SoFar(sec, v, f, n)
  <2>1. ASSUME NEW t \in Section[sec].tags, t # "INDEXAGE"
        PROVE  \/ /\ \A i \in DOMAIN f.content : i < n => f.content[i].tag # t
                  /\ t \in {"TAILLE", "GROUPE"} \/ v[t] = ""
               \/ \E i \in DOMAIN f.content :
                    f.content[i].tag = t /\ f.content[i].content # <<>> /\ v[t] = Value(f.content[i])
    <3>1. v[t] = value[t]
      BY <1>6, <2>1
    <3> QED
      BY <2>1, <3>1 DEF SoFar
  <2> QED
    BY <1>7, <2>1 DEF SoFar
<1> QED
  BY <1>3, <1>5, <1>8

\* At the end of file f its texts are its own
LEMMA FileRead ==
  ASSUME NEW sec \in Sections, NEW value, NEW f, IsList(f.content), NEW n \in Nat, n > Len(f.content), SoFar(sec, value, f, n)
  PROVE  From(sec, value, f)
<1>1. \A i \in DOMAIN f.content : i < n
  BY ListFacts
<1>2. ASSUME NEW t \in Section[sec].tags
      PROVE  LET own == {i \in DOMAIN f.content : f.content[i].tag = t}
             IN IF t = "INDEXAGE"
                THEN \A k \in DOMAIN value[t] : \E i \in own : \E w \in DOMAIN f.content[i].content :
                       f.content[i].content[w].content = <<value[t][k].word>>
                ELSE IF own = {} THEN t \in {"TAILLE", "GROUPE"} \/ value[t] = ""
                ELSE \E i \in own : f.content[i].content # <<>> /\ value[t] = Value(f.content[i])
  <2>1. CASE t = "INDEXAGE"
    <3>1. OwnWords(value[t], f)
      BY <2>1 DEF SoFar
    <3> QED
      BY <2>1, <3>1 DEF OwnWords
  <2>2. CASE t # "INDEXAGE"
    BY <1>1, <2>2 DEF SoFar
  <2> QED
    BY <2>1, <2>2
<1> QED
  BY <1>2 DEF From

LEMMA ForgetFresh ==
  ASSUME NEW sec \in Sections, NEW value, value = [t \in Section[sec].tags |-> value[t]]
  PROVE  Fresh(sec, Forget(value)) /\ Forget(value) = [t \in Section[sec].tags |-> Forget(value)[t]]
BY DEF Forget, Fresh

LEMMA EnterInSection ==
  ASSUME NEW s, s.tag \in Sections, NEW g, NEW h
  PROVE  InSection(Locals(s.tag, g, h), s) /\ Fresh(s.tag, Locals(s.tag, g, h).value)
<1>1. PICK v : v = [t \in Section[s.tag].tags |-> IF t = "TAILLE" THEN g ELSE IF t = "INDEXAGE" THEN <<>> ELSE ""]
  OBVIOUS
<1>2. Locals(s.tag, g, h) = [value |-> v, freq |-> h, files |-> <<>>]
  BY <1>1 DEF Locals
<1>3. IsList(<<>>) /\ DOMAIN <<>> = {}
  BY NoElement, ListFacts
<1>4. PICK none : none = <<>>
  OBVIOUS
<1>5. PICK l : l = [value |-> v, freq |-> h, files |-> none]
  OBVIOUS
<1>6. l.value = v /\ l.freq = h /\ l.files = none
  BY <1>5
<1>7. "INDEXAGE" \in Section[s.tag].tags => v["INDEXAGE"] = none
  BY <1>1, <1>4
<1>8. v = [t \in Section[s.tag].tags |-> v[t]]
  BY <1>1
<1>9. InSection(l, s)
  <2>1. IsList(l.files) /\ DOMAIN l.files = {}
    BY <1>3, <1>4, <1>6
  <2>2. "INDEXAGE" \in Section[s.tag].tags => IsList(l.value["INDEXAGE"])
    BY <1>3, <1>4, <1>6, <1>7
  <2>3. l = [value |-> l.value, freq |-> l.freq, files |-> l.files] /\ l.value = [t \in Section[s.tag].tags |-> l.value[t]]
    BY <1>5, <1>6, <1>8
  <2> QED
    BY <2>1, <2>2, <2>3 DEF InSection
<1>10. Fresh(s.tag, v)
  BY <1>1 DEF Fresh
<1> QED
  BY <1>2, <1>4, <1>5, <1>6, <1>9, <1>10

LEMMA TextInSection ==
  ASSUME NEW c, NEW s, InSection(c, s), NEW t \in Section[s.tag].tags, NEW x, t = "INDEXAGE" => IsList(x),
         NEW f, NEW d, d = [value |-> [c.value EXCEPT ![t] = x], freq |-> f, files |-> c.files]
  PROVE  InSection(d, s) /\ d.value = [c.value EXCEPT ![t] = x]
<1>1. PICK v : v = [c.value EXCEPT ![t] = x]
  OBVIOUS
<1>2. v[t] = x /\ (\A u \in Section[s.tag].tags : u # t => v[u] = c.value[u]) /\ v = [u \in Section[s.tag].tags |-> v[u]]
  BY <1>1 DEF InSection
<1>3. d = [value |-> v, freq |-> d.freq, files |-> c.files] /\ d.value = v /\ d.files = c.files
  BY <1>1
<1>4. "INDEXAGE" \in Section[s.tag].tags => IsList(v["INDEXAGE"])
  BY <1>2 DEF InSection
<1>5. InSection(d, s)
  BY <1>2, <1>3, <1>4 DEF InSection
<1> QED
  BY <1>1, <1>3, <1>5

\* Two local variables are set together
LEMMA TwoFields ==
  ASSUME NEW c, c = [value |-> c.value, freq |-> c.freq, files |-> c.files], NEW v, NEW x
  PROVE  /\ [c EXCEPT !.value = v, !.files = x] = [value |-> v, freq |-> c.freq, files |-> x]
         /\ [c EXCEPT !.value = v, !.freq = x] = [value |-> v, freq |-> x, files |-> c.files]
<1>1. PICK old, q, kept : old = c.value /\ q = c.freq /\ kept = c.files
  OBVIOUS
<1>2. PICK d : d = [c EXCEPT !.value = v]
  OBVIOUS
<1>3. d = [value |-> v, freq |-> q, files |-> kept]
  BY <1>1, <1>2
<1>4. /\ [d EXCEPT !.files = x] = [value |-> v, freq |-> q, files |-> x]
      /\ [d EXCEPT !.freq = x] = [value |-> v, freq |-> x, files |-> kept]
  BY <1>3
<1>5. /\ [c EXCEPT !.value = v, !.files = x] = [[c EXCEPT !.value = v] EXCEPT !.files = x]
      /\ [c EXCEPT !.value = v, !.freq = x] = [[c EXCEPT !.value = v] EXCEPT !.freq = x]
  BY Zenon
<1>6. /\ [c EXCEPT !.value = v, !.files = x] = [d EXCEPT !.files = x]
      /\ [c EXCEPT !.value = v, !.freq = x] = [d EXCEPT !.freq = x]
  BY <1>2, <1>5, Zenon
<1> QED
  BY <1>1, <1>4, <1>6, Zenon

\* A file that was read is put in front
LEMMA PushInSection ==
  ASSUME NEW c, NEW s, s.tag \in Sections, InSection(c, s),
         NEW f \in DOMAIN s.content, s.content[f].tag = Section[s.tag].of, From(s.tag, c.value, s.content[f]),
         NEW d, d = [value |-> Forget(c.value), freq |-> c.freq,
                     files |-> IF Complete(s.tag, c.value) THEN <<c.value>> \o c.files ELSE c.files]
  PROVE  InSection(d, s) /\ Fresh(s.tag, d.value)
<1>1. PICK v : v = Forget(c.value)
  OBVIOUS
<1>2. Fresh(s.tag, v) /\ v = [t \in Section[s.tag].tags |-> v[t]]
  <2>1. PICK value : value = c.value /\ value = [t \in Section[s.tag].tags |-> value[t]]
    BY DEF InSection
  <2> QED
    BY <1>1, <2>1, ForgetFresh
<1>3. PICK files : files = IF Complete(s.tag, c.value) THEN <<c.value>> \o c.files ELSE c.files
  OBVIOUS
<1>4. d = [value |-> v, freq |-> c.freq, files |-> files]
  BY <1>1, <1>3
<1>5. d.value = v /\ d.files = files
  BY <1>4
<1>6. IsList(files) /\ \A k \in DOMAIN files : OwnFile(s.tag, files[k], s)
  <2>1. IsList(c.files) /\ DOMAIN c.files = 1 .. Len(c.files) /\ Len(c.files) \in Nat
        /\ \A k \in DOMAIN c.files : OwnFile(s.tag, c.files[k], s)
    BY ListFacts DEF InSection
  <2>2. CASE ~Complete(s.tag, c.value)
    BY <1>3, <2>1, <2>2
  <2>3. CASE Complete(s.tag, c.value)
    <3>1. files = <<c.value>> \o c.files
      BY <1>3, <2>3
    <3>2. /\ IsList(files) /\ Len(files) = Len(c.files) + 1 /\ files[1] = c.value
          /\ \A i \in 1 .. Len(c.files) : files[i + 1] = c.files[i]
      BY <2>1, <3>1, PushFront
    <3>3. DOMAIN files = 1 .. Len(c.files) + 1
      BY <3>2, ListFacts
    <3>4. OwnFile(s.tag, c.value, s)
      BY <2>3 DEF OwnFile, InSection
    <3>5. ASSUME NEW k \in DOMAIN files
          PROVE  OwnFile(s.tag, files[k], s)
      <4>1. CASE k = 1
        BY <3>2, <3>4, <4>1
      <4>2. CASE k # 1
        <5>1. k - 1 \in 1 .. Len(c.files) /\ k - 1 + 1 = k
          BY <2>1, <3>3, <4>2
        <5>2. files[k] = c.files[k - 1]
          BY <3>2, <5>1
        <5> QED
          BY <2>1, <5>1, <5>2
      <4> QED
        BY <4>1, <4>2
    <3> QED
      BY <3>2, <3>5
  <2> QED
    BY <2>2, <2>3
<1>7. "INDEXAGE" \in Section[s.tag].tags => IsList(v["INDEXAGE"])
  BY <1>2, NoElement DEF Fresh
<1>8. InSection(d, s)
  BY <1>2, <1>4, <1>5, <1>6, <1>7 DEF InSection
<1> QED
  BY <1>2, <1>5, <1>8

\* The files of a section replace those of an earlier one
LEMMA LeaveOwnFiles ==
  ASSUME NEW files, NEW d, OwnFiles(files, d), NEW i \in DOMAIN d, d[i].tag \in Sections, NEW c, InSection(c, d[i])
  PROVE  OwnFiles([files EXCEPT ![d[i].tag] = c.files], d)
<1>1. PICK n : n = [files EXCEPT ![d[i].tag] = c.files]
  OBVIOUS
<1>2. n = [sec \in Sections |-> n[sec]] /\ n[d[i].tag] = c.files /\ \A sec \in Sections : sec # d[i].tag => n[sec] = files[sec]
  BY <1>1 DEF OwnFiles
<1>3. IsList(c.files) /\ \A k \in DOMAIN c.files : OwnFile(d[i].tag, c.files[k], d[i])
  BY DEF InSection
<1>4. ASSUME NEW sec \in Sections
      PROVE  /\ IsList(n[sec])
             /\ \A k \in DOMAIN n[sec] : \E s \in DOMAIN d : d[s].tag = sec /\ OwnFile(sec, n[sec][k], d[s])
  <2>1. CASE sec = d[i].tag
    BY <1>2, <1>3, <2>1
  <2>2. CASE sec # d[i].tag
    BY <1>2, <2>2 DEF OwnFiles
  <2> QED
    BY <2>1, <2>2
<1>5. OwnFiles(n, d)
  BY <1>2, <1>4 DEF OwnFiles
<1> QED
  BY <1>1, <1>5

\* What is left in the local variables after a file
LEMMA LeaveFileLocals ==
  ASSUME NEW s, InSection(cur, s), LeaveFile
  PROVE  cur' = [value |-> Forget(cur.value), freq |-> cur.freq,
                 files |-> IF Complete(Tag1.tag, cur.value) THEN <<cur.value>> \o cur.files ELSE cur.files]
<1>1. PICK v : v = Forget(cur.value)
  OBVIOUS
<1>2. PICK x : x = IF Complete(Tag1.tag, cur.value) THEN <<cur.value>> \o cur.files ELSE cur.files
  OBVIOUS
<1>3. cur' = [cur EXCEPT !.value = Forget(@),
                         !.files = IF Complete(Tag1.tag, cur.value) THEN <<cur.value>> \o @ ELSE @]
  BY Zenon DEF LeaveFile
<1>4. cur' = [cur EXCEPT !.value = v, !.files = x]
  BY <1>1, <1>2, <1>3, Zenon
<1>5. cur = [value |-> cur.value, freq |-> cur.freq, files |-> cur.files]
  BY DEF InSection
<1>6. cur' = [value |-> v, freq |-> cur.freq, files |-> x]
  BY <1>4, <1>5, TwoFields, Zenon
<1> QED
  BY <1>1, <1>2, <1>6

LEMMA SectionsReadStep ==
  ASSUME Place, SectionsRead, [Next]_vars, Indexing
  PROVE  SectionsRead'
<1>1. /\ tagDepth \in [1 .. 4 -> Nat \ {0}] /\ ~Searching /\ ~Answering
      /\ pc \in {"send", "root", "section", "file", "words", "done", "dead"}
  BY DEF Place, Indexing, Searching, Answering
<1>2. /\ pc # "send" => OwnFiles(got, Document)
      /\ pc \in {"section", "file", "words"} => InSection(cur, Tag1)
      /\ pc = "section" => Fresh(Tag1.tag, cur.value)
      /\ pc \in {"file", "words"} => SoFar(Tag1.tag, cur.value, Tag2, tagDepth[3])
  BY DEF SectionsRead
<1>3. CASE UNCHANGED vars
  <2>1. UNCHANGED <<msg, pc, tagDepth, cur, got>>
    BY <1>3 DEF vars
  <2> QED
    BY <1>2, <2>1, Unmoved DEF SectionsRead
<1>4. CASE Send
  <2>1. UNCHANGED msg /\ pc' \in {"root", "dead"} /\ got' = [s \in Sections |-> <<>>]
    BY <1>1, <1>4 DEF Send
  <2>2. PICK none : none = <<>>
    OBVIOUS
  <2>3. IsList(none) /\ DOMAIN none = {}
    BY <2>2, NoElement, ListFacts
  <2>4. OwnFiles(got', Document)
    BY <2>1, <2>2, <2>3 DEF OwnFiles
  <2> QED
    BY <2>1, <2>4, Unmoved DEF SectionsRead
<1>5. CASE EndOfDocument
  <2>1. pc' = "done" /\ UNCHANGED <<msg, got>> /\ pc = "root"
    BY <1>1, <1>5, EndSteps
  <2> QED
    BY <1>2, <2>1, Unmoved DEF SectionsRead
<1>6. CASE EnterSection
  <2>1. /\ pc = "root" /\ Tag1.tag \in Sections /\ Enter("section") /\ UNCHANGED <<msg, got>>
    BY <1>6, ReadSectionSteps
  <2>2. PICK g, h \in Garbage : cur' = Locals(Tag1.tag, g, h)
    BY <1>6, ReadSectionSteps
  <2>3. InSection(cur', Tag1) /\ Fresh(Tag1.tag, cur'.value)
    BY <2>1, <2>2, EnterInSection
  <2>4. pc' = "section" /\ Tag1' = Tag1 /\ Document' = Document
    BY <1>1, <2>1, Moves, LoopFacts, Unmoved
  <2> QED
    BY <1>2, <2>1, <2>3, <2>4 DEF SectionsRead
<1>7. CASE EnterFile
  <2>1. /\ pc = "section" /\ Enter("file") /\ UNCHANGED <<msg, cur, got>>
    BY <1>7, ReadSectionSteps
  <2>2. /\ pc' = "file" /\ Tag1' = Tag1 /\ Tag2' = Tag2 /\ Document' = Document /\ tagDepth'[3] = 1
    BY <1>1, <2>1, Moves, LoopFacts, Unmoved
  <2>3. Tag1.tag \in Sections /\ IsList(Tag2.content)
    BY <1>7, ReadSectionSteps, IndexingDocument
  <2>4. SoFar(Tag1.tag, cur.value, Tag2, 1)
    BY <1>2, <2>1, <2>3, FreshSoFar
  <2> QED
    BY <1>2, <2>1, <2>2, <2>4 DEF SectionsRead
<1>8. CASE ReadText
  <2>1. /\ pc = "file" /\ Tag3.tag \in Section[Tag1.tag].tags \ {"INDEXAGE"} /\ Tag3.content # <<>>
        /\ cur' = [cur EXCEPT !.value[Tag3.tag] = Value(Tag3)] /\ pc' = "file" /\ UNCHANGED <<msg, got>>
        /\ tagDepth' = [tagDepth EXCEPT ![3] = IF Tag1.tag = "SUPPRESSIONS" THEN Len(Tag2.content) + 1
                                                ELSE tagDepth[3] + 1]
    BY <1>8, ReadSectionSteps
  <2>2. /\ Tag1' = Tag1 /\ Tag2' = Tag2 /\ Document' = Document
        /\ tagDepth'[3] = tagDepth[3] + 1 \/ Tag1.tag = "SUPPRESSIONS"
    BY <1>1, <2>1, Unmoved
  <2>3. PICK m : m = tagDepth'[3]
    OBVIOUS
  <2>4. PICK n : n = tagDepth[3] /\ Tag3 = Tag2.content[n]
    BY DEF Tag3
  <2>5. Tag1.tag \in Sections /\ IsList(Tag2.content) /\ n \in DOMAIN Tag2.content
    <3>1. tagDepth[3] <= Len(Tag2.content) /\ IsList(Tag2.content) /\ Tag1.tag \in Sections
      BY <1>8, <2>1, ReadSectionSteps, IndexingDocument
    <3> QED
      BY <1>1, <2>4, <3>1, ListFacts
  <2>6. PICK t, x : t = Tag3.tag /\ x = Value(Tag3)
    OBVIOUS
  <2>7. InSection(cur', Tag1) /\ cur'.value = [cur.value EXCEPT ![t] = x]
    <3>1. cur' = [cur EXCEPT !.value[t] = x]
      BY <2>1, <2>6
    <3>2. t \in Section[Tag1.tag].tags /\ t # "INDEXAGE"
      BY <2>1, <2>6
    <3>3. cur = [value |-> cur.value, freq |-> cur.freq, files |-> cur.files]
      BY <1>2, <2>1 DEF InSection
    <3>4. cur' = [value |-> [cur.value EXCEPT ![t] = x], freq |-> cur.freq, files |-> cur.files]
      BY <3>1, <3>3
    <3>5. InSection(cur, Tag1)
      BY <1>2, <2>1
    <3>6. PICK q : q = cur.freq
      OBVIOUS
    <3>7. cur' = [value |-> [cur.value EXCEPT ![t] = x], freq |-> q, files |-> cur.files]
      BY <3>4, <3>6
    <3> QED
      BY <3>2, <3>5, <3>7, TextInSection, Zenon
  <2>8. SoFar(Tag1.tag, cur'.value, Tag2, m)
    <3>1. PICK value : value = cur.value
      OBVIOUS
    <3>2. value = [u \in Section[Tag1.tag].tags |-> value[u]] /\ SoFar(Tag1.tag, value, Tag2, n)
      BY <1>2, <2>1, <2>4, <3>1 DEF InSection
    <3>3. m = n + 1 \/ Tag1.tag = "SUPPRESSIONS"
      BY <2>2, <2>3, <2>4
    <3>4. SoFar(Tag1.tag, [value EXCEPT ![Tag2.content[n].tag] = Value(Tag2.content[n])], Tag2, m)
      BY <2>1, <2>4, <2>5, <3>2, <3>3, TextSoFar
    <3> QED
      BY <2>4, <2>6, <2>7, <3>1, <3>4
  <2> QED
    BY <1>2, <2>1, <2>2, <2>3, <2>7, <2>8 DEF SectionsRead
<1>9. CASE EnterWords
  <2>1. /\ pc = "file" /\ Enter("words") /\ UNCHANGED <<msg, cur, got>>
    BY <1>9, ReadSectionSteps
  <2>2. /\ pc' = "words" /\ Tag1' = Tag1 /\ Tag2' = Tag2 /\ Document' = Document /\ tagDepth'[3] = tagDepth[3]
    BY <1>1, <2>1, Moves, LoopFacts, Unmoved
  <2> QED
    BY <1>2, <2>1, <2>2 DEF SectionsRead
<1>10. CASE ReadWord
  <2>1. /\ pc = "words" /\ tagDepth[4] <= Len(Tag3.content)
        /\ Tag3.content[tagDepth[4]].tag = "MOT" /\ Tag3.content[tagDepth[4]].content # <<>>
        /\ Onward("words") /\ UNCHANGED <<msg, got>>
    BY <1>10, ReadWordSteps
  <2>2. PICK f : cur' = [cur EXCEPT
                           !.value["INDEXAGE"] = <<[word |-> Tag3.content[tagDepth[4]].content[1], freq |-> f]>> \o @,
                           !.freq = 0]
    BY <1>10, ReadWordSteps
  <2>3. /\ pc' = "words" /\ Tag1' = Tag1 /\ Tag2' = Tag2 /\ Document' = Document /\ tagDepth'[3] = tagDepth[3]
    BY <1>1, <2>1, Moves, LoopFacts, Unmoved
  <2>4. PICK n, w : n = tagDepth[3] /\ w = tagDepth[4] /\ Tag3 = Tag2.content[n]
    BY DEF Tag3
  <2>5. /\ Tag1.tag \in Sections /\ IsFile(Tag1.tag, Tag2) /\ n \in DOMAIN Tag2.content /\ IsList(Tag3.content)
        /\ Tag3.tag = "INDEXAGE" /\ "INDEXAGE" \in Section[Tag1.tag].tags
    BY <2>1, <2>4, IndexingDocument DEF Place
  <2>6. w \in DOMAIN Tag3.content
    BY <1>1, <2>1, <2>4, <2>5, ListFacts
  <2>7. IsText(Tag3.content[w].content) /\ Tag3.content[w].content # <<>>
    BY <2>1, <2>4, <2>5, <2>6 DEF IsFile
  <2>8. PICK x : x = [word |-> Tag3.content[w].content[1], freq |-> f]
    OBVIOUS
  <2>9. PICK value : value = cur.value
    OBVIOUS
  <2>10. /\ value = [u \in Section[Tag1.tag].tags |-> value[u]] /\ IsList(value["INDEXAGE"])
         /\ SoFar(Tag1.tag, value, Tag2, n)
    BY <1>2, <2>1, <2>4, <2>5, <2>9 DEF InSection
  <2>11. PICK words : words = <<x>> \o value["INDEXAGE"]
    OBVIOUS
  <2>12. IsList(words)
    BY <2>10, <2>11, PushFront
  <2>13. cur' = [cur EXCEPT !.value["INDEXAGE"] = words, !.freq = 0]
    BY <2>2, <2>4, <2>8, <2>9, <2>11, Zenon
  <2>14. InSection(cur', Tag1) /\ cur'.value = [value EXCEPT !["INDEXAGE"] = words]
    <3>1. PICK v : v = [value EXCEPT !["INDEXAGE"] = words]
      OBVIOUS
    <3>2. cur' = [cur EXCEPT !.value = v, !.freq = 0]
      BY <2>9, <2>13, <3>1, Zenon
    <3>3. cur = [value |-> cur.value, freq |-> cur.freq, files |-> cur.files]
      BY <1>2, <2>1 DEF InSection
    <3>4. cur' = [value |-> v, freq |-> 0, files |-> cur.files]
      BY <3>2, <3>3, TwoFields, Zenon
    <3>5. InSection(cur', Tag1) /\ cur'.value = v
      BY <1>2, <2>1, <2>5, <2>9, <2>12, <3>1, <3>4, TextInSection
    <3> QED
      BY <3>1, <3>5
  <2>15. SoFar(Tag1.tag, cur'.value, Tag2, n)
    <3>1. x.word = Tag2.content[n].content[w].content[1]
      BY <2>4, <2>8
    <3>2. SoFar(Tag1.tag, [value EXCEPT !["INDEXAGE"] = <<x>> \o @], Tag2, n)
      BY <2>4, <2>5, <2>6, <2>7, <2>10, <3>1, WordSoFar
    <3>3. [value EXCEPT !["INDEXAGE"] = <<x>> \o @] = [value EXCEPT !["INDEXAGE"] = words]
      BY <2>11
    <3> QED
      BY <2>14, <3>2, <3>3
  <2> QED
    BY <1>2, <2>1, <2>3, <2>4, <2>14, <2>15 DEF SectionsRead
<1>11. CASE LeaveWords
  <2>1. /\ pc = "words" /\ Onward("file") /\ UNCHANGED <<msg, cur, got>>
    BY <1>11, ReadSectionSteps
  <2>2. /\ pc' = "file" /\ Tag1' = Tag1 /\ Tag2' = Tag2 /\ Document' = Document /\ tagDepth'[3] = tagDepth[3] + 1
    BY <1>1, <2>1, Moves, LoopFacts, Unmoved
  <2>3. PICK n : n = tagDepth[3] /\ Tag3 = Tag2.content[n]
    BY DEF Tag3
  <2>4. SoFar(Tag1.tag, cur.value, Tag2, n + 1)
    <3>1. Tag1.tag \in Sections /\ IsList(Tag2.content) /\ n \in DOMAIN Tag2.content /\ Tag2.content[n].tag = "INDEXAGE"
      BY <2>1, <2>3, IndexingDocument DEF Place
    <3> QED
      BY <1>2, <2>1, <2>3, <3>1, PassSoFar
  <2> QED
    BY <1>2, <2>1, <2>2, <2>3, <2>4 DEF SectionsRead
<1>12. CASE LeaveFile
  <2>1. /\ pc = "file" /\ tagDepth[3] > Len(Tag2.content) /\ Onward("section") /\ UNCHANGED <<msg, got>>
    BY <1>12, ReadSectionSteps
  <2>2. /\ pc' = "section" /\ Tag1' = Tag1 /\ Document' = Document
    BY <1>1, <2>1, Moves, LoopFacts, Unmoved
  <2>3. PICK f : f = tagDepth[2] /\ Tag2 = Tag1.content[f]
    BY DEF Tag2
  <2>4. /\ Tag1.tag \in Sections /\ f \in DOMAIN Tag1.content /\ IsList(Tag2.content)
        /\ Tag2.tag = Section[Tag1.tag].of
    BY <2>1, <2>3, IndexingDocument DEF Place
  <2>5. From(Tag1.tag, cur.value, Tag2)
    BY <1>1, <1>2, <2>1, <2>4, FileRead
  <2>6. cur' = [value |-> Forget(cur.value), freq |-> cur.freq,
                files |-> IF Complete(Tag1.tag, cur.value) THEN <<cur.value>> \o cur.files ELSE cur.files]
    BY <1>2, <1>12, <2>1, LeaveFileLocals
  <2>7. InSection(cur', Tag1) /\ Fresh(Tag1.tag, cur'.value)
    BY <1>2, <2>1, <2>3, <2>4, <2>5, <2>6, PushInSection
  <2> QED
    BY <1>2, <2>1, <2>2, <2>7 DEF SectionsRead
<1>13. CASE LeaveSection
  <2>1. /\ pc = "section" /\ Onward("root") /\ UNCHANGED msg /\ got' = [got EXCEPT ![Tag1.tag] = cur.files]
    BY <1>13, ReadSectionSteps
  <2>2. pc' = "root" /\ Document' = Document
    BY <1>1, <2>1, Moves, LoopFacts, Unmoved
  <2>3. PICK i : i = tagDepth[1] /\ Tag1 = Document[i]
    BY DEF Tag1
  <2>4. i \in DOMAIN Document /\ Tag1.tag \in Sections
    BY <2>1, <2>3, IndexingDocument
  <2>5. OwnFiles(got', Document)
    BY <1>2, <2>1, <2>3, <2>4, LeaveOwnFiles
  <2> QED
    BY <2>2, <2>5 DEF SectionsRead
<1>14. ASSUME NEW l \in Loops, Skip(l)
       PROVE  SectionsRead'
  <2>1. /\ pc = l /\ pc' = l /\ UNCHANGED <<msg, cur, got>> /\ Document' = Document
        /\ \A d \in 1 .. 4 : d # Depth[l] => tagDepth'[d] = tagDepth[d]
        /\ tagDepth'[Depth[l]] = tagDepth[Depth[l]] + 1
    BY <1>1, <1>14, SkipSteps, Moves, Unmoved
  <2>2. CASE l = "root"
    BY <1>2, <2>1, <2>2 DEF SectionsRead
  <2>3. CASE l = "section"
    <3>1. Tag1' = Tag1
      BY <2>1, <2>3, LoopFacts, Unmoved
    <3> QED
      BY <1>2, <2>1, <2>3, <3>1 DEF SectionsRead
  <2>4. CASE l = "file"
    <3>1. Tag1' = Tag1 /\ Tag2' = Tag2 /\ tagDepth'[3] = tagDepth[3] + 1
      BY <2>1, <2>4, LoopFacts, Unmoved
    <3>2. PICK n : n = tagDepth[3] /\ Tag3 = Tag2.content[n]
      BY DEF Tag3
    <3>3. Tag3.tag \notin Section[Tag1.tag].tags \ {"INDEXAGE"} /\ n <= Len(Tag2.content)
      BY <1>14, <2>4, <3>2, SkipSteps, NestedFacts, SiblingFacts, LoopFacts
    <3>4. Tag1.tag \in Sections /\ IsList(Tag2.content) /\ n \in DOMAIN Tag2.content
      BY <1>1, <2>1, <2>4, <3>2, <3>3, IndexingDocument, ListFacts
    <3>5. SoFar(Tag1.tag, cur.value, Tag2, n + 1)
      BY <1>2, <2>1, <2>4, <3>2, <3>3, <3>4, PassSoFar
    <3> QED
      BY <1>2, <2>1, <2>4, <3>1, <3>2, <3>5 DEF SectionsRead
  <2>5. CASE l = "words"
    <3>1. Tag1' = Tag1 /\ Tag2' = Tag2 /\ tagDepth'[3] = tagDepth[3]
      BY <2>1, <2>5, LoopFacts, Unmoved
    <3> QED
      BY <1>2, <2>1, <2>5, <3>1 DEF SectionsRead
  <2> QED
    BY <1>1, <2>1, <2>2, <2>3, <2>4, <2>5, LoopFacts
<1>15. ASSUME NEW l \in Loops, UseNull(l)
       PROVE  SectionsRead'
  <2>1. pc = l /\ pc' = "dead" /\ UNCHANGED <<msg, got>>
    BY <1>15, UseNullSteps
  <2>2. pc # "send" /\ Document' = Document
    BY <2>1, LoopFacts, Unmoved
  <2> QED
    BY <1>2, <2>1, <2>2 DEF SectionsRead
<1>16. ~ReadSearch /\ ~ReadResult
  BY <1>1, ReadSearchSteps, ReadResultSteps DEF ReadSearch, ReadResult
<1> QED
  BY <1>3, <1>4, <1>5, <1>6, <1>7, <1>8, <1>9, <1>10, <1>11, <1>12, <1>13, <1>14, <1>15, <1>16 DEF Next, ReadSection

LEMMA SectionsReadOwn ==
  ASSUME Place, SectionsRead
  PROVE  OwnTexts
BY DEF SectionsRead, OwnFiles, OwnFile, OwnTexts

----------------------------------------------------------------------------
(* What is read is of the kind that was sent *)

SearchFields == {"word", "content", "pathDir", "perm", "extension", "begin", "end"}
DateFields   == {"day", "month", "year"}
FoundFields  == {"name", "path", "mime", "disk_size", "last_modif", "user_id"}

\* One variable is set
LEMMA SetOne ==
  ASSUME NEW S, NEW r, r = [f \in S |-> r[f]], NEW k, NEW v, NEW n, n = [r EXCEPT ![k] = v]
  PROVE  /\ n = [f \in S |-> n[f]]
         /\ k \in S => n[k] = v
         /\ \A f \in S : f # k => n[f] = r[f]
<1>1. n = [f \in S |-> IF f = k THEN v ELSE r[f]]
  OBVIOUS
<1> QED
  BY <1>1

LEMMA NoSearchFacts ==
  /\ NoSearch = [f \in SearchFields |-> NoSearch[f]]
  /\ NoSearch.word = "" /\ NoSearch.content = FALSE /\ NoSearch.pathDir = "" /\ NoSearch.perm = ""
  /\ NoSearch.extension = "" /\ NoSearch.begin = Today /\ NoSearch.end = Today
BY DEF NoSearch, SearchFields

\* The end of InterpretSearch()
LEMMA ValidDatesFacts ==
  ASSUME NEW s, s = [f \in SearchFields |-> s[f]], NEW v, v = ValidDates(s)
  PROVE  /\ v = [f \in SearchFields |-> v[f]]
         /\ v.begin = IF IsValidDate(s.begin) THEN s.begin ELSE Today
         /\ v.end = IF IsValidDate(s.end) THEN s.end ELSE Today
         /\ \A f \in SearchFields \ {"begin", "end"} : v[f] = s[f]
<1>1. PICK b, e : b = (IF IsValidDate(s.begin) THEN s.begin ELSE Today) /\ e = (IF IsValidDate(s.end) THEN s.end ELSE Today)
  OBVIOUS
<1>2. v = [s EXCEPT !.begin = b, !.end = e]
  BY <1>1, Zenon DEF ValidDates
<1>3. PICK n : n = [s EXCEPT !["begin"] = b]
  OBVIOUS
<1>4. v = [n EXCEPT !["end"] = e]
  BY <1>2, <1>3, Zenon
<1>5. "begin" \in SearchFields /\ "end" \in SearchFields
  BY DEF SearchFields
<1>6. n = [f \in SearchFields |-> n[f]] /\ n.begin = b /\ \A f \in SearchFields : f # "begin" => n[f] = s[f]
  BY <1>3, <1>5, SetOne
<1>7. v = [f \in SearchFields |-> v[f]] /\ v.end = e /\ \A f \in SearchFields : f # "end" => v[f] = n[f]
  BY <1>4, <1>5, <1>6, SetOne
<1> QED
  BY <1>1, <1>5, <1>6, <1>7

\* What a search and a result look like, and the local variables of their parsers
Shapes ==
  /\ Searching /\ pc # "send" => got = [f \in SearchFields |-> got[f]]
  /\ Searching /\ pc = "done" => IsValidDate(got.begin) /\ IsValidDate(got.end)
  /\ pc = "date" => cur = [f \in DateFields |-> cur[f]]
  /\ Answering /\ pc # "send" => IsList(got) /\ \A i \in DOMAIN got : DOMAIN got[i] = FoundFields
  /\ pc = "found" => cur = [f \in FoundFields |-> cur[f]]

LEMMA ShapesStep ==
  ASSUME Place, Shapes, [Next]_vars
  PROVE  Shapes'
<1>1. /\ tagDepth \in [1 .. 4 -> Nat \ {0}]
      /\ Indexing => ~Searching /\ ~Answering
      /\ Searching => ~Answering
      /\ pc = "date" => Searching
      /\ pc = "found" => Answering
      /\ UNCHANGED msg => (Kind' = Kind /\ (Searching' <=> Searching) /\ (Answering' <=> Answering))
  BY Unmoved DEF Place, Indexing, Searching, Answering
<1>2. CASE UNCHANGED vars
  <2>1. UNCHANGED <<msg, pc, tagDepth, cur, got>>
    BY <1>2 DEF vars
  <2> QED
    BY <1>1, <2>1 DEF Shapes
<1>3. CASE Send
  <2>1. /\ UNCHANGED msg /\ pc' \in {"root", "dead"}
        /\ Searching => got' = NoSearch
        /\ Answering => got' = <<>>
    BY <1>1, <1>3 DEF Send
  <2>2. Searching => got' = [f \in SearchFields |-> got'[f]]
    BY <2>1, NoSearchFacts
  <2>3. Answering => IsList(got') /\ DOMAIN got' = {}
    BY <2>1, NoElement, ListFacts
  <2> QED
    BY <1>1, <2>1, <2>2, <2>3 DEF Shapes
<1>4. CASE EndOfDocument
  <2>1. /\ pc = "root" /\ pc' = "done" /\ UNCHANGED msg /\ got' = IF Searching THEN ValidDates(got) ELSE got
    BY <1>4, EndSteps
  <2>2. CASE Searching
    <3>1. got' = ValidDates(got) /\ got = [f \in SearchFields |-> got[f]] /\ IsValidDate(Today)
      BY <2>1, <2>2, MessagesAssumption DEF Shapes
    <3>2. got' = [f \in SearchFields |-> got'[f]] /\ IsValidDate(got'.begin) /\ IsValidDate(got'.end)
      BY <3>1, ValidDatesFacts
    <3> QED
      BY <1>1, <2>1, <2>2, <3>2 DEF Shapes
  <2>3. CASE ~Searching
    BY <1>1, <2>1, <2>3 DEF Shapes
  <2> QED
    BY <2>2, <2>3
<1>5. CASE ReadSection
  <2>1. UNCHANGED msg /\ Indexing /\ pc' \in {"root", "section", "file", "words"}
    BY <1>1, <1>5, ReadSectionSteps, ReadWordSteps, Moves, LoopFacts DEF ReadSection
  <2> QED
    BY <1>1, <2>1 DEF Shapes
<1>6. CASE ReadCriterion
  <2>1. /\ Searching /\ pc = "root" /\ pc' = "root" /\ UNCHANGED msg
        /\ got' = IF Tag1.tag = "CONTENT" THEN [got EXCEPT !.content = @ \/ Tag1.content[1] = "true"]
                  ELSE [got EXCEPT ![Criterion[Tag1.tag]] = Value(Tag1)]
    BY <1>1, <1>6, ReadSearchSteps, Moves, LoopFacts
  <2>2. \E k, v : got' = [got EXCEPT ![k] = v]
    BY <2>1, Zenon
  <2>3. got = [f \in SearchFields |-> got[f]]
    BY <2>1 DEF Shapes
  <2>4. got' = [f \in SearchFields |-> got'[f]]
    BY <2>2, <2>3, SetOne
  <2> QED
    BY <1>1, <2>1, <2>4 DEF Shapes
<1>7. CASE EnterSlot \/ LeaveSlot
  <2>1. Searching /\ UNCHANGED <<msg, got>> /\ pc \in {"root", "slot"} /\ pc' \in {"root", "slot"}
    BY <1>1, <1>7, ReadSearchSteps, Moves, LoopFacts
  <2> QED
    BY <1>1, <2>1 DEF Shapes
<1>8. CASE EnterDate
  <2>1. /\ Searching /\ pc = "slot" /\ pc' = "date" /\ UNCHANGED <<msg, got>>
        /\ \E g, h \in Garbage : cur' = [day |-> g, month |-> "", year |-> h]
    BY <1>1, <1>8, ReadSearchSteps, Moves, LoopFacts
  <2>2. cur' = [f \in DateFields |-> cur'[f]]
    BY <2>1 DEF DateFields
  <2> QED
    BY <1>1, <2>1, <2>2 DEF Shapes
<1>9. CASE ReadDatePart
  <2>1. /\ Searching /\ pc = "date" /\ pc' = "date" /\ UNCHANGED <<msg, got>>
        /\ cur' = [cur EXCEPT ![DatePart[Tag3.tag]] = Value(Tag3)]
    BY <1>1, <1>9, ReadSearchSteps, Moves, LoopFacts
  <2>2. cur' = [f \in DateFields |-> cur'[f]]
    BY <2>1, SetOne DEF Shapes
  <2> QED
    BY <1>1, <2>1, <2>2 DEF Shapes
<1>10. CASE LeaveDate
  <2>1. /\ Searching /\ pc = "date" /\ pc' = "slot" /\ UNCHANGED msg
        /\ got' = IF Tag2.tag = "BEGIN" THEN [got EXCEPT !.begin = cur] ELSE [got EXCEPT !.end = cur]
    BY <1>1, <1>10, ReadSearchSteps, Moves, LoopFacts
  <2>2. \E k, v : got' = [got EXCEPT ![k] = v]
    BY <2>1, Zenon
  <2>3. got = [f \in SearchFields |-> got[f]]
    BY <2>1 DEF Shapes
  <2>4. got' = [f \in SearchFields |-> got'[f]]
    BY <2>2, <2>3, SetOne
  <2> QED
    BY <1>1, <2>1, <2>4 DEF Shapes
<1>11. CASE EnterFound
  <2>1. /\ Answering /\ pc = "root" /\ pc' = "found" /\ UNCHANGED <<msg, got>>
        /\ \E g \in Garbage : cur' = NewFile(g)
    BY <1>1, <1>11, ReadResultSteps, Moves, LoopFacts
  <2>2. cur' = [f \in FoundFields |-> cur'[f]]
    BY <2>1 DEF FoundFields, NewFile
  <2> QED
    BY <1>1, <2>1, <2>2 DEF Shapes
<1>12. CASE MajField
  <2>1. /\ Answering /\ pc = "found" /\ pc' = "found" /\ UNCHANGED <<msg, got>>
        /\ cur' = [cur EXCEPT ![FoundPart[Tag2.tag]] = Value(Tag2)]
    BY <1>1, <1>12, ReadResultSteps, Moves, LoopFacts
  <2>2. cur' = [f \in FoundFields |-> cur'[f]]
    BY <2>1, SetOne DEF Shapes
  <2> QED
    BY <1>1, <2>1, <2>2 DEF Shapes
<1>13. CASE LeaveFound
  <2>1. /\ Answering /\ pc = "found" /\ pc' = "root" /\ UNCHANGED msg /\ got' = Append(got, cur)
    BY <1>1, <1>13, ReadResultSteps, Moves, LoopFacts
  <2>2. IsList(got) /\ DOMAIN cur = FoundFields /\ \A i \in DOMAIN got : DOMAIN got[i] = FoundFields
    BY <2>1 DEF Shapes
  <2>3. IsList(got') /\ \A i \in DOMAIN got' : DOMAIN got'[i] = FoundFields
    <3>1. PICK all : all = Append(got, cur)
      OBVIOUS
    <3>2. /\ IsList(all) /\ Len(all) = Len(got) + 1 /\ all[Len(got) + 1] = cur
          /\ \A i \in 1 .. Len(got) : all[i] = got[i]
      BY <2>2, <3>1, PushBack
    <3>3. DOMAIN got = 1 .. Len(got) /\ DOMAIN all = 1 .. Len(got) + 1 /\ Len(got) \in Nat
      BY <2>2, <3>2, ListFacts
    <3>4. \A i \in DOMAIN all : i \in DOMAIN got \/ i = Len(got) + 1
      BY <3>3
    <3> QED
      BY <2>1, <2>2, <3>1, <3>2, <3>3, <3>4
  <2> QED
    BY <1>1, <2>1, <2>3 DEF Shapes
<1>14. ASSUME NEW l \in Loops, Skip(l)
       PROVE  Shapes'
  <2>1. pc' = pc /\ pc = l /\ UNCHANGED <<msg, cur, got>>
    BY <1>1, <1>14, SkipSteps, Moves
  <2> QED
    BY <1>1, <2>1 DEF Shapes
<1>15. ASSUME NEW l \in Loops, UseNull(l)
       PROVE  Shapes'
  <2>1. pc' = "dead" /\ pc = l /\ UNCHANGED <<msg, cur, got>> /\ pc # "send"
    BY <1>15, UseNullSteps, LoopFacts
  <2> QED
    BY <1>1, <2>1 DEF Shapes
<1> QED
  BY <1>2, <1>3, <1>4, <1>5, <1>6, <1>7, <1>8, <1>9, <1>10, <1>11, <1>12, <1>13, <1>14, <1>15 DEF Next, ReadSearch, ReadResult

LEMMA ShapesType ==
  ASSUME Place, SectionsRead, Shapes
  PROVE  TypeOK
<1>1. {FoundPart[t] : t \in DOMAIN FoundPart} = FoundFields
  BY DEF FoundPart, FoundFields
<1>2. pc \in Loops \cup {"send", "done", "dead"} /\ tagDepth \in [1 .. 4 -> Nat \ {0}]
  BY LoopFacts DEF Place
<1>3. Indexing /\ pc # "send" =>
        \A sec \in Sections : \A i \in DOMAIN got[sec] :
          DOMAIN got[sec][i] = Section[sec].tags /\ Complete(sec, got[sec][i])
  BY DEF SectionsRead, OwnFiles, OwnFile
<1>4. Searching /\ pc = "done" => IsValidDate(got.begin) /\ IsValidDate(got.end)
  BY DEF Shapes
<1>5. Answering /\ pc # "send" => \A i \in DOMAIN got : DOMAIN got[i] = {FoundPart[t] : t \in DOMAIN FoundPart}
  BY <1>1 DEF Shapes
<1> QED
  BY <1>2, <1>3, <1>4, <1>5 DEF TypeOK

----------------------------------------------------------------------------
(* The results: the invariant of InterpretResult() *)

\* What TinyXML gives back of a text is a text
LEMMA DecodeFacts ==
  /\ Decode("") = ""
  /\ \A v \in STRING : Decode(v) \in STRING
BY MessagesAssumption DEF Decode

\* The fields of a file as they should be read
LEMMA DecodeFileFacts ==
  ASSUME NEW f \in FoundFile
  PROVE  /\ DecodeFile(f) \in FoundFile
         /\ DecodeFile(f).name = Decode(f.name) /\ DecodeFile(f).path = Decode(f.path)
         /\ DecodeFile(f).mime = Decode(f.mime) /\ DecodeFile(f).disk_size = f.disk_size
         /\ DecodeFile(f).last_modif = Decode(f.last_modif) /\ DecodeFile(f).user_id = Decode(f.user_id)
<1>1. PICK d : d = DecodeFile(f)
  OBVIOUS
<1>2. /\ d.name = Decode(f.name) /\ d.path = Decode(f.path) /\ d.mime = Decode(f.mime)
      /\ d.disk_size = f.disk_size /\ d.last_modif = Decode(f.last_modif) /\ d.user_id = Decode(f.user_id)
      /\ d = [g \in FoundFields |-> d[g]]
  BY <1>1 DEF DecodeFile, FoundFile, FoundFields
<1>3. \A g \in FoundFields \ {"disk_size"} : d[g] \in STRING
  BY <1>2, DecodeFacts DEF FoundFile, FoundFields
<1>4. d \in FoundFile
  BY <1>2, <1>3 DEF FoundFile, FoundFields
<1> QED
  BY <1>1, <1>2, <1>4

WholeSent == Kind = "result" /\ msg.what # <<>> /\ \A i \in DOMAIN msg.what : WholeFile(msg.what[i])

\* Element x holds the field of f that it names
FieldElement(x, f) == x.tag \in DOMAIN FoundPart /\ x.content # <<>> /\ Value(x) = f[FoundPart[x.tag]]

\* Element s holds the fields of f, and all that f has
FileElement(s, f) ==
  /\ s.tag = "FILE" /\ IsList(s.content)
  /\ \A i \in DOMAIN s.content : FieldElement(s.content[i], f)
  /\ \A g \in FoundFields : g # "last_modif" \/ f[g] # "" => \E i \in DOMAIN s.content : FoundPart[s.content[i].tag] = g

LEMMA PartFacts ==
  /\ DOMAIN FoundPart = {"NAME", "PATH", "PERM", "SIZE", "LASTMODIF", "PROPRIO"}
  /\ FoundPart["NAME"] = "name" /\ FoundPart["PATH"] = "path" /\ FoundPart["PERM"] = "mime"
  /\ FoundPart["SIZE"] = "disk_size" /\ FoundPart["LASTMODIF"] = "last_modif" /\ FoundPart["PROPRIO"] = "user_id"
BY DEF FoundPart

\* c holds the four elements of a, the one of o if there is one, and the one of d
AllOf(c, a, o, d) ==
  /\ IsList(c) /\ c[1] = a[1] /\ c[2] = a[2] /\ c[3] = a[3] /\ c[4] = a[4]
  /\ Len(o) = 0 => DOMAIN c = {1, 2, 3, 4, 5} /\ c[5] = d[1]
  /\ Len(o) = 1 => DOMAIN c = {1, 2, 3, 4, 5, 6} /\ c[5] = o[1] /\ c[6] = d[1]

LEMMA Joined ==
  ASSUME NEW a, IsList(a), Len(a) = 4, NEW o, IsList(o), NEW d, IsList(d), Len(d) = 1,
         NEW e, IsJoin(e, a, o), NEW c, IsJoin(c, e, d)
  PROVE  AllOf(c, a, o, d)
<1>1. PICK n \in Nat : n = Len(o)
  BY ListFacts
<1>2. Len(e) = 4 + n /\ e[1] = a[1] /\ e[2] = a[2] /\ e[3] = a[3] /\ e[4] = a[4] /\ (n = 1 => e[5] = o[1])
  BY <1>1 DEF IsJoin
<1>3. /\ IsList(c) /\ Len(c) = 5 + n /\ DOMAIN c = 1 .. Len(c)
      /\ c[1] = e[1] /\ c[2] = e[2] /\ c[3] = e[3] /\ c[4] = e[4]
      /\ (n = 1 => c[5] = e[5]) /\ c[5 + n] = d[1]
  BY <1>2, ListFacts DEF IsJoin
<1>4. n = 0 => Len(c) = 5 /\ c[5] = d[1]
  BY <1>3
<1>5. n = 1 => Len(c) = 6 /\ c[6] = d[1]
  BY <1>3
<1> QED
  BY <1>1, <1>2, <1>3, <1>4, <1>5 DEF AllOf

\* The elements that are written for a file
LEMMA WrittenFile ==
  ASSUME NEW sent \in FoundFile, WholeFile(sent), NEW f, f = DecodeFile(sent)
  PROVE  FileElement(GenFile(sent), f)
<1>1. ASSUME NEW tag, NEW v, NEW x, x = Elem(tag, <<v>>)
      PROVE  x.tag = tag /\ x.content # <<>> /\ x.content[1] = v
  BY <1>1 DEF Elem
<1>22. /\ f \in FoundFile /\ f.disk_size = sent.disk_size /\ f.last_modif = Decode(sent.last_modif)
       /\ f.name = Decode(sent.name) /\ f.path = Decode(sent.path) /\ f.mime = Decode(sent.mime)
       /\ f.user_id = Decode(sent.user_id)
  BY DecodeFileFacts
<1>2. /\ Text(sent.name) = <<f.name>> /\ Text(sent.path) = <<f.path>> /\ Text(sent.mime) = <<f.mime>>
      /\ Text(sent.user_id) = <<f.user_id>>
  BY <1>22 DEF WholeFile, Text
<1>23. sent.last_modif = "" <=> f.last_modif = ""
  BY <1>22, DecodeFacts DEF WholeFile, Comes
<1>3. PICK n : n = Elem("NAME", <<f.name>>)
  OBVIOUS
<1>4. PICK p : p = Elem("PATH", <<f.path>>)
  OBVIOUS
<1>5. PICK m : m = Elem("PERM", <<f.mime>>)
  OBVIOUS
<1>6. PICK z : z = Elem("SIZE", <<f.disk_size>>)
  OBVIOUS
<1>7. PICK l : l = Elem("LASTMODIF", <<f.last_modif>>)
  OBVIOUS
<1>8. PICK u : u = Elem("PROPRIO", <<f.user_id>>)
  OBVIOUS
<1>9. PICK first : first = <<n, p, m, z>>
  OBVIOUS
<1>10. PICK opt : opt = IF f.last_modif = "" THEN <<>> ELSE <<l>>
  OBVIOUS
<1>21. PICK s : s = GenFile(sent)
  OBVIOUS
<1>11. s = Elem("FILE", first \o opt \o <<u>>)
  <2>1. Optional("LASTMODIF", sent.last_modif) = opt
    <3>1. CASE f.last_modif = ""
      BY <1>10, <1>23, <3>1, Zenon DEF Optional
    <3>2. CASE f.last_modif # ""
      <4>1. Text(sent.last_modif) = <<f.last_modif>>
        BY <1>22, <3>2, Zenon DEF Text
      <4> QED
        BY <1>7, <1>10, <1>23, <3>2, <4>1, Zenon DEF Optional
    <3> QED
      BY <3>1, <3>2
  <2> QED
    BY <1>2, <1>22, <1>3, <1>4, <1>5, <1>6, <1>8, <1>9, <1>21, <2>1, Zenon DEF GenFile
<1>12. PICK c : c = first \o opt \o <<u>>
  OBVIOUS
<1>13. s.tag = "FILE" /\ s.content = c
  BY <1>11, <1>12 DEF Elem
<1>14. /\ FieldElement(n, f) /\ FieldElement(p, f) /\ FieldElement(m, f) /\ FieldElement(l, f) /\ FieldElement(u, f)
       /\ FoundPart[n.tag] = "name" /\ FoundPart[p.tag] = "path" /\ FoundPart[m.tag] = "mime"
       /\ FoundPart[l.tag] = "last_modif" /\ FoundPart[u.tag] = "user_id"
  BY <1>1, <1>3, <1>4, <1>5, <1>7, <1>8, PartFacts DEF FieldElement, Value
<1>15. FieldElement(z, f) /\ FoundPart[z.tag] = "disk_size"
  <2>1. z.tag = "SIZE" /\ z.content # <<>> /\ z.content[1] = f.disk_size
    BY <1>1, <1>6
  <2>2. Atoi(f.disk_size) = f.disk_size
    <3>1. IntMax \in Nat /\ f.disk_size \in Nat
      BY <1>22, MessagesAssumption DEF FoundFile
    <3>2. CASE Lp64
      BY <3>2, Zenon DEF Atoi
    <3>3. CASE ~Lp64
      <4>1. f.disk_size <= IntMax
        BY <1>22, <3>3, Zenon DEF WholeFile
      <4>2. PICK d : d = f.disk_size
        OBVIOUS
      <4>3. StringToInt(d) = d
        BY <3>1, <4>1, <4>2 DEF StringToInt
      <4> QED
        BY <3>3, <4>2, <4>3, Zenon DEF Atoi
    <3> QED
      BY <3>2, <3>3
  <2> QED
    BY <2>1, <2>2, PartFacts DEF FieldElement, Value
<1>16. /\ IsList(c) /\ c[1] = n /\ c[2] = p /\ c[3] = m /\ c[4] = z
       /\ f.last_modif = "" => DOMAIN c = {1, 2, 3, 4, 5} /\ c[5] = u
       /\ f.last_modif # "" => DOMAIN c = {1, 2, 3, 4, 5, 6} /\ c[5] = l /\ c[6] = u
  <2>1. IsList(first) /\ Len(first) = 4 /\ first[1] = n /\ first[2] = p /\ first[3] = m /\ first[4] = z
    <3>1. first \in Seq({n, p, m, z}) /\ Len(first) = 4 /\ first[1] = n /\ first[2] = p /\ first[3] = m /\ first[4] = z
      BY <1>9
    <3> QED
      BY <3>1, SeqList
  <2>2. IsList(opt) /\ (f.last_modif = "" => Len(opt) = 0) /\ (f.last_modif # "" => Len(opt) = 1 /\ opt[1] = l)
    BY <1>10, NoElement, OneElement
  <2>3. PICK last : last = <<u>>
    OBVIOUS
  <2>4. IsList(last) /\ Len(last) = 1 /\ last[1] = u
    BY <2>3, OneElement
  <2>5. PICK e : e = first \o opt /\ c = e \o last
    BY <1>12, <2>3, Zenon
  <2>7. IsJoin(e, first, opt)
    BY <2>1, <2>2, <2>5, JoinFacts, Zenon
  <2>8. IsJoin(c, e, last)
    <3>1. IsList(e)
      BY <2>7 DEF IsJoin
    <3> QED
      BY <2>4, <2>5, <3>1, JoinFacts, Zenon
  <2>6. AllOf(c, first, opt, last)
    BY <2>1, <2>2, <2>4, <2>7, <2>8, Joined
  <2> QED
    BY <2>1, <2>2, <2>4, <2>6 DEF AllOf
<1>17. \A i \in DOMAIN c : FieldElement(c[i], f)
  BY <1>14, <1>15, <1>16, Zenon
<1>18. \A g \in FoundFields : g # "last_modif" \/ f[g] # "" => \E i \in DOMAIN c : FoundPart[c[i].tag] = g
  <2>1. f.last_modif # "" => \A g \in FoundFields : \E i \in DOMAIN c : FoundPart[c[i].tag] = g
    BY <1>14, <1>15, <1>16, Zenon DEF FoundFields
  <2>2. f.last_modif = "" => \A g \in FoundFields : g # "last_modif" => \E i \in DOMAIN c : FoundPart[c[i].tag] = g
    BY <1>14, <1>15, <1>16, Zenon DEF FoundFields
  <2> QED
    BY <2>1, <2>2, Zenon
<1> QED
  BY <1>13, <1>16, <1>17, <1>18, <1>21, Zenon DEF FileElement

LEMMA ResultDocument ==
  ASSUME Place, Kind = "result"
  PROVE  /\ IsList(msg.what) /\ \A i \in DOMAIN msg.what : msg.what[i] \in FoundFile
         /\ IsList(Document) /\ DOMAIN Document = DOMAIN msg.what /\ Len(Document) = Len(msg.what)
         /\ \A i \in DOMAIN msg.what : WholeFile(msg.what[i]) => FileElement(Document[i], DecodeFile(msg.what[i]))
<1>1. PICK files : files = msg.what
  OBVIOUS
<1>2. IsList(files) /\ \A i \in DOMAIN files : files[i] \in FoundFile
  BY <1>1, MessagesAssumption DEF Place, Kind
<1>3. Document = BIToMR(files)
  BY <1>1 DEF Document
<1>4. DOMAIN files = 1 .. Len(files) /\ Len(files) \in Nat
  BY <1>2, ListFacts
<1>5. PICK doc : doc = Document
  OBVIOUS
<1>6. doc = [i \in DOMAIN files |-> GenFile(files[i])]
  BY <1>3, <1>5 DEF BIToMR
<1>7. \A i \in DOMAIN files : WholeFile(files[i]) => FileElement(doc[i], DecodeFile(files[i]))
  BY <1>2, <1>6, WrittenFile
<1>8. doc = [i \in 1 .. Len(files) |-> doc[i]]
  BY <1>4, <1>6
<1>9. IsList(doc) /\ Len(doc) = Len(files) /\ DOMAIN doc = DOMAIN files
  BY <1>4, <1>8, TabulateFacts
<1> QED
  BY <1>1, <1>2, <1>5, <1>7, <1>9

\* The file c after the elements of s before n, which are those of f: a field that was
\* not among them may be still to come, or is the date of the last change
FieldsSoFar(c, f, s, n) ==
  \A g \in FoundFields :
    \/ c[g] = f[g]
    \/ (g = "last_modif" => c[g] = "") /\ \A i \in DOMAIN s.content : i < n => FoundPart[s.content[i].tag] # g

ResultsRead ==
  WholeSent =>
    /\ pc # "dead"
    /\ pc = "send" => tagDepth[1] = 1
    /\ pc \in {"root", "found"} => Len(got) = tagDepth[1] - 1 /\ tagDepth[1] <= Len(msg.what) + 1
    /\ pc = "done" => Len(got) = Len(msg.what)
    /\ pc # "send" => \A i \in DOMAIN got : \A g \in FoundFields : got[i][g] = DecodeFile(msg.what[i])[g]
    /\ pc = "found" => FieldsSoFar(cur, DecodeFile(msg.what[tagDepth[1]]), Tag1, tagDepth[2])

LEMMA NewFieldsSoFar ==
  ASSUME NEW f, NEW s, IsList(s.content), NEW g
  PROVE  FieldsSoFar(NewFile(g), f, s, 1)
<1>1. \A i \in DOMAIN s.content : ~(i < 1)
  BY ListFacts
<1>2. PICK c : c = NewFile(g)
  OBVIOUS
<1>3. c["last_modif"] = ""
  BY <1>2 DEF NewFile
<1>4. FieldsSoFar(c, f, s, 1)
  BY <1>1, <1>3 DEF FieldsSoFar
<1> QED
  BY <1>2, <1>4

LEMMA FieldRead ==
  ASSUME NEW c, c = [g \in FoundFields |-> c[g]], NEW f, NEW s, IsList(s.content), NEW n \in DOMAIN s.content,
         FieldElement(s.content[n], f), FieldsSoFar(c, f, s, n),
         NEW d, d = [c EXCEPT ![FoundPart[s.content[n].tag]] = Value(s.content[n])]
  PROVE  FieldsSoFar(d, f, s, n + 1)
<1>1. PICK k, v : k = FoundPart[s.content[n].tag] /\ v = Value(s.content[n])
  OBVIOUS
<1>2. d = [c EXCEPT ![k] = v]
  BY <1>1
<1>3. v = f[k]
  BY <1>1 DEF FieldElement
<1>4. (k \in FoundFields => d[k] = v) /\ \A g \in FoundFields : g # k => d[g] = c[g]
  BY <1>2, SetOne
<1>5. \A i \in DOMAIN s.content : i < n + 1 => i < n \/ i = n
  BY ListFacts
<1>6. ASSUME NEW g \in FoundFields, g # k
      PROVE  \/ d[g] = f[g]
             \/ (g = "last_modif" => d[g] = "") /\ \A i \in DOMAIN s.content : i < n + 1 => FoundPart[s.content[i].tag] # g
  BY <1>1, <1>4, <1>5, <1>6 DEF FieldsSoFar
<1> QED
  BY <1>3, <1>4, <1>6 DEF FieldsSoFar

LEMMA AllFieldsRead ==
  ASSUME NEW c, NEW f, NEW s, FileElement(s, f), NEW n \in Nat, n > Len(s.content), FieldsSoFar(c, f, s, n)
  PROVE  \A g \in FoundFields : c[g] = f[g]
<1>1. \A i \in DOMAIN s.content : i < n
  <2>1. IsList(s.content)
    BY DEF FileElement
  <2>2. DOMAIN s.content = 1 .. Len(s.content) /\ Len(s.content) \in Nat
    BY <2>1, ListFacts
  <2> QED
    BY <2>2
<1>2. ASSUME NEW g \in FoundFields
      PROVE  c[g] = f[g]
  <2>1. CASE g # "last_modif" \/ f[g] # ""
    BY <1>1, <2>1 DEF FileElement, FieldsSoFar
  <2>2. CASE g = "last_modif" /\ f[g] = ""
    BY <2>2 DEF FieldsSoFar
  <2> QED
    BY <2>1, <2>2
<1> QED
  BY <1>2

LEMMA ResultsReadStep ==
  ASSUME Place, Shapes, ResultsRead, [Next]_vars, WholeSent
  PROVE  ResultsRead'
<1>1. /\ tagDepth \in [1 .. 4 -> Nat \ {0}] /\ Kind = "result" /\ Answering /\ ~Searching /\ ~Indexing
      /\ pc \in {"send", "root", "found", "done", "dead"}
  BY DEF Place, Indexing, Searching, Answering, WholeSent
<1>2. PICK files : files = msg.what
  OBVIOUS
<1>3. /\ IsList(files) /\ IsList(Document) /\ DOMAIN Document = DOMAIN files /\ Len(Document) = Len(files)
      /\ \A i \in DOMAIN files : FileElement(Document[i], DecodeFile(files[i]))
  BY <1>1, <1>2, ResultDocument DEF WholeSent
<1>4. DOMAIN files = 1 .. Len(files) /\ Len(files) \in Nat /\ files # <<>> /\ Document # <<>>
  BY <1>2, <1>3, ListFacts DEF WholeSent
<1>5. /\ pc # "dead" /\ (pc = "send" => tagDepth[1] = 1)
      /\ pc \in {"root", "found"} => Len(got) = tagDepth[1] - 1 /\ tagDepth[1] <= Len(files) + 1
      /\ pc = "done" => Len(got) = Len(files)
      /\ pc # "send" => \A i \in DOMAIN got : \A g \in FoundFields : got[i][g] = DecodeFile(files[i])[g]
      /\ pc = "found" => FieldsSoFar(cur, DecodeFile(files[tagDepth[1]]), Tag1, tagDepth[2])
  BY <1>2 DEF ResultsRead
<1>6. UNCHANGED msg => msg'.what = files /\ Document' = Document
  BY <1>2, Unmoved
<1>7. /\ pc = "found" \/ (pc = "root" /\ tagDepth[1] <= Len(Document)) =>
           tagDepth[1] \in DOMAIN files /\ FileElement(Tag1, DecodeFile(files[tagDepth[1]]))
  <2>1. pc = "found" => tagDepth[1] <= Len(Document)
    BY DEF Place
  <2> QED
    BY <1>1, <1>3, <1>4, <2>1 DEF Tag1
<1>8. CASE UNCHANGED vars
  <2>1. UNCHANGED <<msg, pc, tagDepth, cur, got>>
    BY <1>8 DEF vars
  <2>2. Tag1' = Tag1
    BY <2>1, Unmoved
  <2> QED
    BY <1>5, <1>6, <2>1, <2>2 DEF ResultsRead
<1>9. CASE Send
  <2>1. pc = "send" /\ pc' = "root" /\ UNCHANGED <<msg, tagDepth>> /\ got' = <<>>
    BY <1>1, <1>4, <1>9 DEF Send
  <2>2. Len(got') = 0 /\ DOMAIN got' = {}
    BY <2>1, NoElement, ListFacts
  <2> QED
    BY <1>4, <1>5, <1>6, <2>1, <2>2 DEF ResultsRead
<1>10. CASE EndOfDocument
  <2>1. /\ pc = "root" /\ tagDepth[1] > Len(Document) /\ pc' = "done" /\ UNCHANGED <<msg, got>>
    BY <1>1, <1>10, EndSteps
  <2>2. Len(got) = Len(files)
    BY <1>1, <1>3, <1>4, <1>5, <2>1
  <2> QED
    BY <1>5, <1>6, <2>1, <2>2 DEF ResultsRead
<1>11. CASE EnterFound
  <2>1. /\ pc = "root" /\ tagDepth[1] <= Len(Document) /\ Enter("found") /\ UNCHANGED <<msg, got>>
    BY <1>11, ReadResultSteps
  <2>2. PICK g \in Garbage : cur' = NewFile(g)
    BY <1>11, ReadResultSteps
  <2>3. pc' = "found" /\ Tag1' = Tag1 /\ tagDepth'[1] = tagDepth[1] /\ tagDepth'[2] = 1
    BY <1>1, <2>1, Moves, LoopFacts, Unmoved
  <2>4. IsList(Tag1.content)
    BY <1>7, <2>1 DEF FileElement
  <2>5. FieldsSoFar(cur', DecodeFile(files[tagDepth[1]]), Tag1, 1)
    BY <2>2, <2>4, NewFieldsSoFar
  <2> QED
    BY <1>5, <1>6, <2>1, <2>3, <2>5 DEF ResultsRead
<1>12. CASE MajField
  <2>1. /\ pc = "found" /\ tagDepth[2] <= Len(Tag1.content) /\ Onward("found") /\ UNCHANGED <<msg, got>>
        /\ cur' = [cur EXCEPT ![FoundPart[Tag2.tag]] = Value(Tag2)]
    BY <1>12, ReadResultSteps
  <2>2. pc' = "found" /\ Tag1' = Tag1 /\ tagDepth'[1] = tagDepth[1] /\ tagDepth'[2] = tagDepth[2] + 1
    BY <1>1, <2>1, Moves, LoopFacts, Unmoved
  <2>3. PICK n : n = tagDepth[2] /\ Tag2 = Tag1.content[n]
    BY DEF Tag2
  <2>4. FileElement(Tag1, DecodeFile(files[tagDepth[1]])) /\ IsList(Tag1.content)
    BY <1>7, <2>1 DEF FileElement
  <2>5. n \in DOMAIN Tag1.content
    BY <1>1, <2>1, <2>3, <2>4, ListFacts
  <2>6. FieldElement(Tag1.content[n], DecodeFile(files[tagDepth[1]]))
    BY <2>4, <2>5 DEF FileElement
  <2>7. cur = [g \in FoundFields |-> cur[g]] /\ FieldsSoFar(cur, DecodeFile(files[tagDepth[1]]), Tag1, n)
    BY <1>5, <2>1, <2>3 DEF Shapes
  <2>8. FieldsSoFar(cur', DecodeFile(files[tagDepth[1]]), Tag1, n + 1)
    BY <2>1, <2>3, <2>4, <2>5, <2>6, <2>7, FieldRead
  <2> QED
    BY <1>5, <1>6, <2>1, <2>2, <2>3, <2>8 DEF ResultsRead
<1>13. CASE LeaveFound
  <2>1. /\ pc = "found" /\ tagDepth[2] > Len(Tag1.content) /\ Onward("root") /\ UNCHANGED msg /\ got' = Append(got, cur)
    BY <1>13, ReadResultSteps
  <2>2. pc' = "root" /\ tagDepth'[1] = tagDepth[1] + 1
    BY <1>1, <2>1, Moves, LoopFacts
  <2>3. PICK n : n = tagDepth[1]
    OBVIOUS
  <2>4. n \in 1 .. Len(files) /\ FileElement(Tag1, DecodeFile(files[n])) /\ Len(got) = n - 1 /\ IsList(got)
    BY <1>1, <1>4, <1>5, <1>7, <2>1, <2>3 DEF Shapes
  <2>5. \A g \in FoundFields : cur[g] = DecodeFile(files[n])[g]
    <3>1. tagDepth[2] \in Nat /\ FieldsSoFar(cur, DecodeFile(files[n]), Tag1, tagDepth[2])
      BY <1>1, <1>5, <2>1, <2>3
    <3> QED
      BY <2>1, <2>4, <3>1, AllFieldsRead
  <2>6. PICK all : all = Append(got, cur)
    OBVIOUS
  <2>7. /\ IsList(all) /\ Len(all) = Len(got) + 1 /\ all[Len(got) + 1] = cur
        /\ \A i \in 1 .. Len(got) : all[i] = got[i]
    BY <2>4, <2>6, PushBack
  <2>8. Len(all) = n /\ all[n] = cur /\ \A i \in DOMAIN all : i = n \/ (i \in DOMAIN got /\ all[i] = got[i])
    <3>1. DOMAIN all = 1 .. Len(all) /\ DOMAIN got = 1 .. Len(got)
      BY <2>4, <2>7, ListFacts
    <3> QED
      BY <2>4, <2>7, <3>1
  <2>9. \A i \in DOMAIN all : \A g \in FoundFields : all[i][g] = DecodeFile(files[i])[g]
    BY <1>5, <2>1, <2>5, <2>8
  <2>10. n + 1 - 1 = n /\ n + 1 <= Len(files) + 1
    BY <1>4, <2>4
  <2> QED
    BY <1>6, <2>1, <2>2, <2>3, <2>6, <2>8, <2>9, <2>10 DEF ResultsRead
<1>14. ASSUME NEW l \in Loops, Skip(l)
       PROVE  ResultsRead'
  <2>1. /\ pc = l /\ tagDepth[Depth[l]] <= Len(Siblings(l))
        /\ l = "root" => Tag1.tag \notin Nested(l) \cup Texts(l)
        /\ l = "found" => Tag2.tag \notin Nested(l) \cup Texts(l)
    BY <1>14, SkipSteps
  <2>2. l \in {"root", "found"}
    BY <1>1, <2>1, LoopFacts
  <2>3. CASE l = "root"
    <3>1. Tag1.tag = "FILE" /\ "FILE" \in Nested(l)
      BY <1>1, <1>7, <2>1, <2>3, LoopFacts, SiblingFacts, NestedFacts DEF FileElement
    <3> QED
      BY <2>1, <2>3, <3>1
  <2>4. CASE l = "found"
    <3>1. FileElement(Tag1, DecodeFile(files[tagDepth[1]])) /\ IsList(Tag1.content)
      BY <1>7, <2>1, <2>4 DEF FileElement
    <3>2. tagDepth[2] \in DOMAIN Tag1.content
      BY <1>1, <2>1, <2>4, <3>1, ListFacts, LoopFacts, SiblingFacts
    <3>3. Tag2.tag \in DOMAIN FoundPart
      BY <3>1, <3>2 DEF FileElement, FieldElement, Tag2
    <3> QED
      BY <2>1, <2>4, <3>3, NestedFacts, PartFacts
  <2> QED
    BY <2>2, <2>3, <2>4
<1>15. ASSUME NEW l \in Loops, UseNull(l)
       PROVE  ResultsRead'
  <2>1. /\ pc = l /\ tagDepth[Depth[l]] <= Len(Siblings(l))
        /\ l = "root" => Tag1.tag \in Texts(l)
        /\ l = "found" => Tag2.content = <<>>
    BY <1>15, UseNullSteps
  <2>2. l \in {"root", "found"} /\ l # "root"
    BY <1>1, <2>1, LoopFacts, NestedFacts
  <2>3. l = "found"
    BY <2>2
  <2>4. FileElement(Tag1, DecodeFile(files[tagDepth[1]])) /\ IsList(Tag1.content)
    BY <1>7, <2>1, <2>3 DEF FileElement
  <2>5. tagDepth[2] \in DOMAIN Tag1.content
    BY <1>1, <2>1, <2>3, <2>4, ListFacts, LoopFacts, SiblingFacts
  <2>6. Tag2.content # <<>>
    BY <2>4, <2>5 DEF FileElement, FieldElement, Tag2
  <2> QED
    BY <2>1, <2>3, <2>6
<1>16. ~ReadSection /\ ~ReadSearch
  BY <1>1, ReadSectionSteps, ReadWordSteps, ReadSearchSteps DEF ReadSection, ReadSearch
<1> QED
  BY <1>8, <1>9, <1>10, <1>11, <1>12, <1>13, <1>14, <1>15, <1>16 DEF Next, ReadResult

LEMMA ResultsReadShown ==
  ASSUME Place, Shapes, ResultsRead
  PROVE  ResultsShown
<1>1. ASSUME Kind = "result", pc # "send", NEW files, files = msg.what, files # <<>>,
             \A i \in DOMAIN files : WholeFile(files[i])
      PROVE  /\ pc # "dead"
             /\ pc = "done" => /\ Len(got) = Len(files)
                               /\ \A i \in DOMAIN files : \A t \in DOMAIN files[i] : got[i][t] = DecodeFile(files[i])[t]
  <2>1. WholeSent
    BY <1>1 DEF WholeSent
  <2>2. /\ pc # "dead" /\ (pc = "done" => Len(got) = Len(files))
        /\ \A i \in DOMAIN got : \A g \in FoundFields : got[i][g] = DecodeFile(files[i])[g]
    BY <1>1, <2>1 DEF ResultsRead
  <2>3. IsList(got) /\ IsList(files) /\ \A i \in DOMAIN files : files[i] \in FoundFile
    BY <1>1, ResultDocument DEF Shapes, Answering
  <2>4. DOMAIN got = 1 .. Len(got) /\ DOMAIN files = 1 .. Len(files)
    BY <2>3, ListFacts
  <2>5. \A i \in DOMAIN files : DOMAIN files[i] = FoundFields
    BY <2>3 DEF FoundFile, FoundFields
  <2> QED
    BY <2>2, <2>4, <2>5
<1> QED
  BY <1>1 DEF ResultsShown

----------------------------------------------------------------------------
(* A search: the document that is written *)

SlotSent(s) == IsValidDate(s.begin) /\ IsValidDate(s.end)

\* Element x holds date d
DateElement(x, d) ==
  /\ IsList(x.content) /\ Len(x.content) = 3 /\ \A i \in 1 .. 3 : x.content[i].content # <<>>
  /\ x.content[1].tag = "DAY" /\ Value(x.content[1]) = d.day
  /\ x.content[2].tag = "MONTH" /\ Value(x.content[2]) = d.month
  /\ x.content[3].tag = "YEAR" /\ Value(x.content[3]) = d.year

SlotElement(x, s) ==
  /\ SlotSent(s) /\ IsList(x.content) /\ Len(x.content) = 2
  /\ x.content[1].tag = "BEGIN" /\ DateElement(x.content[1], s.begin)
  /\ x.content[2].tag = "END" /\ DateElement(x.content[2], s.end)

\* Element x holds the part of s that it names
SearchElement(x, s) ==
  /\ x.tag \in DOMAIN Criterion \cup {"CONTENT", "TIMESLOT"}
  /\ x.tag \in DOMAIN Criterion => x.content # <<>> /\ Value(x) = s[Criterion[x.tag]]
  /\ x.tag = "CONTENT" => x.content # <<>> /\ x.content[1] # "true"
  /\ x.tag = "TIMESLOT" => SlotElement(x, s)

\* All elements of l are those of s, and those with these tags are there
Written(l, s, tags) ==
  /\ IsList(l) /\ \A i \in DOMAIN l : SearchElement(l[i], s)
  /\ \A t \in tags : \E i \in DOMAIN l : l[i].tag = t

LEMMA JoinWritten ==
  ASSUME NEW s, NEW a, NEW A, Written(a, s, A), NEW b, NEW B, Written(b, s, B)
  PROVE  Written(a \o b, s, A \cup B)
<1>1. PICK j : j = a \o b
  OBVIOUS
<1>2. IsList(a) /\ IsList(b)
  BY DEF Written
<1>3. IsJoin(j, a, b)
  BY <1>1, <1>2, JoinFacts, Zenon
<1>4. /\ IsList(j) /\ Len(j) = Len(a) + Len(b) /\ DOMAIN j = 1 .. Len(j)
      /\ \A i \in 1 .. Len(a) : j[i] = a[i]
      /\ \A i \in 1 .. Len(b) : j[Len(a) + i] = b[i]
  BY <1>3, ListFacts DEF IsJoin
<1>5. DOMAIN a = 1 .. Len(a) /\ Len(a) \in Nat /\ DOMAIN b = 1 .. Len(b) /\ Len(b) \in Nat
  BY <1>2, ListFacts
<1>6. \A i \in DOMAIN a : i \in DOMAIN j /\ j[i] = a[i]
  BY <1>4, <1>5
<1>7. ASSUME NEW i \in DOMAIN b
      PROVE  \E k \in DOMAIN j : j[k] = b[i]
  <2>1. Len(a) + i \in DOMAIN j /\ j[Len(a) + i] = b[i]
    BY <1>4, <1>5, <1>7
  <2> QED
    BY <2>1
<1>8. ASSUME NEW k \in DOMAIN j
      PROVE  (\E i \in DOMAIN a : j[k] = a[i]) \/ (\E i \in DOMAIN b : j[k] = b[i])
  <2>1. CASE k <= Len(a)
    BY <1>4, <1>5, <1>8, <2>1
  <2>2. CASE k > Len(a)
    <3>1. PICK i : i = k - Len(a)
      OBVIOUS
    <3>2. i \in DOMAIN b /\ k = Len(a) + i
      BY <1>4, <1>5, <1>8, <2>2, <3>1
    <3>3. j[k] = b[i]
      BY <1>4, <1>5, <3>2
    <3> QED
      BY <3>2, <3>3
  <2> QED
    BY <1>4, <1>5, <1>8, <2>1, <2>2
<1>9. \A k \in DOMAIN j : SearchElement(j[k], s)
  <2>1. (\A i \in DOMAIN a : SearchElement(a[i], s)) /\ (\A i \in DOMAIN b : SearchElement(b[i], s))
    BY DEF Written
  <2>2. ASSUME NEW k \in DOMAIN j
        PROVE  SearchElement(j[k], s)
    <3>1. CASE \E i \in DOMAIN a : j[k] = a[i]
      <4>1. PICK i \in DOMAIN a : j[k] = a[i]
        BY <3>1
      <4> QED
        BY <2>1, <4>1, Zenon
    <3>2. CASE \E i \in DOMAIN b : j[k] = b[i]
      <4>1. PICK i \in DOMAIN b : j[k] = b[i]
        BY <3>2
      <4> QED
        BY <2>1, <4>1, Zenon
    <3> QED
      BY <1>8, <3>1, <3>2
  <2> QED
    BY <2>2
<1>10. \A t \in A \cup B : \E k \in DOMAIN j : j[k].tag = t
  <2>1. ASSUME NEW t \in A
        PROVE  \E k \in DOMAIN j : j[k].tag = t
    <3>1. PICK i \in DOMAIN a : a[i].tag = t
      BY DEF Written
    <3> QED
      BY <1>6, <3>1
  <2>2. ASSUME NEW t \in B
        PROVE  \E k \in DOMAIN j : j[k].tag = t
    <3>1. PICK i \in DOMAIN b : b[i].tag = t
      BY DEF Written
    <3>2. PICK k \in DOMAIN j : j[k] = b[i]
      BY <1>7
    <3> QED
      BY <3>1, <3>2
  <2> QED
    BY <2>1, <2>2
<1> QED
  BY <1>1, <1>4, <1>9, <1>10, Zenon DEF Written

LEMMA OneWritten ==
  ASSUME NEW s, NEW x, SearchElement(x, s)
  PROVE  Written(<<x>>, s, {x.tag})
<1>1. PICK l : l = <<x>>
  OBVIOUS
<1>2. IsList(l) /\ DOMAIN l = {1} /\ l[1] = x
  BY <1>1, OneElement, ListFacts
<1> QED
  BY <1>1, <1>2 DEF Written

LEMMA NoneWritten ==
  ASSUME NEW s
  PROVE  Written(<<>>, s, {})
<1>1. PICK l : l = <<>>
  OBVIOUS
<1>2. IsList(l) /\ DOMAIN l = {}
  BY <1>1, NoElement, ListFacts
<1> QED
  BY <1>1, <1>2 DEF Written

LEMMA ElemFacts ==
  ASSUME NEW tag, NEW v
  PROVE  /\ Elem(tag, v).tag = tag /\ Elem(tag, v).content = v
         /\ Elem(tag, <<v>>).tag = tag /\ Elem(tag, <<v>>).content # <<>> /\ Elem(tag, <<v>>).content[1] = v
BY DEF Elem

LEMMA CriterionFacts ==
  /\ DOMAIN Criterion = {"WORD", "PATHDIR", "PERM", "EXTENSION"}
  /\ Criterion["WORD"] = "word" /\ Criterion["PATHDIR"] = "pathDir" /\ Criterion["PERM"] = "perm"
  /\ Criterion["EXTENSION"] = "extension"
BY DEF Criterion

\* A date and a search as they should be read
LEMMA DecodeDateFacts ==
  ASSUME NEW d \in Date
  PROVE  /\ DecodeDate(d) \in Date /\ DecodeDate(d).day = d.day /\ DecodeDate(d).month = Decode(d.month)
         /\ DecodeDate(d).year = d.year
<1>1. Decode(d.month) \in STRING
  BY DecodeFacts DEF Date
<1> QED
  BY <1>1 DEF DecodeDate, Date

LEMMA DecodeSearchFacts ==
  ASSUME NEW s \in Search, WholeSearch(s), NEW r, r = DecodeSearch(s)
  PROVE  /\ r \in Search
         /\ r.word = Decode(s.word) /\ r.pathDir = Decode(s.pathDir) /\ r.perm = Decode(s.perm)
         /\ r.extension = Decode(s.extension)
         /\ r.begin = DecodeDate(s.begin) /\ r.end = DecodeDate(s.end)
         /\ r.word # "" /\ (s.pathDir = "" <=> r.pathDir = "") /\ (s.perm = "" <=> r.perm = "")
         /\ (s.extension = "" <=> r.extension = "")
         /\ SlotSent(s) <=> SlotSent(r)
<1>1. /\ r.word = Decode(s.word) /\ r.pathDir = Decode(s.pathDir) /\ r.perm = Decode(s.perm)
      /\ r.extension = Decode(s.extension) /\ r.content = s.content
      /\ r.begin = DecodeDate(s.begin) /\ r.end = DecodeDate(s.end)
      /\ r = [f \in SearchFields |-> r[f]]
  BY DEF DecodeSearch, Search, SearchFields
<1>2. s.begin \in Date /\ s.end \in Date
  BY DEF Search
<1>3. r \in Search
  <2>1. r.word \in STRING /\ r.pathDir \in STRING /\ r.perm \in STRING /\ r.extension \in STRING
    BY <1>1, DecodeFacts DEF Search
  <2>2. r.content \in BOOLEAN
    BY <1>1, Zenon DEF Search
  <2>3. r.begin \in Date /\ r.end \in Date
    BY <1>1, <1>2, DecodeDateFacts
  <2> QED
    BY <1>1, <2>1, <2>2, <2>3 DEF Search, SearchFields
<1>4. /\ r.word # "" /\ (s.pathDir = "" <=> r.pathDir = "") /\ (s.perm = "" <=> r.perm = "")
      /\ (s.extension = "" <=> r.extension = "")
      /\ (s.begin.month = "" <=> Decode(s.begin.month) = "") /\ (s.end.month = "" <=> Decode(s.end.month) = "")
  BY <1>1, DecodeFacts DEF WholeSearch, Comes
<1>5. (IsValidDate(s.begin) <=> IsValidDate(r.begin)) /\ (IsValidDate(s.end) <=> IsValidDate(r.end))
  <2>1. /\ r.begin.day = s.begin.day /\ r.begin.month = Decode(s.begin.month) /\ r.begin.year = s.begin.year
        /\ r.end.day = s.end.day /\ r.end.month = Decode(s.end.month) /\ r.end.year = s.end.year
    BY <1>1, <1>2, DecodeDateFacts
  <2>2. IsValidDate(s.begin) <=> IsValidDate(r.begin)
    BY <1>4, <2>1, Zenon DEF IsValidDate
  <2>3. IsValidDate(s.end) <=> IsValidDate(r.end)
    BY <1>4, <2>1, Zenon DEF IsValidDate
  <2> QED
    BY <2>2, <2>3
<1>6. SlotSent(s) <=> SlotSent(r)
  BY <1>5, Zenon DEF SlotSent
<1> QED
  BY <1>1, <1>3, <1>4, <1>6

\* A date whose parts are there is written with each of them
LEMMA WrittenDate ==
  ASSUME NEW sent \in Date, NEW d, d = DecodeDate(sent), IsValidDate(d), NEW tag
  PROVE  Elem(tag, GenDate(sent)).tag = tag /\ DateElement(Elem(tag, GenDate(sent)), d)
<1>16. d \in Date /\ d.day = sent.day /\ d.month = Decode(sent.month) /\ d.year = sent.year
  BY DecodeDateFacts
<1>1. PICK a : a = Elem("DAY", <<d.day>>)
  OBVIOUS
<1>2. PICK b : b = Elem("MONTH", <<d.month>>)
  OBVIOUS
<1>3. PICK c : c = Elem("YEAR", <<d.year>>)
  OBVIOUS
<1>4. PICK l : l = <<a, b, c>>
  OBVIOUS
<1>5. Text(sent.month) = <<d.month>>
  BY <1>16, Zenon DEF Text, IsValidDate
<1>6. PICK x : x = Elem(tag, l)
  OBVIOUS
<1>7. Elem(tag, GenDate(sent)) = x
  BY <1>16, <1>1, <1>2, <1>3, <1>4, <1>5, <1>6, Zenon DEF GenDate
<1>8. l \in Seq({a, b, c}) /\ Len(l) = 3 /\ l[1] = a /\ l[2] = b /\ l[3] = c
  BY <1>4
<1>9. IsList(l)
  BY <1>8, SeqList
<1>10. x.tag = tag /\ x.content = l
  BY <1>6, ElemFacts
<1>11. /\ a.tag = "DAY" /\ a.content # <<>> /\ a.content[1] = d.day
       /\ b.tag = "MONTH" /\ b.content # <<>> /\ b.content[1] = d.month
       /\ c.tag = "YEAR" /\ c.content # <<>> /\ c.content[1] = d.year
  BY <1>1, <1>2, <1>3, ElemFacts
<1>12. StringToInt(d.day) = d.day /\ StringToInt(d.year) = d.year
  <2>1. d.day \in 0 .. IntMax /\ d.year \in 0 .. IntMax /\ IntMax \in Nat
    BY <1>16, MessagesAssumption DEF Date
  <2> QED
    BY <2>1 DEF StringToInt
<1>13. Value(a) = d.day /\ Value(b) = d.month /\ Value(c) = d.year
  BY <1>11, <1>12 DEF Value
<1>14. \A i \in 1 .. 3 : l[i].content # <<>>
  <2>1. \A i \in 1 .. 3 : i = 1 \/ i = 2 \/ i = 3
    OBVIOUS
  <2> QED
    BY <1>8, <1>11, <2>1
<1>15. DateElement(x, d)
  BY <1>8, <1>9, <1>10, <1>11, <1>13, <1>14 DEF DateElement
<1> QED
  BY <1>7, <1>10, <1>15

\* The time slot is written with both of its dates
LEMMA WrittenSlot ==
  ASSUME NEW sent \in Search, WholeSearch(sent), NEW s, s = DecodeSearch(sent), SlotSent(s)
  PROVE  SearchElement(Elem("TIMESLOT", <<Elem("BEGIN", GenDate(sent.begin)), Elem("END", GenDate(sent.end))>>), s)
<1>1. PICK a : a = Elem("BEGIN", GenDate(sent.begin))
  OBVIOUS
<1>2. PICK b : b = Elem("END", GenDate(sent.end))
  OBVIOUS
<1>3. PICK l : l = <<a, b>>
  OBVIOUS
<1>4. PICK x : x = Elem("TIMESLOT", l)
  OBVIOUS
<1>5. /\ sent.begin \in Date /\ sent.end \in Date /\ IsValidDate(s.begin) /\ IsValidDate(s.end)
      /\ s.begin = DecodeDate(sent.begin) /\ s.end = DecodeDate(sent.end)
  BY DecodeSearchFacts DEF Search, SlotSent
<1>6. a.tag = "BEGIN" /\ DateElement(a, s.begin) /\ b.tag = "END" /\ DateElement(b, s.end)
  BY <1>1, <1>2, <1>5, WrittenDate
<1>7. l \in Seq({a, b}) /\ Len(l) = 2 /\ l[1] = a /\ l[2] = b
  BY <1>3
<1>8. IsList(l)
  BY <1>7, SeqList
<1>9. x.tag = "TIMESLOT" /\ x.content = l
  BY <1>4, ElemFacts
<1>10. SlotElement(x, s)
  BY <1>6, <1>7, <1>8, <1>9 DEF SlotElement
<1>11. SearchElement(x, s)
  BY <1>9, <1>10, CriterionFacts DEF SearchElement
<1> QED
  BY <1>1, <1>2, <1>3, <1>4, <1>11, Zenon

\* A criterion that is given is written, and one that is not is left out
LEMMA WrittenCriterion ==
  ASSUME NEW s, NEW tag \in {"PATHDIR", "PERM", "EXTENSION"}, NEW sent, NEW v, v = s[Criterion[tag]],
         v = Decode(sent), sent = "" <=> v = ""
  PROVE  Written(Optional(tag, sent), s, IF v = "" THEN {} ELSE {tag})
<1>1. CASE v = ""
  <2>1. Optional(tag, sent) = <<>>
    BY <1>1, Zenon DEF Optional
  <2> QED
    BY <1>1, <2>1, NoneWritten, Zenon
<1>2. CASE v # ""
  <2>1. PICK x : x = Elem(tag, <<v>>)
    OBVIOUS
  <2>2. x.tag = tag /\ x.content # <<>> /\ x.content[1] = v
    BY <2>1, ElemFacts
  <2>3. Value(x) = v
    BY <2>2 DEF Value
  <2>4. SearchElement(x, s)
    BY <2>2, <2>3, CriterionFacts DEF SearchElement
  <2>5. Written(<<x>>, s, {tag})
    BY <2>2, <2>4, OneWritten
  <2>6. Optional(tag, sent) = <<x>>
    <3>1. Text(sent) = <<v>>
      BY <1>2, Zenon DEF Text
    <3> QED
      BY <1>2, <2>1, <3>1, Zenon DEF Optional
  <2> QED
    BY <1>2, <2>5, <2>6, Zenon
<1> QED
  BY <1>1, <1>2

LEMMA WrittenWord ==
  ASSUME NEW sent \in Search, WholeSearch(sent), NEW s, s = DecodeSearch(sent)
  PROVE  Written(<<Elem("WORD", Text(sent.word)), Elem("CONTENT", <<IF sent.content THEN "1" ELSE "0">>)>>, s, {"WORD"})
<1>1. PICK a : a = Elem("WORD", Text(sent.word))
  OBVIOUS
<1>2. PICK v : v = IF sent.content THEN "1" ELSE "0"
  OBVIOUS
<1>3. PICK b : b = Elem("CONTENT", <<v>>)
  OBVIOUS
<1>4. v # "true"
  BY <1>2
<1>5. b.tag = "CONTENT" /\ b.content # <<>> /\ b.content[1] = v
  BY <1>3, ElemFacts
<1>6. SearchElement(b, s)
  BY <1>4, <1>5, CriterionFacts DEF SearchElement
<1>7. a.tag = "WORD" /\ a.content = Text(sent.word)
  BY <1>1, ElemFacts
<1>8. a.content # <<>> /\ Value(a) = s.word
  <2>1. PICK w : w = s.word
    OBVIOUS
  <2>4. w = Decode(sent.word) /\ w # ""
    BY <2>1, DecodeSearchFacts
  <2>2. a.content = <<w>>
    BY <1>7, <2>4, Zenon DEF Text
  <2>3. a.content # <<>> /\ a.content[1] = w
    BY <2>2
  <2> QED
    BY <1>7, <2>1, <2>3 DEF Value
<1>9. SearchElement(a, s)
  BY <1>7, <1>8, CriterionFacts DEF SearchElement
<1>10. PICK l : l = <<a, b>>
  OBVIOUS
<1>11. l \in Seq({a, b}) /\ Len(l) = 2 /\ l[1] = a /\ l[2] = b
  BY <1>10
<1>12. IsList(l) /\ DOMAIN l = {1, 2}
  BY <1>11, SeqList, ListFacts
<1>13. Written(l, s, {"WORD"})
  BY <1>6, <1>7, <1>9, <1>11, <1>12 DEF Written
<1> QED
  BY <1>1, <1>2, <1>3, <1>10, <1>13, Zenon

\* The tags of a search
TagsOf(s) ==
  {"WORD"} \cup (IF s.pathDir = "" THEN {} ELSE {"PATHDIR"}) \cup (IF s.perm = "" THEN {} ELSE {"PERM"})
    \cup (IF s.extension = "" THEN {} ELSE {"EXTENSION"}) \cup (IF SlotSent(s) THEN {"TIMESLOT"} ELSE {})

LEMMA SearchDocument ==
  ASSUME NEW sent \in Search, WholeSearch(sent), NEW s, s = DecodeSearch(sent)
  PROVE  Written(MRToBI(sent), s, TagsOf(s))
<1>14. /\ s.word = Decode(sent.word) /\ s.word # "" /\ s.pathDir = Decode(sent.pathDir) /\ s.perm = Decode(sent.perm)
       /\ s.extension = Decode(sent.extension) /\ (SlotSent(sent) <=> SlotSent(s))
       /\ (sent.pathDir = "" <=> s.pathDir = "") /\ (sent.perm = "" <=> s.perm = "")
       /\ (sent.extension = "" <=> s.extension = "")
  BY DecodeSearchFacts
<1>1. PICK a : a = <<Elem("WORD", Text(sent.word)), Elem("CONTENT", <<IF sent.content THEN "1" ELSE "0">>)>>
  OBVIOUS
<1>2. PICK p, q, r : p = Optional("PATHDIR", sent.pathDir) /\ q = Optional("PERM", sent.perm) /\ r = Optional("EXTENSION", sent.extension)
  OBVIOUS
<1>3. PICK t : t = IF IsValidDate(sent.begin) /\ IsValidDate(sent.end)
                   THEN <<Elem("TIMESLOT", <<Elem("BEGIN", GenDate(sent.begin)), Elem("END", GenDate(sent.end))>>)>> ELSE <<>>
  OBVIOUS
<1>4. PICK P, Q, R, T : /\ P = (IF s.pathDir = "" THEN {} ELSE {"PATHDIR"}) /\ Q = (IF s.perm = "" THEN {} ELSE {"PERM"})
                        /\ R = (IF s.extension = "" THEN {} ELSE {"EXTENSION"}) /\ T = (IF SlotSent(s) THEN {"TIMESLOT"} ELSE {})
  OBVIOUS
<1>5. Written(a, s, {"WORD"})
  BY <1>1, WrittenWord, Zenon
<1>6. Written(p, s, P) /\ Written(q, s, Q) /\ Written(r, s, R)
  <2>1. s.pathDir = s[Criterion["PATHDIR"]] /\ s.perm = s[Criterion["PERM"]] /\ s.extension = s[Criterion["EXTENSION"]]
    BY CriterionFacts
  <2> QED
    BY <1>2, <1>4, <1>14, <2>1, WrittenCriterion, Zenon
<1>7. Written(t, s, T)
  <2>1. CASE SlotSent(s)
    <3>1. PICK x : x = Elem("TIMESLOT", <<Elem("BEGIN", GenDate(sent.begin)), Elem("END", GenDate(sent.end))>>)
      OBVIOUS
    <3>2. SearchElement(x, s)
      BY <2>1, <3>1, WrittenSlot, Zenon
    <3>3. x.tag = "TIMESLOT"
      BY <3>1, ElemFacts, Zenon
    <3>4. t = <<x>> /\ T = {"TIMESLOT"}
      BY <1>3, <1>4, <1>14, <2>1, <3>1, Zenon DEF SlotSent
    <3> QED
      BY <3>2, <3>3, <3>4, OneWritten, Zenon
  <2>2. CASE ~SlotSent(s)
    <3>1. t = <<>> /\ T = {}
      BY <1>3, <1>4, <1>14, <2>2, Zenon DEF SlotSent
    <3> QED
      BY <3>1, NoneWritten, Zenon
  <2> QED
    BY <2>1, <2>2
<1>8. MRToBI(sent) = (((a \o p) \o q) \o r) \o t
  BY <1>1, <1>2, <1>3, Zenon DEF MRToBI
<1>9. Written(a \o p, s, {"WORD"} \cup P)
  BY <1>5, <1>6, JoinWritten, Zenon
<1>10. Written((a \o p) \o q, s, ({"WORD"} \cup P) \cup Q)
  BY <1>6, <1>9, JoinWritten, Zenon
<1>11. Written(((a \o p) \o q) \o r, s, (({"WORD"} \cup P) \cup Q) \cup R)
  BY <1>6, <1>10, JoinWritten, Zenon
<1>12. Written((((a \o p) \o q) \o r) \o t, s, ((({"WORD"} \cup P) \cup Q) \cup R) \cup T)
  BY <1>7, <1>11, JoinWritten, Zenon
<1>13. TagsOf(s) = ((({"WORD"} \cup P) \cup Q) \cup R) \cup T
  BY <1>4, Zenon DEF TagsOf
<1> QED
  BY <1>8, <1>12, <1>13, Zenon

----------------------------------------------------------------------------
(* A search: the invariant of InterpretSearch() and GetDate() *)

NoneBefore(d, n, tag) == \A i \in DOMAIN d : i < n => d[i].tag # tag

\* What search g holds after the elements of d before n, which are those of s
SearchSoFar(g, s, d, n) ==
  /\ g = [f \in SearchFields |-> g[f]] /\ g.content = FALSE
  /\ \A c \in DOMAIN Criterion : g[Criterion[c]] = s[Criterion[c]] \/ (g[Criterion[c]] = "" /\ NoneBefore(d, n, c))
  /\ (SlotSent(s) /\ g.begin = s.begin) \/ (g.begin = Today /\ NoneBefore(d, n, "TIMESLOT"))
  /\ (SlotSent(s) /\ g.end = s.end) \/ (g.end = Today /\ NoneBefore(d, n, "TIMESLOT"))

\* What date c holds after the parts of date d before n
DateSoFar(c, d, n) ==
  /\ c = [f \in DateFields |-> c[f]]
  /\ (n > 1 => c.day = d.day) /\ (n > 2 => c.month = d.month) /\ (n > 3 => c.year = d.year)

DateAt(s, n) == IF n = 1 THEN s.begin ELSE s.end

SearchRead ==
  Kind = "search" /\ WholeSearch(msg.what) =>
    LET s == DecodeSearch(msg.what)
    IN /\ pc # "dead"
       /\ pc = "send" => tagDepth[1] = 1
       /\ pc \notin {"send", "dead"} => SearchSoFar(got, s, Document, tagDepth[1])
       /\ pc = "done" => tagDepth[1] > Len(Document)
       /\ pc \in {"slot", "date"} =>
            /\ tagDepth[2] \in 1 .. 3
            /\ tagDepth[2] > 1 => got.begin = s.begin
            /\ tagDepth[2] > 2 => got.end = s.end
       /\ pc = "date" => tagDepth[2] < 3 /\ DateSoFar(cur, DateAt(s, tagDepth[2]), tagDepth[3])

LEMMA NewSearch ==
  ASSUME NEW s, NEW d, IsList(d)
  PROVE  SearchSoFar(NoSearch, s, d, 1)
<1>1. \A i \in DOMAIN d : ~(i < 1)
  BY ListFacts
<1>2. PICK g : g = NoSearch
  OBVIOUS
<1>3. /\ g = [f \in SearchFields |-> g[f]] /\ g.begin = Today /\ g.end = Today
      /\ \A c \in DOMAIN Criterion : g[Criterion[c]] = ""
  BY <1>2, NoSearchFacts, CriterionFacts
<1>4. g.content = FALSE
  BY <1>2, NoSearchFacts, Zenon
<1>5. \A tag : NoneBefore(d, 1, tag)
  BY <1>1 DEF NoneBefore
<1>6. SearchSoFar(g, s, d, 1)
  BY <1>3, <1>4, <1>5, Zenon DEF SearchSoFar
<1> QED
  BY <1>2, <1>6, Zenon

\* One more element that has another tag
LEMMA OneMoreBefore ==
  ASSUME NEW d, IsList(d), NEW n \in DOMAIN d, NEW tag, NoneBefore(d, n, tag), d[n].tag # tag
  PROVE  NoneBefore(d, n + 1, tag)
<1>1. \A i \in DOMAIN d : i < n + 1 => i < n \/ i = n
  BY ListFacts
<1> QED
  BY <1>1 DEF NoneBefore

LEMMA CriterionRead ==
  ASSUME NEW s, NEW d, IsList(d), NEW n \in DOMAIN d, NEW g, SearchSoFar(g, s, d, n),
         SearchElement(d[n], s), d[n].content # <<>>, d[n].tag \in DOMAIN Criterion,
         NEW h, h = [g EXCEPT ![Criterion[d[n].tag]] = Value(d[n])]
  PROVE  SearchSoFar(h, s, d, n + 1)
<1>1. PICK e, k, v : e = d[n].tag /\ k = Criterion[e] /\ v = Value(d[n])
  OBVIOUS
<1>2. v = s[k] /\ e \in DOMAIN Criterion
  BY <1>1 DEF SearchElement
<1>3. /\ h = [f \in SearchFields |-> h[f]]
      /\ k \in SearchFields => h[k] = v
      /\ \A f \in SearchFields : f # k => h[f] = g[f]
  BY <1>1, SetOne DEF SearchSoFar
<1>4. /\ k \in SearchFields \ {"content", "begin", "end"}
      /\ \A c \in DOMAIN Criterion : Criterion[c] \in SearchFields /\ (Criterion[c] = k => c = e)
  BY <1>1, <1>2, CriterionFacts DEF SearchFields
<1>5. {"content", "begin", "end"} \subseteq SearchFields
  BY DEF SearchFields
<1>6. h.content = FALSE
  BY <1>3, <1>4, <1>5, Zenon DEF SearchSoFar
<1>7. ASSUME NEW c \in DOMAIN Criterion
      PROVE  h[Criterion[c]] = s[Criterion[c]] \/ (h[Criterion[c]] = "" /\ NoneBefore(d, n + 1, c))
  <2>1. CASE c = e
    BY <1>1, <1>2, <1>3, <1>4, <2>1
  <2>2. CASE c # e
    <3>1. h[Criterion[c]] = g[Criterion[c]] /\ d[n].tag # c
      BY <1>1, <1>3, <1>4, <2>2
    <3>2. NoneBefore(d, n, c) => NoneBefore(d, n + 1, c)
      BY <3>1, OneMoreBefore
    <3> QED
      BY <3>1, <3>2 DEF SearchSoFar
  <2> QED
    BY <2>1, <2>2
<1>8. NoneBefore(d, n, "TIMESLOT") => NoneBefore(d, n + 1, "TIMESLOT")
  <2>1. d[n].tag # "TIMESLOT"
    BY CriterionFacts
  <2> QED
    BY <2>1, OneMoreBefore
<1>9. h.begin = g.begin /\ h.end = g.end
  BY <1>3, <1>4, <1>5
<1> QED
  BY <1>3, <1>6, <1>7, <1>8, <1>9, Zenon DEF SearchSoFar

LEMMA ContentRead ==
  ASSUME NEW s, NEW d, IsList(d), NEW n \in DOMAIN d, NEW g, SearchSoFar(g, s, d, n),
         SearchElement(d[n], s), d[n].tag = "CONTENT",
         NEW h, h = [g EXCEPT !["content"] = g["content"] \/ d[n].content[1] = "true"]
  PROVE  SearchSoFar(h, s, d, n + 1)
<1>1. PICK v : v = (g["content"] \/ d[n].content[1] = "true")
  OBVIOUS
<1>2. v = FALSE
  BY <1>1, Zenon DEF SearchSoFar, SearchElement
<1>3. /\ h = [f \in SearchFields |-> h[f]]
      /\ \A f \in SearchFields : f # "content" => h[f] = g[f]
      /\ "content" \in SearchFields => h["content"] = v
  <2>1. h = [g EXCEPT !["content"] = v]
    BY <1>1, Zenon
  <2>2. g = [f \in SearchFields |-> g[f]]
    BY DEF SearchSoFar
  <2> QED
    BY <2>1, <2>2, SetOne, Zenon
<1>4. "content" \in SearchFields /\ "begin" \in SearchFields /\ "end" \in SearchFields
  BY DEF SearchFields
<1>5. h.content = FALSE
  BY <1>2, <1>3, <1>4, Zenon
<1>6. \A c \in DOMAIN Criterion : Criterion[c] \in SearchFields \ {"content"}
  BY CriterionFacts DEF SearchFields
<1>7. \A tag \in DOMAIN Criterion \cup {"TIMESLOT"} : NoneBefore(d, n, tag) => NoneBefore(d, n + 1, tag)
  <2>1. \A tag \in DOMAIN Criterion \cup {"TIMESLOT"} : d[n].tag # tag
    BY CriterionFacts
  <2> QED
    BY <2>1, OneMoreBefore
<1>8. \A c \in DOMAIN Criterion : h[Criterion[c]] = g[Criterion[c]]
  BY <1>3, <1>6
<1>9. h.begin = g.begin /\ h.end = g.end
  BY <1>3, <1>4
<1> QED
  BY <1>3, <1>5, <1>7, <1>8, <1>9, Zenon DEF SearchSoFar

\* The time slot is passed when both of its dates were read
LEMMA SlotRead ==
  ASSUME NEW s, NEW d, IsList(d), NEW n \in DOMAIN d, NEW g, SearchSoFar(g, s, d, n), SlotSent(s),
         d[n].tag = "TIMESLOT", g.begin = s.begin, g.end = s.end
  PROVE  SearchSoFar(g, s, d, n + 1)
<1>1. \A tag \in DOMAIN Criterion : NoneBefore(d, n, tag) => NoneBefore(d, n + 1, tag)
  <2>1. \A tag \in DOMAIN Criterion : d[n].tag # tag
    BY CriterionFacts
  <2> QED
    BY <2>1, OneMoreBefore
<1> QED
  BY <1>1, Zenon DEF SearchSoFar

\* One date of g is set to that of s
DateOnly(h, g, k, s) == h[k] = s[k] /\ \A f \in {"begin", "end"} : f # k => h[f] = g[f]

\* A date of the slot is set
LEMMA DateSet ==
  ASSUME NEW s, NEW d, NEW n, NEW g, SearchSoFar(g, s, d, n), SlotSent(s), NEW k \in {"begin", "end"},
         NEW h, h = [g EXCEPT ![k] = s[k]]
  PROVE  SearchSoFar(h, s, d, n) /\ DateOnly(h, g, k, s)
<1>1. /\ h = [f \in SearchFields |-> h[f]]
      /\ k \in SearchFields => h[k] = s[k]
      /\ \A f \in SearchFields : f # k => h[f] = g[f]
  BY SetOne DEF SearchSoFar
<1>2. {"content", "begin", "end"} \subseteq SearchFields
  BY DEF SearchFields
<1>3. \A c \in DOMAIN Criterion : Criterion[c] \in SearchFields \ {"content", "begin", "end"}
  BY CriterionFacts DEF SearchFields
<1>4. h[k] = s[k] /\ \A f \in {"begin", "end"} : f # k => h[f] = g[f]
  BY <1>1, <1>2
<1>5. h.content = FALSE
  BY <1>1, <1>2, Zenon DEF SearchSoFar
<1>6. \A c \in DOMAIN Criterion : h[Criterion[c]] = g[Criterion[c]]
  BY <1>1, <1>3
<1>7. /\ (SlotSent(s) /\ h.begin = s.begin) \/ (h.begin = Today /\ NoneBefore(d, n, "TIMESLOT"))
      /\ (SlotSent(s) /\ h.end = s.end) \/ (h.end = Today /\ NoneBefore(d, n, "TIMESLOT"))
  BY <1>4 DEF SearchSoFar
<1> QED
  BY <1>1, <1>4, <1>5, <1>6, <1>7, Zenon DEF SearchSoFar, DateOnly

\* The dates of a search that was written are valid already
LEMMA EndSearch ==
  ASSUME NEW s, NEW d, NEW n, NEW g, SearchSoFar(g, s, d, n)
  PROVE  SearchSoFar(ValidDates(g), s, d, n)
<1>1. PICK h : h = ValidDates(g)
  OBVIOUS
<1>2. /\ h = [f \in SearchFields |-> h[f]]
      /\ h.begin = IF IsValidDate(g.begin) THEN g.begin ELSE Today
      /\ h.end = IF IsValidDate(g.end) THEN g.end ELSE Today
      /\ \A f \in SearchFields \ {"begin", "end"} : h[f] = g[f]
  BY <1>1, ValidDatesFacts DEF SearchSoFar
<1>3. IsValidDate(g.begin) /\ IsValidDate(g.end)
  BY MessagesAssumption, Zenon DEF SearchSoFar, SlotSent
<1>4. h.begin = g.begin /\ h.end = g.end
  BY <1>2, <1>3
<1>5. "content" \in SearchFields \ {"begin", "end"}
  BY DEF SearchFields
<1>6. \A c \in DOMAIN Criterion : Criterion[c] \in SearchFields \ {"begin", "end"}
  BY CriterionFacts DEF SearchFields
<1>7. SearchSoFar(h, s, d, n)
  BY <1>2, <1>4, <1>5, <1>6, Zenon DEF SearchSoFar
<1> QED
  BY <1>1, <1>7, Zenon

\* A part of a date is read
LEMMA PartRead ==
  ASSUME NEW x, NEW d, DateElement(x, d), NEW n \in DOMAIN x.content, NEW c, DateSoFar(c, d, n),
         NEW b, b = [c EXCEPT ![DatePart[x.content[n].tag]] = Value(x.content[n])]
  PROVE  DateSoFar(b, d, n + 1)
<1>1. n \in 1 .. 3
  BY ListFacts DEF DateElement
<1>2. PICK k, v : k = DatePart[x.content[n].tag] /\ v = Value(x.content[n])
  OBVIOUS
<1>3. /\ n = 1 => k = "day" /\ v = d.day
      /\ n = 2 => k = "month" /\ v = d.month
      /\ n = 3 => k = "year" /\ v = d.year
  BY <1>2 DEF DateElement, DatePart
<1>4. /\ b = [f \in DateFields |-> b[f]]
      /\ k \in DateFields => b[k] = v
      /\ \A f \in DateFields : f # k => b[f] = c[f]
  BY <1>2, SetOne DEF DateSoFar
<1>5. DateFields = {"day", "month", "year"}
  BY DEF DateFields
<1>6. CASE n = 1
  BY <1>3, <1>4, <1>5, <1>6 DEF DateSoFar
<1>7. CASE n = 2
  BY <1>3, <1>4, <1>5, <1>7 DEF DateSoFar
<1>8. CASE n = 3
  BY <1>3, <1>4, <1>5, <1>8 DEF DateSoFar
<1> QED
  BY <1>1, <1>6, <1>7, <1>8

LEMMA WholeDate ==
  ASSUME NEW d \in Date, NEW c, NEW n, n > 3, n > 2, n > 1, DateSoFar(c, d, n)
  PROVE  c = d
<1>1. d = [f \in DateFields |-> d[f]]
  BY DEF Date, DateFields
<1>2. \A f \in DateFields : c[f] = d[f]
  BY DEF DateSoFar, DateFields
<1> QED
  BY <1>1, <1>2 DEF DateSoFar

LEMMA SearchReadStep ==
  ASSUME Place, SearchRead, [Next]_vars, Kind = "search", WholeSearch(msg.what)
  PROVE  SearchRead'
<1>1. /\ tagDepth \in [1 .. 4 -> Nat \ {0}] /\ Searching /\ ~Indexing /\ ~Answering
      /\ pc \in {"send", "root", "slot", "date", "done", "dead"}
  BY DEF Place, Indexing, Searching, Answering
<1>2. PICK s, d, n : s = DecodeSearch(msg.what) /\ d = Document /\ n = tagDepth[1]
  OBVIOUS
<1>24. msg.what \in Search
  BY MessagesAssumption DEF Place, Kind
<1>3. s \in Search
  BY <1>2, <1>24, DecodeSearchFacts
<1>4. d = MRToBI(msg.what)
  BY <1>2 DEF Document
<1>5. IsList(d) /\ (\A i \in DOMAIN d : SearchElement(d[i], s)) /\ \A t \in TagsOf(s) : \E i \in DOMAIN d : d[i].tag = t
  BY <1>2, <1>24, <1>4, SearchDocument DEF Written
<1>6. DOMAIN d = 1 .. Len(d) /\ Len(d) \in Nat /\ d # <<>>
  <2>1. \E i \in DOMAIN d : TRUE
    BY <1>5 DEF TagsOf
  <2> QED
    BY <1>5, <2>1, ListFacts
<1>7. /\ pc # "dead"
      /\ pc = "send" => n = 1
      /\ pc \notin {"send", "dead"} => SearchSoFar(got, s, d, n)
      /\ pc = "done" => n > Len(d)
      /\ pc \in {"slot", "date"} => /\ tagDepth[2] \in 1 .. 3
                                    /\ tagDepth[2] > 1 => got.begin = s.begin
                                    /\ tagDepth[2] > 2 => got.end = s.end
      /\ pc = "date" => tagDepth[2] < 3 /\ DateSoFar(cur, DateAt(s, tagDepth[2]), tagDepth[3])
  BY <1>2 DEF SearchRead
<1>8. UNCHANGED msg => DecodeSearch(msg'.what) = s /\ Document' = d /\ Kind' = Kind
  BY <1>2, Unmoved
<1>9. pc \in {"slot", "date"} \/ (pc = "root" /\ n <= Len(d)) => n \in DOMAIN d /\ Tag1 = d[n] /\ SearchElement(Tag1, s)
  <2>1. pc \in {"slot", "date"} => n <= Len(d)
    BY <1>2 DEF Place
  <2> QED
    BY <1>1, <1>2, <1>5, <1>6, <2>1 DEF Tag1
<1>10. pc \in {"slot", "date"} => SlotElement(Tag1, s) /\ Tag1.tag = "TIMESLOT"
  BY <1>9 DEF Place, SearchElement
<1>11. pc \in {"slot", "date"} /\ tagDepth[2] <= Len(Tag1.content) =>
         /\ tagDepth[2] \in 1 .. 2 /\ DateElement(Tag2, DateAt(s, tagDepth[2]))
         /\ tagDepth[2] = 1 => Tag2.tag = "BEGIN"
         /\ tagDepth[2] = 2 => Tag2.tag = "END"
  <2>1. ASSUME pc \in {"slot", "date"}, tagDepth[2] <= Len(Tag1.content)
        PROVE  /\ tagDepth[2] \in 1 .. 2 /\ DateElement(Tag2, DateAt(s, tagDepth[2]))
               /\ tagDepth[2] = 1 => Tag2.tag = "BEGIN"
               /\ tagDepth[2] = 2 => Tag2.tag = "END"
    <3>1. tagDepth[2] \in 1 .. 2
      <4>1. Len(Tag1.content) = 2
        BY <1>10, <2>1 DEF SlotElement
      <4>2. tagDepth[2] \in Nat \ {0}
        BY <1>1
      <4> QED
        BY <2>1, <4>1, <4>2
    <3>2. CASE tagDepth[2] = 1
      BY <1>10, <2>1, <3>2 DEF SlotElement, Tag2, DateAt
    <3>3. CASE tagDepth[2] = 2
      BY <1>10, <2>1, <3>3 DEF SlotElement, Tag2, DateAt
    <3> QED
      BY <3>1, <3>2, <3>3
  <2> QED
    BY <2>1
<1>12. CASE UNCHANGED vars
  <2>1. UNCHANGED <<msg, pc, tagDepth, cur, got>>
    BY <1>12 DEF vars
  <2> QED
    BY <1>2, <1>7, <1>8, <2>1 DEF SearchRead
<1>13. CASE Send
  <2>1. pc = "send" /\ pc' = "root" /\ UNCHANGED <<msg, tagDepth>> /\ got' = NoSearch
    BY <1>1, <1>2, <1>6, <1>13 DEF Send
  <2>2. SearchSoFar(got', s, d, n)
    BY <1>5, <1>7, <2>1, NewSearch
  <2> QED
    BY <1>2, <1>8, <2>1, <2>2 DEF SearchRead
<1>14. CASE EndOfDocument
  <2>1. /\ pc = "root" /\ n > Len(d) /\ pc' = "done" /\ UNCHANGED <<msg, tagDepth>> /\ got' = ValidDates(got)
    BY <1>1, <1>2, <1>14, EndSteps
  <2>2. SearchSoFar(got', s, d, n)
    BY <1>7, <2>1, EndSearch
  <2> QED
    BY <1>2, <1>8, <2>1, <2>2 DEF SearchRead
<1>15. CASE ReadCriterion
  <2>1. /\ pc = "root" /\ n <= Len(d) /\ Tag1.tag \in DOMAIN Criterion \cup {"CONTENT"} /\ Tag1.content # <<>>
        /\ got' = IF Tag1.tag = "CONTENT" THEN [got EXCEPT !.content = @ \/ Tag1.content[1] = "true"]
                  ELSE [got EXCEPT ![Criterion[Tag1.tag]] = Value(Tag1)]
        /\ Onward("root") /\ UNCHANGED <<msg, cur>>
    BY <1>2, <1>15, ReadSearchSteps
  <2>2. pc' = "root" /\ tagDepth'[1] = n + 1
    BY <1>1, <1>2, <2>1, Moves, LoopFacts
  <2>3. n \in DOMAIN d /\ Tag1 = d[n] /\ SearchElement(d[n], s) /\ SearchSoFar(got, s, d, n)
    BY <1>7, <1>9, <2>1
  <2>4. CASE Tag1.tag = "CONTENT"
    <3>1. got' = [got EXCEPT !["content"] = got["content"] \/ d[n].content[1] = "true"]
      BY <2>1, <2>3, <2>4, Zenon
    <3>2. SearchSoFar(got', s, d, n + 1)
      BY <1>5, <2>3, <2>4, <3>1, ContentRead, Zenon
    <3> QED
      BY <1>2, <1>8, <2>1, <2>2, <3>2 DEF SearchRead
  <2>5. CASE Tag1.tag # "CONTENT"
    <3>1. Tag1.tag \in DOMAIN Criterion /\ got' = [got EXCEPT ![Criterion[d[n].tag]] = Value(d[n])]
      BY <2>1, <2>3, <2>5, Zenon
    <3>2. SearchSoFar(got', s, d, n + 1)
      BY <1>5, <2>1, <2>3, <3>1, CriterionRead
    <3> QED
      BY <1>2, <1>8, <2>1, <2>2, <3>2 DEF SearchRead
  <2> QED
    BY <2>4, <2>5
<1>16. CASE EnterSlot
  <2>1. pc = "root" /\ Enter("slot") /\ UNCHANGED <<msg, cur, got>>
    BY <1>16, ReadSearchSteps
  <2>2. pc' = "slot" /\ tagDepth'[1] = n /\ tagDepth'[2] = 1
    BY <1>1, <1>2, <2>1, Moves, LoopFacts
  <2> QED
    BY <1>2, <1>7, <1>8, <2>1, <2>2 DEF SearchRead
<1>17. CASE EnterDate
  <2>1. pc = "slot" /\ tagDepth[2] <= Len(Tag1.content) /\ Enter("date") /\ UNCHANGED <<msg, got>>
    BY <1>17, ReadSearchSteps
  <2>2. PICK g, h \in Garbage : cur' = [day |-> g, month |-> "", year |-> h]
    BY <1>17, ReadSearchSteps
  <2>3. pc' = "date" /\ tagDepth'[1] = n /\ tagDepth'[2] = tagDepth[2] /\ tagDepth'[3] = 1
    BY <1>1, <1>2, <2>1, Moves, LoopFacts
  <2>4. DateSoFar(cur', DateAt(s, tagDepth[2]), 1)
    <3>1. PICK c, x : c = cur' /\ x = DateAt(s, tagDepth[2])
      OBVIOUS
    <3>2. c = [f \in DateFields |-> c[f]]
      BY <2>2, <3>1 DEF DateFields
    <3>3. DateSoFar(c, x, 1)
      BY <3>2 DEF DateSoFar
    <3> QED
      BY <3>1, <3>3
  <2>5. tagDepth[2] < 3
    BY <1>11, <2>1
  <2> QED
    BY <1>2, <1>7, <1>8, <2>1, <2>3, <2>4, <2>5 DEF SearchRead
<1>18. CASE ReadDatePart
  <2>1. /\ pc = "date" /\ tagDepth[3] <= Len(Tag2.content) /\ Onward("date") /\ UNCHANGED <<msg, got>>
        /\ cur' = [cur EXCEPT ![DatePart[Tag3.tag]] = Value(Tag3)]
    BY <1>18, ReadSearchSteps
  <2>2. /\ pc' = "date" /\ tagDepth'[1] = n /\ tagDepth'[2] = tagDepth[2] /\ tagDepth'[3] = tagDepth[3] + 1
    BY <1>1, <1>2, <2>1, Moves, LoopFacts
  <2>3. PICK k : k = tagDepth[3] /\ Tag3 = Tag2.content[k]
    BY DEF Tag3
  <2>4. DateElement(Tag2, DateAt(s, tagDepth[2])) /\ DateSoFar(cur, DateAt(s, tagDepth[2]), k)
    BY <1>7, <1>11, <2>1, <2>3 DEF Place
  <2>5. k \in DOMAIN Tag2.content
    <3>1. IsList(Tag2.content)
      BY <2>4 DEF DateElement
    <3> QED
      BY <1>1, <2>1, <2>3, <3>1, ListFacts
  <2>6. DateSoFar(cur', DateAt(s, tagDepth[2]), k + 1)
    BY <2>1, <2>3, <2>4, <2>5, PartRead
  <2> QED
    BY <1>2, <1>7, <1>8, <2>1, <2>2, <2>3, <2>6 DEF SearchRead
<1>19. CASE LeaveDate
  <2>1. /\ pc = "date" /\ tagDepth[3] > Len(Tag2.content) /\ Onward("slot") /\ UNCHANGED msg
        /\ got' = IF Tag2.tag = "BEGIN" THEN [got EXCEPT !.begin = cur] ELSE [got EXCEPT !.end = cur]
    BY <1>19, ReadSearchSteps
  <2>2. pc' = "slot" /\ tagDepth'[1] = n /\ tagDepth'[2] = tagDepth[2] + 1
    BY <1>1, <1>2, <2>1, Moves, LoopFacts
  <2>3. /\ tagDepth[2] \in 1 .. 2 /\ DateElement(Tag2, DateAt(s, tagDepth[2]))
        /\ DateSoFar(cur, DateAt(s, tagDepth[2]), tagDepth[3])
        /\ tagDepth[2] = 1 => Tag2.tag = "BEGIN"
        /\ tagDepth[2] = 2 => Tag2.tag = "END"
    BY <1>7, <1>11, <2>1 DEF Place
  <2>4. cur = DateAt(s, tagDepth[2])
    <3>1. DateAt(s, tagDepth[2]) \in Date
      BY <1>3 DEF Search, DateAt
    <3>2. Len(Tag2.content) = 3
      BY <2>3 DEF DateElement
    <3>3. tagDepth[3] > 3 /\ tagDepth[3] > 2 /\ tagDepth[3] > 1
      BY <1>1, <2>1, <3>2
    <3> QED
      BY <2>3, <3>1, <3>3, WholeDate
  <2>5. SearchSoFar(got, s, d, n) /\ SlotSent(s)
    BY <1>7, <1>10, <2>1 DEF SlotElement
  <2>6. CASE tagDepth[2] = 1
    <3>1. got' = [got EXCEPT !["begin"] = s["begin"]]
      <4>1. cur = s["begin"]
        BY <2>4, <2>6 DEF DateAt
      <4>2. got' = [got EXCEPT !["begin"] = cur]
        BY <2>1, <2>3, <2>6
      <4> QED
        BY <4>1, <4>2
    <3>2. SearchSoFar(got', s, d, n) /\ got'.begin = s.begin
      <4>1. PICK k \in {"begin", "end"} : k = "begin"
        OBVIOUS
      <4>2. PICK g, h : g = got /\ h = got'
        OBVIOUS
      <4>3. h = [g EXCEPT ![k] = s[k]]
        BY <3>1, <4>1, <4>2, Zenon
      <4>4. SearchSoFar(g, s, d, n)
        BY <2>5, <4>2
      <4>5. SearchSoFar(h, s, d, n) /\ DateOnly(h, g, k, s)
        BY <2>5, <4>3, <4>4, DateSet
      <4> QED
        BY <4>1, <4>2, <4>5 DEF DateOnly
    <3>3. tagDepth'[2] = 2
      BY <2>2, <2>6
    <3> QED
      BY <1>2, <1>8, <2>1, <2>2, <3>2, <3>3 DEF SearchRead
  <2>7. CASE tagDepth[2] = 2
    <3>1. got' = [got EXCEPT !["end"] = s["end"]]
      <4>1. cur = s["end"]
        BY <2>4, <2>7 DEF DateAt
      <4>2. got' = [got EXCEPT !["end"] = cur]
        BY <2>1, <2>3, <2>7
      <4> QED
        BY <4>1, <4>2
    <3>2. SearchSoFar(got', s, d, n) /\ got'.end = s.end /\ got'.begin = got.begin
      <4>1. PICK k \in {"begin", "end"} : k = "end"
        OBVIOUS
      <4>2. PICK g, h : g = got /\ h = got'
        OBVIOUS
      <4>3. h = [g EXCEPT ![k] = s[k]]
        BY <3>1, <4>1, <4>2, Zenon
      <4>4. SearchSoFar(g, s, d, n)
        BY <2>5, <4>2
      <4>5. SearchSoFar(h, s, d, n) /\ DateOnly(h, g, k, s)
        BY <2>5, <4>3, <4>4, DateSet
      <4> QED
        BY <4>1, <4>2, <4>5 DEF DateOnly
    <3>3. tagDepth'[2] = 3 /\ got.begin = s.begin
      BY <1>7, <2>1, <2>2, <2>7
    <3> QED
      BY <1>2, <1>8, <2>1, <2>2, <3>2, <3>3 DEF SearchRead
  <2> QED
    BY <2>3, <2>6, <2>7
<1>20. CASE LeaveSlot
  <2>1. /\ pc = "slot" /\ tagDepth[2] > Len(Tag1.content) /\ Onward("root") /\ UNCHANGED <<msg, cur, got>>
    BY <1>20, ReadSearchSteps
  <2>2. pc' = "root" /\ tagDepth'[1] = n + 1
    BY <1>1, <1>2, <2>1, Moves, LoopFacts
  <2>3. tagDepth[2] > 1 /\ tagDepth[2] > 2 /\ SlotSent(s)
    <3>1. Len(Tag1.content) = 2 /\ SlotSent(s)
      BY <1>10, <2>1 DEF SlotElement
    <3> QED
      BY <1>1, <2>1, <3>1
  <2>4. n \in DOMAIN d /\ Tag1 = d[n] /\ Tag1.tag = "TIMESLOT" /\ SearchSoFar(got, s, d, n)
    BY <1>7, <1>9, <1>10, <2>1
  <2>5. SearchSoFar(got, s, d, n + 1)
    BY <1>5, <1>7, <2>1, <2>3, <2>4, SlotRead
  <2> QED
    BY <1>2, <1>8, <2>1, <2>2, <2>5 DEF SearchRead
<1>21. ASSUME NEW l \in Loops, Skip(l)
       PROVE  SearchRead'
  <2>1. /\ pc = l /\ tagDepth[Depth[l]] <= Len(Siblings(l))
        /\ l = "root" => Tag1.tag \notin Nested(l) \cup Texts(l)
        /\ l = "slot" => Tag2.tag \notin Nested(l) \cup Texts(l)
        /\ l = "date" => Tag3.tag \notin Nested(l) \cup Texts(l)
    BY <1>21, SkipSteps
  <2>2. l \in {"root", "slot", "date"}
    BY <1>1, <2>1, LoopFacts
  <2>3. l # "root"
    <3>1. ASSUME l = "root"
          PROVE  FALSE
      <4>1. n <= Len(d)
        BY <1>2, <2>1, <3>1, LoopFacts, SiblingFacts
      <4>2. Tag1.tag \in DOMAIN Criterion \cup {"CONTENT", "TIMESLOT"}
        BY <1>9, <2>1, <3>1, <4>1 DEF SearchElement
      <4> QED
        BY <1>1, <2>1, <3>1, <4>2, NestedFacts
    <3> QED
      BY <3>1
  <2>4. l # "slot"
    <3>1. ASSUME l = "slot"
          PROVE  FALSE
      <4>1. tagDepth[2] <= Len(Tag1.content)
        BY <2>1, <3>1, LoopFacts, SiblingFacts
      <4>2. Tag2.tag \in {"BEGIN", "END"}
        BY <1>11, <2>1, <3>1, <4>1
      <4> QED
        BY <2>1, <3>1, <4>2, NestedFacts
    <3> QED
      BY <3>1
  <2>5. l # "date"
    <3>1. ASSUME l = "date"
          PROVE  FALSE
      <4>1. tagDepth[3] <= Len(Tag2.content) /\ tagDepth[2] <= Len(Tag1.content)
        BY <2>1, <3>1, LoopFacts, SiblingFacts DEF Place
      <4>2. DateElement(Tag2, DateAt(s, tagDepth[2]))
        BY <1>11, <2>1, <3>1, <4>1
      <4>3. tagDepth[3] \in 1 .. 3
        BY <1>1, <4>1, <4>2 DEF DateElement
      <4>4. Tag3.tag \in {"DAY", "MONTH", "YEAR"}
        BY <4>2, <4>3 DEF DateElement, Tag3
      <4> QED
        BY <2>1, <3>1, <4>4, NestedFacts
    <3> QED
      BY <3>1
  <2> QED
    BY <2>2, <2>3, <2>4, <2>5
<1>22. ASSUME NEW l \in Loops, UseNull(l)
       PROVE  SearchRead'
  <2>1. /\ pc = l /\ pc' = "dead" /\ UNCHANGED <<msg, tagDepth, cur, got>> /\ tagDepth[Depth[l]] <= Len(Siblings(l))
        /\ l = "root" => Tag1.tag \in Texts(l) /\ Tag1.content = <<>>
        /\ l = "date" => Tag3.content = <<>>
        /\ l # "slot"
    BY <1>22, UseNullSteps
  <2>2. l \in {"root", "date"}
    BY <1>1, <2>1, LoopFacts
  <2>3. l # "date"
    <3>1. ASSUME l = "date"
          PROVE  FALSE
      <4>1. tagDepth[3] <= Len(Tag2.content) /\ tagDepth[2] <= Len(Tag1.content)
        BY <2>1, <3>1, LoopFacts, SiblingFacts DEF Place
      <4>2. DateElement(Tag2, DateAt(s, tagDepth[2]))
        BY <1>11, <2>1, <3>1, <4>1
      <4>3. tagDepth[3] \in 1 .. 3
        BY <1>1, <4>1, <4>2 DEF DateElement
      <4> QED
        BY <2>1, <3>1, <4>2, <4>3 DEF DateElement, Tag3
    <3> QED
      BY <3>1
  <2>4. l = "root"
    BY <2>2, <2>3
  <2>5. SearchElement(Tag1, s)
    <3>1. n <= Len(d)
      BY <1>2, <2>1, <2>4, LoopFacts, SiblingFacts
    <3> QED
      BY <1>9, <2>1, <2>4, <3>1
  <2>6. Tag1.content # <<>>
    BY <1>1, <2>1, <2>4, <2>5, NestedFacts DEF SearchElement
  <2> QED
    BY <2>1, <2>4, <2>6
<1>23. ~ReadSection /\ ~ReadResult
  BY <1>1, ReadSectionSteps, ReadWordSteps, ReadResultSteps DEF ReadSection, ReadResult
<1> QED
  BY <1>12, <1>13, <1>14, <1>15, <1>16, <1>17, <1>18, <1>19, <1>20, <1>21, <1>22, <1>23 DEF Next, ReadSearch

LEMMA SearchReadKept ==
  ASSUME Place, SearchRead
  PROVE  SearchKept
<1>1. ASSUME Kind = "search", pc # "send", WholeSearch(msg.what), NEW s, s = DecodeSearch(msg.what)
      PROVE  /\ pc # "dead"
             /\ pc = "done" =>
                  /\ got.word = s.word /\ got.pathDir = s.pathDir /\ got.perm = s.perm /\ got.extension = s.extension
                  /\ got.begin = IF SlotSent(msg.what) THEN s.begin ELSE Today
                  /\ got.end = IF SlotSent(msg.what) THEN s.end ELSE Today
  <2>1. PICK d, n : d = Document /\ n = tagDepth[1]
    OBVIOUS
  <2>2. msg.what \in Search
    BY <1>1, MessagesAssumption DEF Place, Kind
  <2>3. d = MRToBI(msg.what)
    BY <1>1, <2>1 DEF Document
  <2>4. IsList(d) /\ \A t \in TagsOf(s) : \E i \in DOMAIN d : d[i].tag = t
    BY <1>1, <2>2, <2>3, SearchDocument DEF Written
  <2>5. pc # "dead"
    BY <1>1 DEF SearchRead
  <2>7. SlotSent(s) <=> SlotSent(msg.what)
    BY <1>1, <2>2, DecodeSearchFacts
  <2>6. ASSUME pc = "done"
        PROVE  /\ got.word = s.word /\ got.pathDir = s.pathDir /\ got.perm = s.perm /\ got.extension = s.extension
               /\ got.begin = IF SlotSent(s) THEN s.begin ELSE Today
               /\ got.end = IF SlotSent(s) THEN s.end ELSE Today
    <3>1. SearchSoFar(got, s, d, n) /\ n > Len(d) /\ n \in Nat
      BY <1>1, <2>1, <2>6 DEF SearchRead, Place
    <3>2. \A i \in DOMAIN d : i < n
      BY <2>4, <3>1, ListFacts
    <3>3. \A t \in TagsOf(s) : ~NoneBefore(d, n, t)
      BY <2>4, <3>2 DEF NoneBefore
    <3>4. /\ "WORD" \in TagsOf(s)
          /\ s.pathDir # "" => "PATHDIR" \in TagsOf(s)
          /\ s.perm # "" => "PERM" \in TagsOf(s)
          /\ s.extension # "" => "EXTENSION" \in TagsOf(s)
          /\ SlotSent(s) => "TIMESLOT" \in TagsOf(s)
      BY DEF TagsOf
    <3>5. /\ got["word"] = s["word"] \/ (got["word"] = "" /\ NoneBefore(d, n, "WORD"))
          /\ got["pathDir"] = s["pathDir"] \/ (got["pathDir"] = "" /\ NoneBefore(d, n, "PATHDIR"))
          /\ got["perm"] = s["perm"] \/ (got["perm"] = "" /\ NoneBefore(d, n, "PERM"))
          /\ got["extension"] = s["extension"] \/ (got["extension"] = "" /\ NoneBefore(d, n, "EXTENSION"))
      BY <3>1, CriterionFacts DEF SearchSoFar
    <3>6. /\ (SlotSent(s) /\ got.begin = s.begin) \/ (got.begin = Today /\ NoneBefore(d, n, "TIMESLOT"))
          /\ (SlotSent(s) /\ got.end = s.end) \/ (got.end = Today /\ NoneBefore(d, n, "TIMESLOT"))
      BY <3>1, Zenon DEF SearchSoFar
    <3>7. got.word = s.word /\ got.pathDir = s.pathDir /\ got.perm = s.perm /\ got.extension = s.extension
      BY <3>3, <3>4, <3>5
    <3>8. /\ got.begin = IF SlotSent(s) THEN s.begin ELSE Today
          /\ got.end = IF SlotSent(s) THEN s.end ELSE Today
      BY <3>3, <3>4, <3>6, Zenon
    <3> QED
      BY <3>7, <3>8, Zenon
  <2> QED
    BY <2>5, <2>6, <2>7, Zenon
<1> QED
  BY <1>1, Zenon DEF SearchKept, SlotSent

----------------------------------------------------------------------------
(* A document of the DTD is read whole: the invariant of InterpretIndexation() *)

\* What the files of a section mean, in their order
Meanings(s) == [f \in DOMAIN s.content |-> Meaning(s.tag, s.content[f])]

\* v holds the members of c before n, the last one first
Backwards(v, c, n) == IsList(v) /\ Len(v) + 1 = n /\ n <= Len(c) + 1 /\ \A k \in 1 .. n - 1 : v[k] = c[n - k]

\* What variable v of tag t holds after the elements of file f before n
Meant(v, f, n, t) ==
  /\ \A i \in DOMAIN f.content : i < n /\ f.content[i].tag = t =>
       v = IF t = "INDEXAGE" THEN Reverse(WordsOf(f.content[i])) ELSE Value(f.content[i])
  /\ NoneBefore(f.content, n, t) => IF t = "INDEXAGE" THEN v = <<>> ELSE t \in {"TAILLE", "GROUPE"} \/ v = ""

\* What the files of the sections are after the elements of document d before n
GotSoFar(files, d, n) ==
  \A sec \in Sections :
    /\ \A i \in DOMAIN d : i < n /\ d[i].tag = sec => files[sec] = Reverse(Meanings(d[i]))
    /\ NoneBefore(d, n, sec) => files[sec] = <<>>

DtdSoFar ==
  Kind = "indexation" /\ Dtd =>
    /\ pc # "dead"
    /\ pc = "send" => tagDepth[1] = 1
    /\ pc # "send" => GotSoFar(got, Document, tagDepth[1])
    /\ pc = "done" => tagDepth[1] > Len(Document)
    /\ pc \in {"section", "file", "words"} => Backwards(cur.files, Meanings(Tag1), tagDepth[2])
    /\ pc \in {"file", "words"} =>
         \A t \in Section[Tag1.tag].tags : pc = "file" \/ t # "INDEXAGE" => Meant(cur.value[t], Tag2, tagDepth[3], t)
    /\ pc = "words" => Backwards(cur.value["INDEXAGE"], WordsOf(Tag3), tagDepth[4])

LEMMA MappedFacts ==
  ASSUME NEW c, IsList(c), NEW m, m = [i \in DOMAIN c |-> m[i]]
  PROVE  IsList(m) /\ Len(m) = Len(c)
<1>1. DOMAIN c = 1 .. Len(c) /\ Len(c) \in Nat
  BY ListFacts
<1>2. PICK n \in Nat : n = Len(c)
  BY <1>1
<1>3. m = [i \in 1 .. n |-> m[i]]
  BY <1>1, <1>2
<1>4. IsList([i \in 1 .. n |-> m[i]]) /\ Len([i \in 1 .. n |-> m[i]]) = n
  BY <1>2, TabulateFacts
<1> QED
  BY <1>2, <1>3, <1>4, Zenon

LEMMA BackwardsNone ==
  ASSUME NEW c, IsList(c)
  PROVE  Backwards(<<>>, c, 1)
<1>1. PICK none : none = <<>>
  OBVIOUS
<1>2. IsList(none) /\ Len(none) = 0
  BY <1>1, NoElement
<1>3. 1 <= Len(c) + 1
  BY ListFacts
<1>4. Backwards(none, c, 1)
  BY <1>2, <1>3 DEF Backwards
<1> QED
  BY <1>1, <1>4

LEMMA BackwardsOne ==
  ASSUME NEW c, IsList(c), NEW n \in DOMAIN c, NEW v, Backwards(v, c, n), NEW w, w = <<c[n]>> \o v
  PROVE  Backwards(w, c, n + 1)
<1>1. n \in Nat /\ n <= Len(c) /\ Len(c) \in Nat /\ 1 <= n
  BY ListFacts
<1>2. IsList(v) /\ Len(v) + 1 = n /\ Len(v) \in Nat /\ \A k \in 1 .. n - 1 : v[k] = c[n - k]
  BY ListFacts DEF Backwards
<1>3. IsList(w) /\ Len(w) = Len(v) + 1 /\ w[1] = c[n] /\ \A k \in 1 .. Len(v) : w[k + 1] = v[k]
  BY <1>2, PushFront
<1>4. ASSUME NEW k \in 1 .. n
      PROVE  w[k] = c[n + 1 - k]
  <2>1. CASE k = 1
    BY <1>1, <1>3, <2>1
  <2>2. CASE k # 1
    <3>1. k - 1 \in 1 .. Len(v) /\ k - 1 + 1 = k /\ k - 1 \in 1 .. n - 1 /\ n - (k - 1) = n + 1 - k
      BY <1>1, <1>2, <2>2
    <3> QED
      BY <1>2, <1>3, <3>1
  <2> QED
    BY <2>1, <2>2
<1>5. PICK m \in Nat : m = n + 1
  BY <1>1
<1>6. IsList(w) /\ Len(w) + 1 = m /\ m <= Len(c) + 1
  BY <1>1, <1>2, <1>3, <1>5
<1>7. ASSUME NEW k \in 1 .. m - 1
      PROVE  w[k] = c[m - k]
  <2>1. k \in 1 .. n /\ n + 1 - k = m - k
    BY <1>1, <1>5
  <2> QED
    BY <1>4, <2>1
<1>8. Backwards(w, c, m)
  BY <1>6, <1>7 DEF Backwards
<1> QED
  BY <1>5, <1>8

LEMMA BackwardsAll ==
  ASSUME NEW c, IsList(c), NEW n, NEW v, Backwards(v, c, n), n > Len(c)
  PROVE  v = Reverse(c)
<1>1. Len(c) \in Nat /\ IsList(v) /\ Len(v) \in Nat /\ Len(v) + 1 = n /\ n <= Len(c) + 1
  BY ListFacts DEF Backwards
<1>2. Len(v) = Len(c) /\ n = Len(c) + 1
  BY <1>1
<1>3. IsList(Reverse(c)) /\ Len(Reverse(c)) = Len(c) /\ \A i \in 1 .. Len(c) : Reverse(c)[i] = c[Len(c) - i + 1]
  BY ReverseFacts
<1>4. ASSUME NEW i \in 1 .. Len(c)
      PROVE  v[i] = Reverse(c)[i]
  <2>1. i \in 1 .. n - 1 /\ n - i = Len(c) - i + 1
    BY <1>1, <1>2
  <2> QED
    BY <1>3, <2>1 DEF Backwards
<1> QED
  BY <1>1, <1>2, <1>3, <1>4, ListsEqual

\* The one element that has a tag
LEMMA OnlyOne ==
  ASSUME NEW S, NEW x \in S, \A y \in S : y = x
  PROVE  (CHOOSE y \in S : TRUE) = x
OBVIOUS

LEMMA GotNone ==
  ASSUME NEW d, IsList(d)
  PROVE  GotSoFar([s \in Sections |-> <<>>], d, 1)
<1>1. \A i \in DOMAIN d : ~(i < 1)
  BY ListFacts
<1> QED
  BY <1>1 DEF GotSoFar

\* A section is read
LEMMA GotOne ==
  ASSUME NEW d, IsList(d), \A i, j \in DOMAIN d : d[i].tag = d[j].tag => i = j,
         NEW n \in DOMAIN d, d[n].tag \in Sections,
         NEW g, GotSoFar(g, d, n), g = [sec \in Sections |-> g[sec]],
         NEW h, h = [g EXCEPT ![d[n].tag] = Reverse(Meanings(d[n]))]
  PROVE  GotSoFar(h, d, n + 1)
<1>1. PICK t, x : t = d[n].tag /\ x = Reverse(Meanings(d[n]))
  OBVIOUS
<1>2. h[t] = x /\ \A sec \in Sections : sec # t => h[sec] = g[sec]
  BY <1>1
<1>3. n < n + 1 /\ \A i \in DOMAIN d : i < n + 1 => i < n \/ i = n
  BY ListFacts
<1>4. ASSUME NEW sec \in Sections
      PROVE  /\ \A i \in DOMAIN d : i < n + 1 /\ d[i].tag = sec => h[sec] = Reverse(Meanings(d[i]))
             /\ NoneBefore(d, n + 1, sec) => h[sec] = <<>>
  <2>1. CASE sec = t
    <3>1. \A i \in DOMAIN d : d[i].tag = sec => i = n
      BY <1>1, <2>1
    <3>2. h[sec] = Reverse(Meanings(d[n]))
      BY <1>1, <1>2, <2>1
    <3>3. ~NoneBefore(d, n + 1, sec)
      BY <1>1, <1>3, <2>1 DEF NoneBefore
    <3> QED
      BY <3>1, <3>2, <3>3
  <2>2. CASE sec # t
    <3>1. h[sec] = g[sec] /\ d[n].tag # sec
      BY <1>1, <1>2, <2>2
    <3>2. NoneBefore(d, n + 1, sec) => NoneBefore(d, n, sec)
      BY <1>3, ListFacts DEF NoneBefore
    <3> QED
      BY <1>3, <3>1, <3>2 DEF GotSoFar
  <2> QED
    BY <2>1, <2>2
<1> QED
  BY <1>4 DEF GotSoFar

LEMMA MeantNone ==
  ASSUME NEW sec, NEW value, Fresh(sec, value), NEW f, IsList(f.content), NEW t \in Section[sec].tags
  PROVE  Meant(value[t], f, 1, t)
<1>1. \A i \in DOMAIN f.content : ~(i < 1)
  BY ListFacts
<1> QED
  BY <1>1 DEF Meant, Fresh

\* An element is read: it is the one of its tag
LEMMA MeantOne ==
  ASSUME NEW f, IsList(f.content), \A i, j \in DOMAIN f.content : f.content[i].tag = f.content[j].tag => i = j,
         NEW n \in DOMAIN f.content, NEW t, NEW v,
         IF t = f.content[n].tag
         THEN v = IF t = "INDEXAGE" THEN Reverse(WordsOf(f.content[n])) ELSE Value(f.content[n])
         ELSE Meant(v, f, n, t)
  PROVE  Meant(v, f, n + 1, t)
<1>1. n < n + 1 /\ \A i \in DOMAIN f.content : i < n + 1 => i < n \/ i = n
  BY ListFacts
<1>2. CASE t = f.content[n].tag
  <2>1. \A i \in DOMAIN f.content : f.content[i].tag = t => i = n
    BY <1>2
  <2>2. ~NoneBefore(f.content, n + 1, t)
    BY <1>1, <1>2 DEF NoneBefore
  <2> QED
    BY <1>2, <2>1, <2>2 DEF Meant
<1>3. CASE t # f.content[n].tag
  <2>1. NoneBefore(f.content, n + 1, t) => NoneBefore(f.content, n, t)
    BY <1>1, ListFacts DEF NoneBefore
  <2>2. Meant(v, f, n, t)
    BY <1>3
  <2> QED
    BY <1>1, <1>3, <2>1, <2>2 DEF Meant
<1> QED
  BY <1>2, <1>3

\* After a file the variables hold what it means, and it is complete
LEMMA MeantAll ==
  ASSUME NEW sec \in Sections, NEW f, DtdFile(sec, f), IsFile(sec, f),
         NEW value, value = [t \in Section[sec].tags |-> value[t]], NEW n \in Nat, n > Len(f.content),
         \A t \in Section[sec].tags : Meant(value[t], f, n, t)
  PROVE  value = Meaning(sec, f) /\ Complete(sec, value)
<1>1. IsList(f.content) /\ \A i, j \in DOMAIN f.content : f.content[i].tag = f.content[j].tag => i = j
  BY DEF DtdFile, IsFile
<1>2. \A i \in DOMAIN f.content : i < n
  <2>1. PICK l \in Nat : l = Len(f.content) /\ DOMAIN f.content = 1 .. l
    BY <1>1, ListFacts
  <2> QED
    BY <2>1
<1>3. ASSUME NEW i \in DOMAIN f.content, f.content[i].tag \in Section[sec].tags
      PROVE  value[f.content[i].tag] = IF f.content[i].tag = "INDEXAGE" THEN Reverse(WordsOf(f.content[i]))
                                       ELSE Value(f.content[i])
  <2>1. Meant(value[f.content[i].tag], f, n, f.content[i].tag) /\ i < n
    BY <1>2, <1>3
  <2> QED
    BY <2>1 DEF Meant
<1>4. ASSUME NEW t \in Section[sec].tags, \A i \in DOMAIN f.content : f.content[i].tag # t
      PROVE  t \in Section[sec].free /\ value[t] = "" /\ t # "INDEXAGE"
  <2>1. t \notin {f.content[i].tag : i \in DOMAIN f.content}
    BY <1>4
  <2>2. t \in Section[sec].free \ {"TAILLE"}
    BY <2>1 DEF DtdFile
  <2>3. t = "NEWPATH"
    BY <2>2, SectionFacts
  <2>4. NoneBefore(f.content, n, t)
    BY <1>4 DEF NoneBefore
  <2> QED
    BY <2>2, <2>3, <2>4 DEF Meant
<1>5. ASSUME NEW t \in Section[sec].tags
      PROVE  value[t] = Meaning(sec, f)[t]
  <2>1. Meaning(sec, f)[t] = MeaningOf(t, f)
    BY DEF Meaning
  <2>2. CASE Own(t, f) = {}
    <3>1. MeaningOf(t, f) = ""
      BY <2>2 DEF MeaningOf
    <3>2. value[t] = ""
      BY <1>4, <2>2 DEF Own
    <3> QED
      BY <2>1, <3>1, <3>2
  <2>3. CASE Own(t, f) # {}
    <3>1. PICK i \in DOMAIN f.content : f.content[i].tag = t
      BY <2>3 DEF Own
    <3>2. TheOwn(t, f) = f.content[i]
      <4>1. i \in Own(t, f) /\ \A y \in Own(t, f) : y = i
        BY <1>1, <3>1 DEF Own
      <4> QED
        BY <4>1, OnlyOne DEF TheOwn
    <3>3. value[t] = IF t = "INDEXAGE" THEN Reverse(WordsOf(f.content[i])) ELSE Value(f.content[i])
      BY <1>3, <3>1
    <3>4. MeaningOf(t, f) = IF t = "INDEXAGE" THEN Reverse(WordsOf(f.content[i])) ELSE Value(f.content[i])
      BY <2>3, <3>2, Zenon DEF MeaningOf
    <3> QED
      BY <2>1, <3>3, <3>4
  <2> QED
    BY <2>2, <2>3
<1>6. value = Meaning(sec, f)
  <2>1. PICK m : m = Meaning(sec, f)
    OBVIOUS
  <2>2. m = [t \in Section[sec].tags |-> m[t]]
    BY <2>1 DEF Meaning
  <2>3. \A t \in Section[sec].tags : value[t] = m[t]
    BY <1>5, <2>1
  <2> QED
    BY <2>1, <2>2, <2>3
<1>7. ASSUME NEW t \in Section[sec].tags \ Section[sec].free
      PROVE  IF t = "INDEXAGE" THEN value[t] # <<>> ELSE value[t] # ""
  <2>1. PICK i \in DOMAIN f.content : f.content[i].tag = t
    BY <1>4
  <2>2. f.content[i].content # <<>>
    BY DEF DtdFile
  <2>3. CASE t = "INDEXAGE"
    <3>1. PICK c : c = f.content[i].content
      OBVIOUS
    <3>2. IsList(c) /\ c # <<>>
      BY <2>1, <2>2, <2>3, <3>1 DEF IsFile
    <3>3. PICK w : w = WordsOf(f.content[i])
      OBVIOUS
    <3>4. w = [k \in DOMAIN c |-> w[k]]
      BY <3>1, <3>3 DEF WordsOf
    <3>5. IsList(w) /\ Len(w) = Len(c)
      BY <3>2, <3>4, MappedFacts
    <3>6. Len(Reverse(w)) # 0 /\ IsList(Reverse(w))
      BY <3>2, <3>5, ListFacts, ReverseFacts
    <3>7. Reverse(w) # <<>>
      BY <3>6, NoElement
    <3> QED
      BY <1>3, <2>1, <2>3, <3>3, <3>7
  <2>4. CASE t # "INDEXAGE"
    <3>1. f.content[i].content[1] # ""
      BY <2>1, <2>2, <2>4 DEF IsFile
    <3>2. t \notin {"TAILLE", "DAY", "YEAR", "SIZE"}
      BY DEF Section, Sections, Both
    <3>3. Value(f.content[i]) # ""
      BY <2>1, <3>1, <3>2 DEF Value
    <3> QED
      BY <1>3, <2>1, <2>4, <3>3
  <2> QED
    BY <2>3, <2>4
<1> QED
  BY <1>6, <1>7 DEF Complete

LEMMA MeaningsFacts ==
  ASSUME NEW e, IsList(e.content)
  PROVE  /\ IsList(Meanings(e)) /\ Len(Meanings(e)) = Len(e.content) /\ DOMAIN Meanings(e) = DOMAIN e.content
         /\ IsList(WordsOf(e)) /\ Len(WordsOf(e)) = Len(e.content) /\ DOMAIN WordsOf(e) = DOMAIN e.content
<1>1. PICK m, w : m = Meanings(e) /\ w = WordsOf(e)
  OBVIOUS
<1>2. m = [i \in DOMAIN e.content |-> m[i]] /\ w = [i \in DOMAIN e.content |-> w[i]]
  BY <1>1 DEF Meanings, WordsOf
<1> QED
  BY <1>1, <1>2, MappedFacts

\* Where the parser of a document of the DTD is
LEMMA DtdPlace ==
  ASSUME Place, Kind = "indexation", Dtd
  PROVE  /\ IsList(Document) /\ \A i, j \in DOMAIN Document : Document[i].tag = Document[j].tag => i = j
         /\ \A i \in DOMAIN Document : Document[i].tag \in Sections
         /\ pc \in {"section", "file", "words"} =>
              /\ tagDepth[1] \in DOMAIN Document /\ Tag1.tag \in Sections /\ IsList(Tag1.content)
              /\ tagDepth[2] <= Len(Tag1.content) => tagDepth[2] \in DOMAIN Tag1.content /\ DtdFile(Tag1.tag, Tag2)
         /\ pc \in {"file", "words"} =>
              /\ tagDepth[2] \in DOMAIN Tag1.content /\ DtdFile(Tag1.tag, Tag2) /\ IsFile(Tag1.tag, Tag2) /\ IsList(Tag2.content)
              /\ tagDepth[3] <= Len(Tag2.content) =>
                   tagDepth[3] \in DOMAIN Tag2.content /\ Tag3.tag \in Section[Tag1.tag].tags /\ Tag3.content # <<>>
         /\ pc = "words" =>
              /\ tagDepth[3] \in DOMAIN Tag2.content /\ Tag3.tag = "INDEXAGE" /\ "INDEXAGE" \in Section[Tag1.tag].tags
              /\ IsList(Tag3.content)
              /\ tagDepth[4] <= Len(Tag3.content) =>
                   /\ tagDepth[4] \in DOMAIN Tag3.content /\ Tag3.content[tagDepth[4]].tag = "MOT"
                   /\ Tag3.content[tagDepth[4]].content # <<>> /\ Tag3.content[tagDepth[4]].freq # <<>>
<1>1. Indexing /\ tagDepth \in [1 .. 4 -> Nat \ {0}]
  BY DEF Indexing, Place
<1>2. IsList(Document) /\ \A i, j \in DOMAIN Document : Document[i].tag = Document[j].tag => i = j
  BY <1>1, IndexingDocument DEF Dtd
<1>3. \A i \in DOMAIN Document : Document[i].tag \in Sections
  BY DEF Dtd
<1>4. ASSUME pc \in {"section", "file", "words"}
      PROVE  /\ tagDepth[1] \in DOMAIN Document /\ Tag1.tag \in Sections /\ IsList(Tag1.content)
             /\ tagDepth[2] <= Len(Tag1.content) => tagDepth[2] \in DOMAIN Tag1.content /\ DtdFile(Tag1.tag, Tag2)
  <2>1. tagDepth[1] \in DOMAIN Document /\ Tag1.tag \in Sections /\ IsList(Tag1.content)
    BY <1>1, <1>4, IndexingDocument
  <2>2. ASSUME tagDepth[2] <= Len(Tag1.content)
        PROVE  tagDepth[2] \in DOMAIN Tag1.content /\ DtdFile(Tag1.tag, Tag2)
    <3>1. tagDepth[2] \in DOMAIN Tag1.content
      BY <1>1, <2>1, <2>2, ListFacts
    <3> QED
      BY <2>1, <3>1 DEF Dtd, Tag1, Tag2
  <2> QED
    BY <2>1, <2>2
<1>5. ASSUME pc \in {"file", "words"}
      PROVE  /\ tagDepth[2] \in DOMAIN Tag1.content /\ DtdFile(Tag1.tag, Tag2) /\ IsFile(Tag1.tag, Tag2) /\ IsList(Tag2.content)
             /\ tagDepth[3] <= Len(Tag2.content) =>
                  tagDepth[3] \in DOMAIN Tag2.content /\ Tag3.tag \in Section[Tag1.tag].tags /\ Tag3.content # <<>>
  <2>1. tagDepth[2] \in DOMAIN Tag1.content /\ IsFile(Tag1.tag, Tag2) /\ IsList(Tag2.content) /\ DtdFile(Tag1.tag, Tag2)
    BY <1>1, <1>4, <1>5, IndexingDocument DEF Place
  <2>2. ASSUME tagDepth[3] <= Len(Tag2.content)
        PROVE  tagDepth[3] \in DOMAIN Tag2.content /\ Tag3.tag \in Section[Tag1.tag].tags /\ Tag3.content # <<>>
    <3>1. tagDepth[3] \in DOMAIN Tag2.content
      BY <1>1, <2>1, <2>2, ListFacts
    <3>2. Tag3.tag \in {Tag2.content[i].tag : i \in DOMAIN Tag2.content}
      BY <3>1 DEF Tag3
    <3>3. {Tag2.content[i].tag : i \in DOMAIN Tag2.content} \subseteq Section[Tag1.tag].tags
      BY <2>1 DEF DtdFile
    <3>4. Tag3.content # <<>>
      BY <2>1, <3>1 DEF DtdFile, Tag3
    <3> QED
      BY <3>1, <3>2, <3>3, <3>4
  <2> QED
    BY <2>1, <2>2
<1>6. ASSUME pc = "words"
      PROVE  /\ tagDepth[3] \in DOMAIN Tag2.content /\ Tag3.tag = "INDEXAGE" /\ "INDEXAGE" \in Section[Tag1.tag].tags
             /\ IsList(Tag3.content)
             /\ tagDepth[4] <= Len(Tag3.content) =>
                  /\ tagDepth[4] \in DOMAIN Tag3.content /\ Tag3.content[tagDepth[4]].tag = "MOT"
                  /\ Tag3.content[tagDepth[4]].content # <<>> /\ Tag3.content[tagDepth[4]].freq # <<>>
  <2>1. /\ tagDepth[3] \in DOMAIN Tag2.content /\ Tag3.tag = "INDEXAGE" /\ "INDEXAGE" \in Section[Tag1.tag].tags
        /\ IsList(Tag3.content)
    BY <1>1, <1>6, IndexingDocument DEF Place
  <2>2. ASSUME tagDepth[4] <= Len(Tag3.content)
        PROVE  /\ tagDepth[4] \in DOMAIN Tag3.content /\ Tag3.content[tagDepth[4]].tag = "MOT"
               /\ Tag3.content[tagDepth[4]].content # <<>> /\ Tag3.content[tagDepth[4]].freq # <<>>
    <3>1. tagDepth[4] \in DOMAIN Tag3.content
      BY <1>1, <2>1, <2>2, ListFacts
    <3>2. \A k \in DOMAIN Tag3.content : /\ Tag3.content[k].tag = "MOT" /\ Tag3.content[k].content # <<>>
                                         /\ Tag3.content[k].freq # <<>>
      BY <1>5, <1>6, <2>1 DEF DtdFile, Tag3
    <3> QED
      BY <3>1, <3>2
  <2> QED
    BY <2>1, <2>2
<1> QED
  BY <1>2, <1>3, <1>4, <1>5, <1>6

\* A file that the DTD means is put in front, and the local variables are fresh
LEMMA DtdFileLeft ==
  ASSUME Place, SectionsRead, DtdSoFar, Kind = "indexation", Dtd, LeaveFile
  PROVE  Backwards(cur'.files, Meanings(Tag1), tagDepth[2] + 1)
<1>1. Indexing /\ tagDepth \in [1 .. 4 -> Nat \ {0}]
  BY DEF Indexing, Place
<1>2. pc = "file" /\ tagDepth[3] > Len(Tag2.content)
  BY ReadSectionSteps
<1>3. InSection(cur, Tag1)
  BY <1>1, <1>2 DEF SectionsRead
<1>4. PICK x : x = IF Complete(Tag1.tag, cur.value) THEN <<cur.value>> \o cur.files ELSE cur.files
  OBVIOUS
<1>5. cur' = [value |-> Forget(cur.value), freq |-> cur.freq, files |-> x]
  BY <1>3, <1>4, LeaveFileLocals
<1>6. cur'.files = x
  BY <1>5
<1>7. PICK sec, value, f, n, k : sec = Tag1.tag /\ value = cur.value /\ f = Tag2 /\ n = tagDepth[3] /\ k = tagDepth[2]
  OBVIOUS
<1>8. /\ sec \in Sections /\ DtdFile(sec, f) /\ IsFile(sec, f) /\ n \in Nat /\ n > Len(f.content)
      /\ k \in DOMAIN Tag1.content /\ f = Tag1.content[k] /\ IsList(Tag1.content)
  BY <1>1, <1>2, <1>7, DtdPlace DEF Tag2
<1>9. value = [t \in Section[sec].tags |-> value[t]] /\ \A t \in Section[sec].tags : Meant(value[t], f, n, t)
  BY <1>2, <1>3, <1>7 DEF InSection, DtdSoFar
<1>10. value = Meaning(sec, f) /\ Complete(sec, value)
  BY <1>8, <1>9, MeantAll
<1>11. value = Meanings(Tag1)[k]
  BY <1>7, <1>8, <1>10 DEF Meanings
<1>12. PICK files, c : files = cur.files /\ c = Meanings(Tag1)
  OBVIOUS
<1>13. Backwards(files, c, k)
  BY <1>2, <1>7, <1>12 DEF DtdSoFar
<1>14. x = <<c[k]>> \o files
  BY <1>4, <1>7, <1>10, <1>11, <1>12
<1>15. IsList(c) /\ k \in DOMAIN c
  BY <1>8, <1>12, MeaningsFacts
<1>16. Backwards(x, c, k + 1)
  BY <1>13, <1>14, <1>15, BackwardsOne
<1> QED
  BY <1>6, <1>7, <1>12, <1>16

LEMMA DtdStep ==
  ASSUME Place, SectionsRead, DtdSoFar, [Next]_vars, Kind = "indexation", Dtd, UNCHANGED msg
  PROVE  DtdSoFar'
<1>1. /\ tagDepth \in [1 .. 4 -> Nat \ {0}] /\ Indexing /\ ~Searching /\ ~Answering
      /\ pc \in {"send", "root", "section", "file", "words", "done"}
  BY DEF Place, Indexing, Searching, Answering, DtdSoFar
<1>2. PICK d, n : d = Document /\ n = tagDepth[1]
  OBVIOUS
<1>3. /\ pc = "send" => n = 1
      /\ pc # "send" => GotSoFar(got, d, n)
      /\ pc = "done" => n > Len(d)
      /\ pc \in {"section", "file", "words"} => Backwards(cur.files, Meanings(Tag1), tagDepth[2])
      /\ pc \in {"file", "words"} =>
           \A t \in Section[Tag1.tag].tags : pc = "file" \/ t # "INDEXAGE" => Meant(cur.value[t], Tag2, tagDepth[3], t)
      /\ pc = "words" => Backwards(cur.value["INDEXAGE"], WordsOf(Tag3), tagDepth[4])
  BY <1>2 DEF DtdSoFar
<1>4. Document' = d /\ Kind' = Kind
  BY <1>2, Unmoved
<1>5. IsList(d) /\ Len(d) \in Nat /\ DOMAIN d = 1 .. Len(d) /\ n \in Nat \ {0}
  BY <1>1, <1>2, DtdPlace, ListFacts
<1>6. CASE UNCHANGED vars
  <2>1. UNCHANGED <<pc, tagDepth, cur, got>>
    BY <1>6 DEF vars
  <2>2. Tag1' = Tag1 /\ Tag2' = Tag2 /\ Tag3' = Tag3
    BY <2>1, Unmoved
  <2> QED
    BY <1>1, <1>2, <1>3, <1>4, <2>1, <2>2 DEF DtdSoFar
<1>7. CASE Send
  <2>1. pc = "send" /\ pc' = "root" /\ UNCHANGED tagDepth /\ got' = [s \in Sections |-> <<>>]
    BY <1>1, <1>7 DEF Send
  <2>2. GotSoFar(got', d, n)
    BY <1>3, <1>5, <2>1, GotNone
  <2> QED
    BY <1>2, <1>4, <2>1, <2>2 DEF DtdSoFar
<1>8. CASE EndOfDocument
  <2>1. pc = "root" /\ n > Len(d) /\ pc' = "done" /\ UNCHANGED <<tagDepth, got>>
    BY <1>1, <1>2, <1>8, EndSteps
  <2> QED
    BY <1>2, <1>3, <1>4, <2>1 DEF DtdSoFar
<1>9. CASE EnterSection
  <2>1. pc = "root" /\ n <= Len(d) /\ Tag1.tag \in Sections /\ Enter("section") /\ UNCHANGED got
    BY <1>2, <1>9, ReadSectionSteps
  <2>2. PICK g, h \in Garbage : cur' = Locals(Tag1.tag, g, h)
    BY <1>9, ReadSectionSteps
  <2>3. pc' = "section" /\ Tag1' = Tag1 /\ tagDepth'[1] = n /\ tagDepth'[2] = 1
    BY <1>1, <1>2, <2>1, Moves, LoopFacts, Unmoved
  <2>4. IsList(Meanings(Tag1))
    <3>1. n \in DOMAIN d
      BY <1>5, <2>1
    <3>2. IsList(Tag1.content)
      BY <1>1, <1>2, <2>1, <3>1, IndexingDocument DEF IsIndexation, Tag1
    <3> QED
      BY <3>2, MeaningsFacts
  <2>5. cur'.files = <<>>
    BY <2>2 DEF Locals
  <2>6. Backwards(cur'.files, Meanings(Tag1), 1)
    BY <2>4, <2>5, BackwardsNone
  <2> QED
    BY <1>2, <1>3, <1>4, <2>1, <2>3, <2>6 DEF DtdSoFar
<1>10. CASE EnterFile
  <2>1. /\ pc = "section" /\ Enter("file") /\ UNCHANGED <<cur, got>>
    BY <1>10, ReadSectionSteps
  <2>2. /\ pc' = "file" /\ Tag1' = Tag1 /\ Tag2' = Tag2 /\ tagDepth'[1] = n /\ tagDepth'[2] = tagDepth[2] /\ tagDepth'[3] = 1
    BY <1>1, <1>2, <2>1, Moves, LoopFacts, Unmoved
  <2>3. IsList(Tag2.content) /\ Fresh(Tag1.tag, cur.value)
    BY <1>1, <1>10, <2>1, ReadSectionSteps, IndexingDocument DEF SectionsRead
  <2>4. \A t \in Section[Tag1.tag].tags : Meant(cur.value[t], Tag2, 1, t)
    BY <2>3, MeantNone
  <2> QED
    BY <1>2, <1>3, <1>4, <2>1, <2>2, <2>4 DEF DtdSoFar
<1>11. CASE ReadText
  <2>1. /\ pc = "file" /\ tagDepth[3] <= Len(Tag2.content)
        /\ Tag3.tag \in Section[Tag1.tag].tags \ {"INDEXAGE"}
        /\ cur' = [cur EXCEPT !.value[Tag3.tag] = Value(Tag3)] /\ pc' = "file" /\ UNCHANGED got
        /\ tagDepth' = [tagDepth EXCEPT ![3] = IF Tag1.tag = "SUPPRESSIONS" THEN Len(Tag2.content) + 1
                                                ELSE tagDepth[3] + 1]
    BY <1>11, ReadSectionSteps
  <2>2. PICK i, f, sec : i = tagDepth[3] /\ f = Tag2 /\ sec = Tag1.tag /\ Tag3 = f.content[i]
    BY DEF Tag3
  <2>3. /\ sec \in Sections /\ IsList(f.content) /\ i \in DOMAIN f.content /\ DtdFile(sec, f)
        /\ \A j, k \in DOMAIN f.content : f.content[j].tag = f.content[k].tag => j = k
    BY <2>1, <2>2, DtdPlace DEF DtdFile
  <2>4. sec = "SUPPRESSIONS" => i = Len(f.content)
    <3>1. ASSUME sec = "SUPPRESSIONS"
          PROVE  i = Len(f.content)
      <4>1. {f.content[j].tag : j \in DOMAIN f.content} \subseteq {"PATH"}
        BY <2>3, <3>1, SectionFacts DEF DtdFile
      <4>2. \A j \in DOMAIN f.content : f.content[j].tag = "PATH"
        BY <4>1
      <4>3. \A j \in DOMAIN f.content : j = i
        BY <2>3, <4>2
      <4>4. PICK l \in Nat : l = Len(f.content) /\ DOMAIN f.content = 1 .. l /\ l # 0
        BY <2>3, ListFacts
      <4>5. l \in DOMAIN f.content
        BY <4>4
      <4> QED
        BY <4>3, <4>4, <4>5
    <3> QED
      BY <3>1
  <2>5. tagDepth' = [tagDepth EXCEPT ![3] = i + 1]
    <3>1. CASE sec = "SUPPRESSIONS"
      BY <2>1, <2>2, <2>4, <3>1
    <3>2. CASE sec # "SUPPRESSIONS"
      BY <2>1, <2>2, <3>2
    <3> QED
      BY <3>1, <3>2
  <2>6. Tag1' = Tag1 /\ Tag2' = Tag2 /\ tagDepth'[1] = n /\ tagDepth'[2] = tagDepth[2] /\ tagDepth'[3] = i + 1
    BY <1>1, <1>2, <2>5, Unmoved
  <2>7. PICK value : value = cur.value
    OBVIOUS
  <2>8. cur'.value = [value EXCEPT ![f.content[i].tag] = Value(f.content[i])] /\ cur'.files = cur.files
    <3>1. PICK t, x : t = Tag3.tag /\ x = Value(Tag3)
      OBVIOUS
    <3>2. cur' = [cur EXCEPT !.value[t] = x]
      BY <2>1, <3>1
    <3>3. cur = [value |-> cur.value, freq |-> cur.freq, files |-> cur.files]
      BY <1>1, <2>1 DEF SectionsRead, InSection
    <3>4. cur' = [value |-> [cur.value EXCEPT ![t] = x], freq |-> cur.freq, files |-> cur.files]
      BY <3>2, <3>3
    <3> QED
      BY <2>2, <2>7, <3>1, <3>4
  <2>9. value = [t \in Section[sec].tags |-> value[t]] /\ \A t \in Section[sec].tags : Meant(value[t], f, i, t)
    BY <1>1, <1>3, <2>1, <2>2, <2>7 DEF SectionsRead, InSection
  <2>10. ASSUME NEW t \in Section[sec].tags
         PROVE  Meant(cur'.value[t], f, i + 1, t)
    <3>1. PICK v : v = cur'.value[t]
      OBVIOUS
    <3>2. CASE t = f.content[i].tag
      <4>1. v = Value(f.content[i]) /\ t # "INDEXAGE"
        BY <2>1, <2>2, <2>8, <2>9, <3>1, <3>2
      <4> QED
        BY <2>3, <3>1, <3>2, <4>1, MeantOne
    <3>3. CASE t # f.content[i].tag
      <4>1. v = value[t] /\ Meant(v, f, i, t)
        BY <2>8, <2>9, <3>1, <3>3
      <4> QED
        BY <2>3, <3>1, <3>3, <4>1, MeantOne
    <3> QED
      BY <3>2, <3>3
  <2> QED
    BY <1>2, <1>3, <1>4, <2>1, <2>2, <2>6, <2>8, <2>10 DEF DtdSoFar
<1>12. CASE EnterWords
  <2>1. /\ pc = "file" /\ tagDepth[3] <= Len(Tag2.content) /\ Tag3.tag = "INDEXAGE" /\ Tag3.tag \in Section[Tag1.tag].tags
        /\ Enter("words") /\ UNCHANGED <<cur, got>>
    BY <1>12, ReadSectionSteps
  <2>2. /\ pc' = "words" /\ Tag1' = Tag1 /\ Tag2' = Tag2 /\ Tag3' = Tag3 /\ tagDepth'[1] = n /\ tagDepth'[2] = tagDepth[2]
        /\ tagDepth'[3] = tagDepth[3] /\ tagDepth'[4] = 1
    BY <1>1, <1>2, <2>1, Moves, LoopFacts, Unmoved
  <2>3. PICK i, f, sec, v : i = tagDepth[3] /\ f = Tag2 /\ sec = Tag1.tag /\ Tag3 = f.content[i] /\ v = cur.value["INDEXAGE"]
    BY DEF Tag3
  <2>4. /\ sec \in Sections /\ IsList(f.content) /\ i \in DOMAIN f.content /\ DtdFile(sec, f) /\ IsFile(sec, f)
        /\ \A j, k \in DOMAIN f.content : f.content[j].tag = f.content[k].tag => j = k
    BY <2>1, <2>3, DtdPlace DEF DtdFile
  <2>5. IsList(f.content[i].content)
    BY <2>1, <2>3, <2>4 DEF IsFile
  <2>6. v = <<>>
    <3>1. ASSUME NEW j \in DOMAIN f.content, j < i
          PROVE  f.content[j].tag # "INDEXAGE"
      <4>1. j # i
        BY <2>4, <3>1, ListFacts
      <4> QED
        BY <2>1, <2>3, <2>4, <4>1
    <3>2. NoneBefore(f.content, i, "INDEXAGE")
      BY <3>1 DEF NoneBefore
    <3>3. Meant(v, f, i, "INDEXAGE")
      BY <1>3, <2>1, <2>3
    <3> QED
      BY <3>2, <3>3 DEF Meant
  <2>7. Backwards(v, WordsOf(f.content[i]), 1)
    BY <2>5, <2>6, MeaningsFacts, BackwardsNone
  <2> QED
    BY <1>2, <1>3, <1>4, <2>1, <2>2, <2>3, <2>7 DEF DtdSoFar
<1>13. CASE ReadWord
  <2>1. /\ pc = "words" /\ tagDepth[4] <= Len(Tag3.content) /\ Onward("words") /\ UNCHANGED got
    BY <1>13, ReadWordSteps
  <2>2. PICK q : /\ Tag3.content[tagDepth[4]].freq # <<>> => q = Tag3.content[tagDepth[4]].freq[1]
                 /\ cur' = [cur EXCEPT
                              !.value["INDEXAGE"] = <<[word |-> Tag3.content[tagDepth[4]].content[1], freq |-> q]>> \o @,
                              !.freq = 0]
    BY <1>13, ReadWordSteps
  <2>3. /\ pc' = "words" /\ Tag1' = Tag1 /\ Tag2' = Tag2 /\ Tag3' = Tag3 /\ tagDepth'[1] = n /\ tagDepth'[2] = tagDepth[2]
        /\ tagDepth'[3] = tagDepth[3] /\ tagDepth'[4] = tagDepth[4] + 1
    BY <1>1, <1>2, <2>1, Moves, LoopFacts, Unmoved
  <2>4. PICK w, e, sec : w = tagDepth[4] /\ e = Tag3 /\ sec = Tag1.tag
    OBVIOUS
  <2>5. w \in DOMAIN e.content /\ IsList(e.content) /\ e.content[w].freq # <<>> /\ "INDEXAGE" \in Section[sec].tags
    BY <2>1, <2>4, DtdPlace
  <2>6. PICK x : x = [word |-> e.content[w].content[1], freq |-> q]
    OBVIOUS
  <2>7. x = WordsOf(e)[w]
    BY <2>2, <2>4, <2>5, <2>6 DEF WordsOf
  <2>8. PICK value, v : value = cur.value /\ v = cur.value["INDEXAGE"]
    OBVIOUS
  <2>9. PICK u : u = <<x>> \o v
    OBVIOUS
  <2>10. cur' = [cur EXCEPT !.value["INDEXAGE"] = u, !.freq = 0]
    BY <2>2, <2>4, <2>6, <2>8, <2>9, Zenon
  <2>11. cur'.value = [value EXCEPT !["INDEXAGE"] = u] /\ cur'.files = cur.files
    <3>1. PICK y : y = [value EXCEPT !["INDEXAGE"] = u]
      OBVIOUS
    <3>2. cur' = [cur EXCEPT !.value = y, !.freq = 0]
      BY <2>8, <2>10, <3>1, Zenon
    <3>3. cur = [value |-> cur.value, freq |-> cur.freq, files |-> cur.files]
      BY <1>1, <2>1 DEF SectionsRead, InSection
    <3>4. cur' = [value |-> y, freq |-> 0, files |-> cur.files]
      BY <3>2, <3>3, TwoFields, Zenon
    <3> QED
      BY <3>1, <3>4
  <2>12. value = [t \in Section[sec].tags |-> value[t]]
    BY <1>1, <2>1, <2>4, <2>8 DEF SectionsRead, InSection
  <2>13. cur'.value["INDEXAGE"] = u /\ \A t \in Section[sec].tags : t # "INDEXAGE" => cur'.value[t] = cur.value[t]
    BY <2>5, <2>8, <2>11, <2>12
  <2>14. Backwards(u, WordsOf(e), w + 1)
    <3>1. PICK c : c = WordsOf(e)
      OBVIOUS
    <3>2. IsList(c) /\ w \in DOMAIN c
      BY <2>5, <3>1, MeaningsFacts
    <3>3. Backwards(v, c, w)
      BY <1>3, <2>1, <2>4, <2>8, <3>1
    <3>4. u = <<c[w]>> \o v
      BY <2>7, <2>9, <3>1
    <3> QED
      BY <3>1, <3>2, <3>3, <3>4, BackwardsOne
  <2> QED
    BY <1>2, <1>3, <1>4, <2>1, <2>3, <2>4, <2>11, <2>13, <2>14 DEF DtdSoFar
<1>14. CASE LeaveWords
  <2>1. /\ pc = "words" /\ tagDepth[4] > Len(Tag3.content) /\ Onward("file") /\ UNCHANGED <<cur, got>>
    BY <1>14, ReadSectionSteps
  <2>2. /\ pc' = "file" /\ Tag1' = Tag1 /\ Tag2' = Tag2 /\ tagDepth'[1] = n /\ tagDepth'[2] = tagDepth[2]
        /\ tagDepth'[3] = tagDepth[3] + 1
    BY <1>1, <1>2, <2>1, Moves, LoopFacts, Unmoved
  <2>3. PICK i, f, sec, m : i = tagDepth[3] /\ f = Tag2 /\ sec = Tag1.tag /\ Tag3 = f.content[i] /\ m = tagDepth[4]
    BY DEF Tag3
  <2>4. /\ sec \in Sections /\ IsList(f.content) /\ i \in DOMAIN f.content /\ DtdFile(sec, f)
        /\ f.content[i].tag = "INDEXAGE" /\ "INDEXAGE" \in Section[sec].tags /\ IsList(f.content[i].content)
        /\ \A j, k \in DOMAIN f.content : f.content[j].tag = f.content[k].tag => j = k
    BY <2>1, <2>3, DtdPlace DEF DtdFile
  <2>5. cur.value["INDEXAGE"] = Reverse(WordsOf(f.content[i]))
    <3>1. PICK c, v : c = WordsOf(f.content[i]) /\ v = cur.value["INDEXAGE"]
      OBVIOUS
    <3>2. IsList(c) /\ Len(c) = Len(f.content[i].content)
      BY <2>4, <3>1, MeaningsFacts
    <3>3. Backwards(v, c, m) /\ m > Len(c)
      BY <1>3, <2>1, <2>3, <3>1, <3>2
    <3> QED
      BY <3>1, <3>2, <3>3, BackwardsAll
  <2>6. ASSUME NEW t \in Section[sec].tags
        PROVE  Meant(cur.value[t], f, i + 1, t)
    <3>1. PICK v : v = cur.value[t]
      OBVIOUS
    <3>2. CASE t = "INDEXAGE"
      BY <2>4, <2>5, <3>1, <3>2, MeantOne
    <3>3. CASE t # "INDEXAGE"
      <4>1. Meant(v, f, i, t) /\ t # f.content[i].tag
        BY <1>3, <2>1, <2>3, <2>4, <3>1, <3>3
      <4> QED
        BY <2>4, <3>1, <4>1, MeantOne
    <3> QED
      BY <3>2, <3>3
  <2> QED
    BY <1>2, <1>3, <1>4, <2>1, <2>2, <2>3, <2>6 DEF DtdSoFar
<1>15. CASE LeaveFile
  <2>1. /\ pc = "file" /\ Onward("section") /\ UNCHANGED got
    BY <1>15, ReadSectionSteps
  <2>2. /\ pc' = "section" /\ Tag1' = Tag1 /\ tagDepth'[1] = n /\ tagDepth'[2] = tagDepth[2] + 1
    BY <1>1, <1>2, <2>1, Moves, LoopFacts, Unmoved
  <2>3. Backwards(cur'.files, Meanings(Tag1), tagDepth[2] + 1)
    BY <1>15, DtdFileLeft
  <2> QED
    BY <1>2, <1>3, <1>4, <2>1, <2>2, <2>3 DEF DtdSoFar
<1>16. CASE LeaveSection
  <2>1. /\ pc = "section" /\ tagDepth[2] > Len(Tag1.content) /\ Onward("root") /\ got' = [got EXCEPT ![Tag1.tag] = cur.files]
    BY <1>16, ReadSectionSteps
  <2>2. pc' = "root" /\ tagDepth'[1] = n + 1
    BY <1>1, <1>2, <2>1, Moves, LoopFacts
  <2>3. /\ \A i, j \in DOMAIN d : d[i].tag = d[j].tag => i = j
        /\ n \in DOMAIN d /\ Tag1 = d[n] /\ d[n].tag \in Sections /\ IsList(d[n].content)
    BY <1>2, <2>1, DtdPlace DEF Tag1
  <2>4. cur.files = Reverse(Meanings(d[n]))
    <3>1. PICK c, v, m : c = Meanings(d[n]) /\ v = cur.files /\ m = tagDepth[2]
      OBVIOUS
    <3>2. IsList(c) /\ Len(c) = Len(d[n].content)
      BY <2>3, <3>1, MeaningsFacts
    <3>3. Backwards(v, c, m) /\ m > Len(c)
      BY <1>3, <2>1, <2>3, <3>1, <3>2
    <3> QED
      BY <3>1, <3>2, <3>3, BackwardsAll
  <2>5. PICK g, h : g = got /\ h = got'
    OBVIOUS
  <2>6. GotSoFar(g, d, n) /\ g = [sec \in Sections |-> g[sec]]
    BY <1>1, <1>3, <2>1, <2>5 DEF SectionsRead, OwnFiles
  <2>7. h = [g EXCEPT ![d[n].tag] = Reverse(Meanings(d[n]))]
    BY <2>1, <2>3, <2>4, <2>5
  <2>8. GotSoFar(h, d, n + 1)
    BY <1>5, <2>3, <2>6, <2>7, GotOne
  <2> QED
    BY <1>2, <1>4, <2>2, <2>5, <2>8 DEF DtdSoFar
<1>17. ASSUME NEW l \in Loops, Skip(l)
       PROVE  FALSE
  <2>1. /\ pc = l /\ tagDepth[Depth[l]] <= Len(Siblings(l))
        /\ l = "root" => Tag1.tag \notin Nested(l) \cup Texts(l)
        /\ l = "section" => Tag2.tag \notin Nested(l) \cup Texts(l)
        /\ l = "file" => Tag3.tag \notin Nested(l) \cup Texts(l)
        /\ l = "words" => Tag3.content[tagDepth[4]].tag # "MOT"
    BY <1>17, SkipSteps
  <2>2. l \in {"root", "section", "file", "words"}
    BY <1>1, <2>1, LoopFacts
  <2>3. CASE l = "root"
    <3>1. n \in DOMAIN d
      BY <1>2, <1>5, <2>1, <2>3, LoopFacts, SiblingFacts
    <3>2. Tag1.tag \in Sections
      BY <1>2, <3>1, DtdPlace DEF Tag1
    <3> QED
      BY <1>1, <2>1, <2>3, <3>2, NestedFacts
  <2>4. CASE l = "section"
    <3>1. DtdFile(Tag1.tag, Tag2)
      BY <2>1, <2>4, LoopFacts, SiblingFacts, DtdPlace
    <3> QED
      BY <2>1, <2>4, <3>1, NestedFacts DEF DtdFile
  <2>5. CASE l = "file"
    <3>1. Tag3.tag \in Section[Tag1.tag].tags
      BY <2>1, <2>5, LoopFacts, SiblingFacts, DtdPlace
    <3> QED
      BY <2>1, <2>5, <3>1, NestedFacts
  <2>6. CASE l = "words"
    BY <2>1, <2>6, LoopFacts, SiblingFacts, DtdPlace
  <2> QED
    BY <2>2, <2>3, <2>4, <2>5, <2>6
<1>18. ASSUME NEW l \in Loops, UseNull(l)
       PROVE  FALSE
  <2>1. /\ pc = l /\ tagDepth[Depth[l]] <= Len(Siblings(l))
        /\ l = "root" => Tag1.tag \in Texts(l)
        /\ l = "file" => Tag3.content = <<>>
        /\ l = "words" => Tag3.content[tagDepth[4]].content = <<>>
        /\ l # "section"
    BY <1>18, UseNullSteps
  <2>2. l \in {"root", "file", "words"}
    BY <1>1, <2>1, LoopFacts
  <2>3. CASE l = "root"
    BY <1>1, <2>1, <2>3, NestedFacts
  <2>4. CASE l = "file"
    BY <2>1, <2>4, LoopFacts, SiblingFacts, DtdPlace
  <2>5. CASE l = "words"
    BY <2>1, <2>5, LoopFacts, SiblingFacts, DtdPlace
  <2> QED
    BY <2>2, <2>3, <2>4, <2>5
<1>19. ~ReadSearch /\ ~ReadResult
  BY <1>1, ReadSearchSteps, ReadResultSteps DEF ReadSearch, ReadResult
<1> QED
  BY <1>6, <1>7, <1>8, <1>9, <1>10, <1>11, <1>12, <1>13, <1>14, <1>15, <1>16, <1>17, <1>18, <1>19 DEF Next, ReadSection

LEMMA DtdSoFarRead ==
  ASSUME Place, DtdSoFar
  PROVE  DtdRead
<1>1. ASSUME Kind = "indexation", pc \in {"dead", "done"}, Dtd
      PROVE  /\ pc # "dead"
             /\ pc = "done" => \A sec \in Sections :
                  LET files == {s \in DOMAIN Document : Document[s].tag = sec}
                      s     == Document[CHOOSE s \in files : TRUE]
                  IN got[sec] = IF files = {} THEN <<>>
                                ELSE Reverse([f \in DOMAIN s.content |-> Meaning(sec, s.content[f])])
  <2>1. PICK d, n : d = Document /\ n = tagDepth[1]
    OBVIOUS
  <2>2. pc = "done" /\ GotSoFar(got, d, n) /\ n > Len(d) /\ n \in Nat
    BY <1>1, <2>1 DEF DtdSoFar, Place
  <2>3. IsList(d) /\ \A i, j \in DOMAIN d : d[i].tag = d[j].tag => i = j
    BY <1>1, <2>1, DtdPlace
  <2>4. \A i \in DOMAIN d : i < n
    BY <2>2, <2>3, ListFacts
  <2>5. ASSUME NEW sec \in Sections, NEW files, files = {s \in DOMAIN d : d[s].tag = sec}, NEW s, s = d[CHOOSE i \in files : TRUE]
        PROVE  got[sec] = IF files = {} THEN <<>> ELSE Reverse([f \in DOMAIN s.content |-> Meaning(sec, s.content[f])])
    <3>1. CASE files = {}
      <4>1. NoneBefore(d, n, sec)
        BY <2>5, <3>1 DEF NoneBefore
      <4> QED
        BY <2>2, <3>1, <4>1 DEF GotSoFar
    <3>2. CASE files # {}
      <4>1. PICK i \in DOMAIN d : d[i].tag = sec
        BY <2>5, <3>2
      <4>2. i \in files /\ \A y \in files : y = i
        BY <2>3, <2>5, <4>1
      <4>3. s = d[i]
        BY <2>5, <4>2, OnlyOne
      <4>4. got[sec] = Reverse(Meanings(d[i]))
        BY <2>2, <2>4, <4>1 DEF GotSoFar
      <4>5. Meanings(d[i]) = [f \in DOMAIN s.content |-> Meaning(sec, s.content[f])]
        BY <4>1, <4>3 DEF Meanings
      <4> QED
        BY <3>2, <4>4, <4>5
    <3> QED
      BY <3>1, <3>2
  <2> QED
    BY <2>1, <2>2, <2>5, Zenon
<1> QED
  BY <1>1, Zenon DEF DtdRead

----------------------------------------------------------------------------
(* The theorems *)

\* The invariant of the three parsers
Reading == Place /\ SectionsRead /\ DtdSoFar /\ Shapes /\ ResultsRead /\ SearchRead

LEMMA SameMessage ==
  ASSUME [Next]_vars
  PROVE  UNCHANGED msg
BY DEF Next, vars, Send, EndOfDocument, ReadSection, EnterSection, EnterFile, ReadText, EnterWords, ReadWord, LeaveWords,
       LeaveFile, LeaveSection, ReadSearch, ReadCriterion, EnterSlot, EnterDate, ReadDatePart, LeaveDate, LeaveSlot,
       ReadResult, EnterFound, MajField, LeaveFound, Skip, UseNull

LEMMA ReadingInit ==
  ASSUME Init
  PROVE  Reading
<1>1. pc = "send" /\ tagDepth[1] = 1
  BY DEF Init
<1>2. Place
  BY PlaceInit
<1>3. SectionsRead
  BY <1>1 DEF SectionsRead
<1>4. DtdSoFar
  BY <1>1 DEF DtdSoFar
<1>5. Shapes
  BY <1>1 DEF Shapes
<1>6. ResultsRead
  BY <1>1 DEF ResultsRead
<1>7. SearchRead
  BY <1>1 DEF SearchRead
<1> QED
  BY <1>2, <1>3, <1>4, <1>5, <1>6, <1>7 DEF Reading

LEMMA ReadingStep ==
  ASSUME Reading, [Next]_vars
  PROVE  Reading'
<1>1. Place /\ SectionsRead /\ DtdSoFar /\ Shapes /\ ResultsRead /\ SearchRead
  BY DEF Reading
<1>2. UNCHANGED msg
  BY SameMessage
<1>3. Document' = Document /\ Kind' = Kind /\ (Indexing' <=> Indexing)
  BY <1>2, Unmoved
<1>4. (Dtd' <=> Dtd) /\ (WholeSent' <=> WholeSent)
  BY <1>2, <1>3 DEF Dtd, WholeSent
<1>5. Place'
  BY <1>1, PlaceStep
<1>6. SectionsRead'
  <2>1. CASE Indexing
    BY <1>1, <2>1, SectionsReadStep
  <2>2. CASE ~Indexing
    BY <1>3, <2>2 DEF SectionsRead
  <2> QED
    BY <2>1, <2>2
<1>7. DtdSoFar'
  <2>1. CASE Kind = "indexation" /\ Dtd
    BY <1>1, <1>2, <2>1, DtdStep
  <2>2. CASE ~(Kind = "indexation" /\ Dtd)
    BY <1>3, <1>4, <2>2 DEF DtdSoFar
  <2> QED
    BY <2>1, <2>2
<1>8. Shapes'
  BY <1>1, ShapesStep
<1>9. ResultsRead'
  <2>1. CASE WholeSent
    BY <1>1, <2>1, ResultsReadStep
  <2>2. CASE ~WholeSent
    BY <1>4, <2>2 DEF ResultsRead
  <2> QED
    BY <2>1, <2>2
<1>10. SearchRead'
  <2>1. CASE Kind = "search" /\ WholeSearch(msg.what)
    BY <1>1, <2>1, SearchReadStep
  <2>2. CASE ~(Kind = "search" /\ WholeSearch(msg.what))
    BY <1>2, <1>3, <2>2 DEF SearchRead
  <2> QED
    BY <2>1, <2>2
<1> QED
  BY <1>5, <1>6, <1>7, <1>8, <1>9, <1>10 DEF Reading

\* The invariant of the parsers is one of every document, every depth of its loops and
\* every value the uninitialised variables may hold
THEOREM ReadingInvariant == Spec => []Reading
<1>1. Init => Reading
  BY ReadingInit
<1>2. Reading /\ [Next]_vars => Reading'
  BY ReadingStep
<1> QED
  BY <1>1, <1>2, PTL DEF Spec

\* Whatever is sent, what is read has the shape of its kind: the files are complete and
\* the dates of a search are valid
THEOREM TypeCorrect == Spec => []TypeOK
<1>1. Reading => TypeOK
  BY ShapesType DEF Reading
<1> QED
  BY <1>1, ReadingInvariant, PTL

\* No file that is read has a text or a word of another file
THEOREM OwnTextsHolds == Spec => []OwnTexts
<1>1. Reading => OwnTexts
  BY SectionsReadOwn DEF Reading
<1> QED
  BY <1>1, ReadingInvariant, PTL

\* A document of the DTD of any length is read whole
THEOREM DtdReadHolds == Spec => []DtdRead
<1>1. Reading => DtdRead
  BY DtdSoFarRead DEF Reading
<1> QED
  BY <1>1, ReadingInvariant, PTL

\* Whatever search is sent is the one that is read, but for its content
THEOREM SearchKeptHolds == Spec => []SearchKept
<1>1. Reading => SearchKept
  BY SearchReadKept DEF Reading
<1> QED
  BY <1>1, ReadingInvariant, PTL

\* However many files are found, they are all shown, in their order
THEOREM ResultsShownHolds == Spec => []ResultsShown
<1>1. Reading => ResultsShown
  BY ResultsReadShown DEF Reading
<1> QED
  BY <1>1, ReadingInvariant, PTL
================================================================================
