------------------------------ MODULE XMLMessages ------------------------------
(***************************************************************************)
(* The XML messages between the modules of Active: the daemon tells the    *)
(* index base of an event (XMLGeneration::MIToBI, read by                  *)
(* XMLParser::InterpretIndexation), the search engine asks the base        *)
(* (MRToBI, InterpretSearch) and the base answers (BIToMR,                 *)
(* InterpretResult).  Documents of other programs reach the same parsers.  *)
(*                                                                         *)
(* A document is the sequence of the children of its root.  An element has *)
(* a tag and a content: the sequence of its children, or a text, which is  *)
(* <<value>>, or <<>> when GetText() finds nothing and returns NULL.  A    *)
(* number is a text too; "" is the empty string and 0 the date not set.    *)
(* The texts are written as they are and TinyXML decodes the entities in   *)
(* them, condenses their white space and drops what is blank: Altered says *)
(* what becomes of those it changes.  A '<' in a text makes another        *)
(* document, which is one of those of other programs.                      *)
(* TinyXML keeps an element whose end tag does not match under the name it *)
(* was opened with, and what it contains.                                  *)
(*                                                                         *)
(* The parsers are loops within loops, each over the elements within the   *)
(* one that the loop around it is at: pc names the loop that runs, and     *)
(* tagDepth holds the pointers tagDepth1 to tagDepth4 as places in the     *)
(* document.  One step is one turn of one loop.                            *)
(***************************************************************************)
EXTENDS Integers, Sequences, SequencesExt

CONSTANTS
  Messages,  \* what can be sent: [kind, what]
  Altered,   \* the texts that TinyXML changes, each with what it makes of it, "" for a blank one
  IntMax,    \* the largest int
  Lp64,      \* a long is longer than an int
  Today,     \* the day the parser runs
  Garbage    \* what an uninitialised int may hold

VARIABLES
  msg,       \* the message
  pc,        \* "send", the loop that runs, "done", or "dead": a NULL was used
  tagDepth,  \* the element that each loop is at
  cur,       \* the local variables of the function called for the element
  got        \* what the parser has made of the elements it has read

vars == <<msg, pc, tagDepth, cur, got>>

Kind      == msg.kind
Indexing  == Kind \in {"event", "indexation"}
Searching == Kind \in {"search", "research"}
Answering == Kind \in {"result", "reply"}

\* What is read of a text that was written between two tags
Decode(v) == IF v \in DOMAIN Altered THEN Altered[v] ELSE v
Text(v)   == IF Decode(v) = "" THEN <<>> ELSE <<Decode(v)>>

Elem(tag, content) == [tag |-> tag, content |-> content]
Optional(tag, v)   == IF v = "" THEN <<>> ELSE <<Elem(tag, Text(v))>>

\* Utils::StringToInt: a number that is too large is read as the largest one
StringToInt(n) == IF n > IntMax THEN IntMax ELSE n

\* atoi() converts a long to an int, and disk_size is unsigned: an unsigned int comes
\* through when it fits the long
Atoi(n) == IF Lp64 THEN n ELSE StringToInt(n)

\* What the parser makes of the text of an element
Value(e) == IF e.tag \in {"TAILLE", "DAY", "YEAR"} THEN StringToInt(e.content[1])
            ELSE IF e.tag = "SIZE" THEN Atoi(e.content[1]) ELSE e.content[1]

-----------------------------------------------------------------------------
(* The daemon to the index base, XMLGeneration.cpp:21-87 and ANotifyMask.h *)

ANOTIFY_DELETE == {"DELETE", "DELETE_SELF", "UNMOUNT", "MOVED_FROM"}
ANOTIFY_WRITE  == {"CLOSE_WRITE", "MODIFY", "CREATE", "MOVED_TO"}
IsType(mask, type) == mask \cap type # {}

\* info is what stat() tells of the file, and <<>> when there is none any more
MIToBI(ev) ==
  IF IsType(ev.mask, ANOTIFY_WRITE)
  THEN IF ev.info = <<>> THEN <<>>
       ELSE <<Elem("MODIFICATIONS", <<Elem("FICHIERMOFIFIE",
                <<Elem("PATH", Text(ev.name)), Elem("DATEMODIFICATION", <<"date">>),
                  Elem("TAILLE", ev.info), Elem("PROPRIETAIRE", <<"uid">>), Elem("GROUPE", <<"gid">>),
                  Elem("PERMISSIONS", <<"mode">>), Elem("INDEXAGE", <<>>), Elem("NEWPATH", Text(ev.name))>>)>>)>>
  ELSE IF IsType(ev.mask, ANOTIFY_DELETE)
  THEN <<Elem("SUPPRESSIONS", <<Elem("FICHIERSUPPRIME", <<Elem("FICHIERSUPPRIME", Text(ev.name))>>)>>)>>
  ELSE <<>>

-----------------------------------------------------------------------------
(* The search engine to the index base, XMLGeneration.cpp:122-149 *)

NoDate == [day |-> 0, month |-> "", year |-> 0]
IsValidDate(d) == d.day # 0 /\ d.month # "" /\ d.year # 0

GenDate(d) == <<Elem("DAY", <<d.day>>), Elem("MONTH", Text(d.month)), Elem("YEAR", <<d.year>>)>>

\* Mutant: the end of the time slot is written for its beginning
MRToBIEndTwice(s) ==
  <<Elem("WORD", Text(s.word)), Elem("CONTENT", <<IF s.content THEN "1" ELSE "0">>)>>
    \o Optional("PATHDIR", s.pathDir) \o Optional("PERM", s.perm) \o Optional("EXTENSION", s.extension)
    \o IF IsValidDate(s.begin) /\ IsValidDate(s.end)
       THEN <<Elem("TIMESLOT", <<Elem("BEGIN", GenDate(s.end)), Elem("END", GenDate(s.end))>>)>> ELSE <<>>

MRToBI(s) ==
  <<Elem("WORD", Text(s.word)), Elem("CONTENT", <<IF s.content THEN "1" ELSE "0">>)>>
    \o Optional("PATHDIR", s.pathDir) \o Optional("PERM", s.perm) \o Optional("EXTENSION", s.extension)
    \o IF IsValidDate(s.begin) /\ IsValidDate(s.end)
       THEN <<Elem("TIMESLOT", <<Elem("BEGIN", GenDate(s.begin)), Elem("END", GenDate(s.end))>>)>> ELSE <<>>

-----------------------------------------------------------------------------
(* The index base to the search engine, XMLGeneration.cpp:92-120 *)

\* Mutant: the date of the last change is always written
GenFileAlways(f) ==
  Elem("FILE", <<Elem("NAME", Text(f.name)), Elem("PATH", Text(f.path)), Elem("PERM", Text(f.mime)),
                 Elem("SIZE", <<f.disk_size>>), Elem("LASTMODIF", Text(f.last_modif)), Elem("PROPRIO", Text(f.user_id))>>)

GenFile(f) ==
  Elem("FILE", <<Elem("NAME", Text(f.name)), Elem("PATH", Text(f.path)), Elem("PERM", Text(f.mime)),
                 Elem("SIZE", <<f.disk_size>>)>>
               \o Optional("LASTMODIF", f.last_modif) \o <<Elem("PROPRIO", Text(f.user_id))>>)

BIToMR(files) == [i \in DOMAIN files |-> GenFile(files[i])]

\* The children of the root; nothing is sent for an event or a result that is empty
Document ==
  IF Kind = "event" THEN MIToBI(msg.what)
  ELSE IF Kind = "search" THEN MRToBI(msg.what)
  ELSE IF Kind = "result" THEN BIToMR(msg.what)
  ELSE msg.what

-----------------------------------------------------------------------------
(* The loops of the parsers *)

Both    == {"PATH", "TAILLE", "PROPRIETAIRE", "GROUPE", "PERMISSIONS", "INDEXAGE"}
Section ==
  [RENOMMAGES    |-> [of |-> "FICHIERRENOMME", tags |-> {"PATH", "NEWPATH"}, free |-> {}],
   MODIFICATIONS |-> [of |-> "FICHIERMODIFIE", tags |-> Both \cup {"DATEMODIFICATION", "NEWPATH"},
                      free |-> {"TAILLE", "NEWPATH"}],
   SUPPRESSIONS  |-> [of |-> "FICHIERSUPPRIME", tags |-> {"PATH"}, free |-> {}],
   CREATIONS     |-> [of |-> "FICHIERCREE", tags |-> Both \cup {"DATECREATION", "format"}, free |-> {"TAILLE"}]]
Sections == DOMAIN Section

\* The variable that each text is read into
Criterion == [WORD |-> "word", PATHDIR |-> "pathDir", PERM |-> "perm", EXTENSION |-> "extension"]
DatePart  == [DAY |-> "day", MONTH |-> "month", YEAR |-> "year"]
FoundPart == [NAME |-> "name", PATH |-> "path", PERM |-> "mime", SIZE |-> "disk_size", LASTMODIF |-> "last_modif",
              PROPRIO |-> "user_id"]

\* The children of the root, the files of a section, the elements of a file, the words of
\* an INDEXAGE, the bounds of a TIMESLOT, the elements of a bound and of a FILE
Depth == [root |-> 1, section |-> 2, file |-> 3, words |-> 4, slot |-> 2, date |-> 3, found |-> 2]
Loops == DOMAIN Depth

Tag1 == Document[tagDepth[1]]
Tag2 == Tag1.content[tagDepth[2]]
Tag3 == Tag2.content[tagDepth[3]]

\* The elements that loop l goes over
Siblings(l) ==
  CASE Depth[l] = 1 -> Document [] Depth[l] = 2 -> Tag1.content [] Depth[l] = 3 -> Tag2.content [] OTHER -> Tag3.content

\* Those of them it looks for by their tags: to go into, or for their texts
Nested(l) ==
  CASE l = "root"    -> IF Indexing THEN Sections ELSE IF Searching THEN {"TIMESLOT"} ELSE {"FILE"}
    [] l = "section" -> {Section[Tag1.tag].of}
    [] l = "file"    -> {"INDEXAGE"} \cap Section[Tag1.tag].tags
    [] l = "slot"    -> {"BEGIN", "END"}
    [] OTHER         -> {}
Texts(l) ==
  CASE l = "root"  -> IF Searching THEN DOMAIN Criterion \cup {"CONTENT"} ELSE {}
    [] l = "file"  -> Section[Tag1.tag].tags \ {"INDEXAGE"}
    [] l = "words" -> {"MOT"}
    [] l = "date"  -> DOMAIN DatePart
    [] l = "found" -> DOMAIN FoundPart
    [] OTHER       -> {}

Element(l) == Siblings(l)[tagDepth[Depth[l]]]
AtElement(l) == pc = l /\ tagDepth[Depth[l]] <= Len(Siblings(l))
AtText(l)    == AtElement(l) /\ Element(l).tag \in Texts(l) /\ Element(l).content # <<>>
AtNested(l)  == AtElement(l) /\ Element(l).tag \in Nested(l)
AtEnd(l)     == pc = l /\ tagDepth[Depth[l]] > Len(Siblings(l))

\* NextSiblingElement() in loop l, and FirstChildElement() for loop l
Onward(l) == pc' = l /\ tagDepth' = [tagDepth EXCEPT ![Depth[l]] = @ + 1]
Enter(l)  == pc' = l /\ tagDepth' = [tagDepth EXCEPT ![Depth[l]] = 1]

\* An element that the loop does not look for
Skip(l) ==
  /\ AtElement(l) /\ Element(l).tag \notin Nested(l) \cup Texts(l)
  /\ Onward(l)
  /\ UNCHANGED <<msg, cur, got>>

\* A string is made of the text of an element that has none
UseNull(l) ==
  /\ AtElement(l) /\ Element(l).tag \in Texts(l) /\ Element(l).content = <<>>
  /\ pc' = "dead"
  /\ UNCHANGED <<msg, tagDepth, cur, got>>

-----------------------------------------------------------------------------
(* InterpretIndexation() and the functions that read a section *)

\* The local variables of the four functions, before the first file
Locals(sec, g, h) ==
  [value |-> [t \in Section[sec].tags |-> IF t = "TAILLE" THEN g ELSE IF t = "INDEXAGE" THEN <<>> ELSE ""],
   freq  |-> h, files |-> <<>>]

EnterSection ==
  /\ Indexing /\ AtNested("root")
  /\ Enter("section")
  /\ \E g, h \in Garbage : cur' = Locals(Tag1.tag, g, h)
  /\ UNCHANGED <<msg, got>>

EnterFile == AtNested("section") /\ Enter("file") /\ UNCHANGED <<msg, cur, got>>

\* A tag that comes again replaces what was read; GetSuppressions() leaves a file at its
\* first PATH
ReadText ==
  /\ AtText("file")
  /\ cur' = [cur EXCEPT !.value[Tag3.tag] = Value(Tag3)]
  /\ IF Tag1.tag = "SUPPRESSIONS" THEN pc' = pc /\ tagDepth' = [tagDepth EXCEPT ![3] = Len(Tag2.content) + 1]
     ELSE Onward("file")
  /\ UNCHANGED <<msg, got>>

EnterWords == AtNested("file") /\ Enter("words") /\ UNCHANGED <<msg, cur, got>>

\* A word without a frequency has what the variable holds: 0 after the first word.  The
\* words of a second INDEXAGE are added
ReadWord ==
  /\ AtText("words")
  /\ LET w == Element("words")
     IN cur' = [cur EXCEPT !.value["INDEXAGE"] =
                             <<[word |-> w.content[1], freq |-> IF w.freq = <<>> THEN cur.freq ELSE w.freq[1]]>> \o @,
                           !.freq = 0]
  /\ Onward("words")
  /\ UNCHANGED <<msg, got>>

LeaveWords == AtEnd("words") /\ Onward("file") /\ UNCHANGED <<msg, cur, got>>

Complete(sec, value) ==
  \A t \in Section[sec].tags \ Section[sec].free : IF t = "INDEXAGE" THEN value[t] # <<>> ELSE value[t] # ""

\* Mutant: the new path is not reset either
ForgetButNewPath(value) ==
  [t \in DOMAIN value |-> IF t \in {"TAILLE", "GROUPE", "NEWPATH"} THEN value[t]
                          ELSE IF t = "INDEXAGE" THEN <<>> ELSE ""]

\* Mutant: the words are not cleared
ForgetButWords(value) ==
  [t \in DOMAIN value |-> IF t \in {"TAILLE", "GROUPE", "INDEXAGE"} THEN value[t] ELSE ""]

\* What is reset after a file: the size and the group are not
Forget(value) ==
  [t \in DOMAIN value |-> IF t \in {"TAILLE", "GROUPE"} THEN value[t]
                          ELSE IF t = "INDEXAGE" THEN <<>> ELSE ""]

\* A file is put in front of those read before when it is complete
LeaveFile ==
  /\ AtEnd("file")
  /\ cur' = [cur EXCEPT !.value = Forget(@),
                        !.files = IF Complete(Tag1.tag, cur.value) THEN <<cur.value>> \o @ ELSE @]
  /\ Onward("section")
  /\ UNCHANGED <<msg, got>>

\* A later section replaces an earlier one of its kind
LeaveSection ==
  /\ AtEnd("section")
  /\ got' = [got EXCEPT ![Tag1.tag] = cur.files]
  /\ cur' = <<>>
  /\ Onward("root")
  /\ UNCHANGED msg

-----------------------------------------------------------------------------
(* InterpretSearch() and GetDate() *)

NoSearch == [word |-> "", content |-> FALSE, pathDir |-> "", perm |-> "", extension |-> "",
             begin |-> Today, end |-> Today]

ReadCriterion ==
  /\ Searching /\ AtText("root")
  /\ got' = IF Tag1.tag = "CONTENT" THEN [got EXCEPT !.content = @ \/ Tag1.content[1] = "true"]
            ELSE [got EXCEPT ![Criterion[Tag1.tag]] = Value(Tag1)]
  /\ Onward("root")
  /\ UNCHANGED <<msg, cur>>

EnterSlot == Searching /\ AtNested("root") /\ Enter("slot") /\ UNCHANGED <<msg, cur, got>>

\* The day and the year are what their variables hold when the date has none
EnterDate ==
  /\ AtNested("slot")
  /\ Enter("date")
  /\ \E g, h \in Garbage : cur' = [day |-> g, month |-> "", year |-> h]
  /\ UNCHANGED <<msg, got>>

ReadDatePart ==
  /\ AtText("date")
  /\ cur' = [cur EXCEPT ![DatePart[Tag3.tag]] = Value(Tag3)]
  /\ Onward("date")
  /\ UNCHANGED <<msg, got>>

LeaveDate ==
  /\ AtEnd("date")
  /\ got' = IF Tag2.tag = "BEGIN" THEN [got EXCEPT !.begin = cur] ELSE [got EXCEPT !.end = cur]
  /\ cur' = <<>>
  /\ Onward("slot")
  /\ UNCHANGED msg

LeaveSlot == AtEnd("slot") /\ Onward("root") /\ UNCHANGED <<msg, cur, got>>

\* Mutant: the end of the slot is not looked at
ValidBegin(s) == [s EXCEPT !.begin = IF IsValidDate(@) THEN @ ELSE Today]

\* The end of InterpretSearch(): a date that is not valid becomes today's
ValidDates(s) ==
  [s EXCEPT !.begin = IF IsValidDate(@) THEN @ ELSE Today, !.end = IF IsValidDate(@) THEN @ ELSE Today]

-----------------------------------------------------------------------------
(* InterpretResult() *)

NewFile(g) == [name |-> "", path |-> "", mime |-> "", disk_size |-> g, last_modif |-> "", user_id |-> ""]

EnterFound ==
  /\ Answering /\ AtNested("root")
  /\ Enter("found")
  /\ \E g \in Garbage : cur' = NewFile(g)
  /\ UNCHANGED <<msg, got>>

\* AnyFile::majField()
MajField ==
  /\ AtText("found")
  /\ cur' = [cur EXCEPT ![FoundPart[Tag2.tag]] = Value(Tag2)]
  /\ Onward("found")
  /\ UNCHANGED <<msg, got>>

LeaveFound ==
  /\ AtEnd("found")
  /\ got' = Append(got, cur)
  /\ cur' = <<>>
  /\ Onward("root")
  /\ UNCHANGED msg

-----------------------------------------------------------------------------
(* What can be sent *)

IsList(s) == Len(s) \in Nat /\ s = [i \in 1 .. Len(s) |-> s[i]]
IsText(c) == IsList(c) /\ Len(c) <= 1

\* A file element: TinyXML makes no element of an empty text
IsFile(sec, f) ==
  /\ IsList(f.content)
  /\ \A i \in DOMAIN f.content : LET e == f.content[i] IN
       /\ e.tag \in Section[sec].tags \ {"INDEXAGE"} =>
            /\ IsText(e.content)
            /\ e.tag \notin Section[sec].free /\ e.content # <<>> => e.content[1] # ""
       /\ e.tag \in Section[sec].tags \cap {"INDEXAGE"} =>
            /\ IsList(e.content)
            /\ \A w \in DOMAIN e.content : e.content[w].tag = "MOT" => IsText(e.content[w].content)

IsIndexation(d) ==
  /\ IsList(d)
  /\ \A s \in DOMAIN d : d[s].tag \in Sections =>
       /\ IsList(d[s].content)
       /\ \A f \in DOMAIN d[s].content :
            d[s].content[f].tag = Section[d[s].tag].of => IsFile(d[s].tag, d[s].content[f])

Date      == [day : 0 .. IntMax, month : STRING, year : 0 .. IntMax]
Search    == [word : STRING, content : BOOLEAN, pathDir : STRING, perm : STRING, extension : STRING,
              begin : Date, end : Date]
FoundFile == [name : STRING, path : STRING, mime : STRING, disk_size : Nat, last_modif : STRING, user_id : STRING]

ASSUME MessagesAssumption ==
  /\ IntMax \in Nat /\ Garbage \subseteq Nat /\ Lp64 \in BOOLEAN
  /\ DOMAIN Altered \subseteq STRING \ {""} /\ \A t \in DOMAIN Altered : Altered[t] \in STRING
  /\ Today \in Date /\ IsValidDate(Today)
  /\ \A m \in Messages :
       /\ m.kind \in {"event", "indexation", "search", "research", "result", "reply"}
       /\ m.kind = "indexation" => IsIndexation(m.what)
       /\ m.kind = "search" => m.what \in Search
       /\ m.kind = "result" => IsList(m.what) /\ \A i \in DOMAIN m.what : m.what[i] \in FoundFile

-----------------------------------------------------------------------------
(* A message is made, sent and read *)

Init == msg \in Messages /\ pc = "send" /\ tagDepth = [d \in 1 .. 4 |-> 1] /\ cur = <<>> /\ got = <<>>

\* The parser finds its root.  There is none to ask for its id in a result that was
\* not sent, and an empty SEARCH makes strings and dates of NULL
Send ==
  /\ pc = "send"
  /\ pc' = IF Document = <<>> /\ ~Indexing THEN "dead" ELSE "root"
  /\ got' = IF Indexing THEN [s \in Sections |-> <<>>] ELSE IF Searching THEN NoSearch ELSE <<>>
  /\ UNCHANGED <<msg, tagDepth, cur>>

EndOfDocument ==
  /\ AtEnd("root")
  /\ pc' = "done"
  /\ got' = IF Searching THEN ValidDates(got) ELSE got
  /\ UNCHANGED <<msg, tagDepth, cur>>

ReadSection == EnterSection \/ EnterFile \/ ReadText \/ EnterWords \/ ReadWord \/ LeaveWords \/ LeaveFile \/ LeaveSection
ReadSearch  == ReadCriterion \/ EnterSlot \/ EnterDate \/ ReadDatePart \/ LeaveDate \/ LeaveSlot
ReadResult  == EnterFound \/ MajField \/ LeaveFound

Next ==
  \/ Send \/ EndOfDocument
  \/ ReadSection \/ ReadSearch \/ ReadResult
  \/ \E l \in Loops : Skip(l) \/ UseNull(l)

Spec == Init /\ [][Next]_vars

-----------------------------------------------------------------------------
(* What the messages promise *)

\* The type invariant: what is read is of the kind that was sent, a file that was
\* read has every text its section asks for, and the dates of a search are whole
TypeOK ==
  /\ pc \in Loops \cup {"send", "done", "dead"} /\ tagDepth \in [1 .. 4 -> Nat \ {0}]
  /\ pc # "send" =>
       /\ Indexing => \A sec \in Sections : \A i \in DOMAIN got[sec] :
                        DOMAIN got[sec][i] = Section[sec].tags /\ Complete(sec, got[sec][i])
       /\ Searching /\ pc = "done" => IsValidDate(got.begin) /\ IsValidDate(got.end)
       /\ Answering => \A i \in DOMAIN got : DOMAIN got[i] = {FoundPart[t] : t \in DOMAIN FoundPart}

\* Every text of file r was read in element f
From(sec, r, f) ==
  \A t \in Section[sec].tags :
    LET own == {i \in DOMAIN f.content : f.content[i].tag = t}
    IN IF t = "INDEXAGE"
       THEN \A k \in DOMAIN r[t] : \E i \in own : \E w \in DOMAIN f.content[i].content :
              f.content[i].content[w].content = <<r[t][k].word>>
       ELSE IF own = {} THEN t \in {"TAILLE", "GROUPE"} \/ r[t] = ""
       ELSE \E i \in own : f.content[i].content # <<>> /\ r[t] = Value(f.content[i])

\* The local variables of the parser go from one file to the next, and some are not
\* reset: still, a file that is read has all its texts and words from one element of the
\* document.  Only a group or a size it does not have may be another file's
OwnTexts ==
  Indexing /\ pc # "send" =>
    \A sec \in Sections : \A k \in DOMAIN got[sec] :
      \E s \in DOMAIN Document : /\ Document[s].tag = sec
        /\ \E f \in DOMAIN Document[s].content : /\ Document[s].content[f].tag = Section[sec].of
             /\ From(sec, got[sec][k], Document[s].content[f])

\* A file element of the DTD (annexes.tex:20-24) with a text everywhere and a word at
\* least: the DTD allows an INDEXAGE without words (annexes.tex:35), but a file with such
\* a one is dropped
DtdFile(sec, f) ==
  /\ f.tag = Section[sec].of
  /\ \A i, j \in DOMAIN f.content : f.content[i].tag = f.content[j].tag => i = j
  /\ {f.content[i].tag : i \in DOMAIN f.content} \cup (Section[sec].free \ {"TAILLE"}) = Section[sec].tags
  /\ \A i \in DOMAIN f.content : LET e == f.content[i] IN
       /\ e.content # <<>>
       /\ e.tag = "INDEXAGE" => \A k \in DOMAIN e.content :
            e.content[k].tag = "MOT" /\ e.content[k].content # <<>> /\ e.content[k].freq # <<>>

Dtd == /\ \A i, j \in DOMAIN Document : Document[i].tag = Document[j].tag => i = j
       /\ \A s \in DOMAIN Document : Document[s].tag \in Sections
            /\ \A f \in DOMAIN Document[s].content : DtdFile(Document[s].tag, Document[s].content[f])

\* The element of tag t of a file
Own(t, f) == {i \in DOMAIN f.content : f.content[i].tag = t}
TheOwn(t, f) == f.content[CHOOSE i \in Own(t, f) : TRUE]

\* What the DTD means by an INDEXAGE, and by a file element
WordsOf(e) == [k \in DOMAIN e.content |-> [word |-> e.content[k].content[1], freq |-> e.content[k].freq[1]]]
MeaningOf(t, f) ==
  IF Own(t, f) = {} THEN "" ELSE IF t = "INDEXAGE" THEN Reverse(WordsOf(TheOwn(t, f))) ELSE Value(TheOwn(t, f))
Meaning(sec, f) == [t \in Section[sec].tags |-> MeaningOf(t, f)]

\* A document of the DTD is read whole if no text and no INDEXAGE is empty: every file of
\* every section with its own texts and its own words, in the order that push_front gives
\* them, the last one first
DtdRead ==
  Kind = "indexation" /\ pc \in {"dead", "done"} /\ Dtd =>
    /\ pc # "dead"
    /\ pc = "done" => \A sec \in Sections :
         LET files == {s \in DOMAIN Document : Document[s].tag = sec}
             s     == Document[CHOOSE s \in files : TRUE]
         IN got[sec] = IF files = {} THEN <<>>
                       ELSE Reverse([f \in DOMAIN s.content |-> Meaning(sec, s.content[f])])

\* What should be read of a search and of a file, and that none of their texts gets lost
DecodeDate(d)   == [d EXCEPT !.month = Decode(@)]
DecodeSearch(s) == [s EXCEPT !.word = Decode(@), !.pathDir = Decode(@), !.perm = Decode(@), !.extension = Decode(@),
                             !.begin = DecodeDate(@), !.end = DecodeDate(@)]
DecodeFile(f)   == [f EXCEPT !.name = Decode(@), !.path = Decode(@), !.mime = Decode(@), !.last_modif = Decode(@),
                             !.user_id = Decode(@)]

Comes(v)       == v # "" => Decode(v) # ""
WholeSearch(s) == Decode(s.word) # "" /\ \A v \in {s.pathDir, s.perm, s.extension, s.begin.month, s.end.month} : Comes(v)
WholeFile(f)   == /\ "" \notin {Decode(f.name), Decode(f.path), Decode(f.mime), Decode(f.user_id)}
                  /\ Comes(f.last_modif) /\ (Lp64 \/ f.disk_size <= IntMax)

\* What the index base reads of a search that has a word and no blank text is what the
\* search engine asked for: the same word and criteria, as TinyXML gives them back, and
\* the same time slot, or today when it had none.  The CONTENT is left out: it gets
\* lost, as it is written as 1 or 0 and read as "true"
SearchKept ==
  Kind = "search" /\ pc # "send" /\ WholeSearch(msg.what) =>
    LET s    == DecodeSearch(msg.what)
        slot == IsValidDate(msg.what.begin) /\ IsValidDate(msg.what.end)
    IN /\ pc # "dead"
       /\ pc = "done" =>
            /\ got.word = s.word /\ got.pathDir = s.pathDir /\ got.perm = s.perm /\ got.extension = s.extension
            /\ got.begin = IF slot THEN s.begin ELSE Today
            /\ got.end = IF slot THEN s.end ELSE Today

\* The search engine shows the files the base found, in their order and each with its own
\* data as TinyXML gives them back, when there is one at least, no text is blank, only the
\* date of the last change may be missing and a size that is no int fits a long
ResultsShown ==
  Kind = "result" /\ pc # "send" =>
    LET files == msg.what
    IN files # <<>> /\ (\A i \in DOMAIN files : WholeFile(files[i])) =>
         /\ pc # "dead"
         /\ pc = "done" => /\ Len(got) = Len(files)
                           /\ \A i \in DOMAIN files : \A t \in DOMAIN files[i] : got[i][t] = DecodeFile(files[i])[t]

\* "Toutes les requetes crees par le moteur d'indexation doivent etre conforment a la DTD"
\* (specifications_systeme.tex:14): the index base can read what it is told of an event
EventsUnderstood ==
  Kind = "event" /\ pc = "done" =>
    /\ IsType(msg.what.mask, ANOTIFY_WRITE) /\ msg.what.info # <<>> =>
         \E i \in DOMAIN got.MODIFICATIONS : got.MODIFICATIONS[i].PATH = msg.what.name
    /\ ~IsType(msg.what.mask, ANOTIFY_WRITE) /\ IsType(msg.what.mask, ANOTIFY_DELETE) =>
         \E i \in DOMAIN got.SUPPRESSIONS : got.SUPPRESSIONS[i].PATH = msg.what.name
================================================================================
