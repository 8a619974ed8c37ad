---------------------------- MODULE MCXMLMessages -----------------------------
EXTENDS XMLMessages, FiniteSets

\* Texts that TinyXML condenses, drops and decodes
MCAltered == [v \in {"a  b", " ", "&#50;"} |-> IF v = " " THEN "" ELSE IF v = "a  b" THEN "a b" ELSE "2"]

MCToday == [day |-> 3, month |-> "6", year |-> 7]

\* File elements of the DTD, and such that lack a field, have one twice or without a text
Mot(w, n) == [tag |-> "MOT", content |-> <<w>>, freq |-> n]
Index     == Elem("INDEXAGE", <<Mot("un", <<3>>), Mot("deux", <<5>>)>>)
Common(p, size, group) ==
  <<Elem("PATH", <<p>>), Elem("TAILLE", <<size>>), Elem("PROPRIETAIRE", <<p>>), Elem("GROUPE", <<group>>),
    Elem("PERMISSIONS", <<p>>)>>
Without(s, tag) == SelectSeq(s, LAMBDA e : e.tag # tag)
Emptied(s, tag) == [i \in DOMAIN s |-> IF s[i].tag = tag THEN Elem(tag, <<>>) ELSE s[i]]

Modified(p, size, group) == Common(p, size, group) \o <<Elem("DATEMODIFICATION", <<p>>), Index>>
Moved(p, size, group)    == Modified(p, size, group) \o <<Elem("NEWPATH", <<p>>)>>
Created(p, size, group)  == Common(p, size, group) \o <<Elem("DATECREATION", <<p>>), Index, Elem("format", <<p>>)>>

OddWords(words) == Without(Modified("c", 2, "h"), "INDEXAGE") \o <<Elem("INDEXAGE", words)>>

\* The contents tried for the files of each section
Contents ==
  [MODIFICATIONS |->
     <<Modified("a", 1, "g"), Moved("b", 9, "h"), Without(Moved("c", 2, "h"), "GROUPE"),
       Without(Modified("c", 2, "h"), "TAILLE"), Without(Moved("c", 2, "h"), "PROPRIETAIRE"),
       Without(Modified("d", 2, "k"), "INDEXAGE"), Emptied(Modified("d", 2, "k"), "PATH"),
       Modified("a", 1, "g") \o <<Elem("PATH", <<"e">>), Index>>,
       OddWords(<<Mot("un", <<>>), Mot("deux", <<>>)>>), OddWords(<<Mot("un", <<4>>), [tag |-> "MOT", content |-> <<>>, freq |-> <<1>>]>>),
       OddWords(<<[tag |-> "AUTRE", content |-> <<"x">>, freq |-> <<1>>]>>)>>,
   CREATIONS |->
     <<Created("a", 1, "g"), Created("b", 9, "h"), Without(Created("c", 2, "h"), "GROUPE"),
       Without(Created("c", 2, "h"), "format")>>,
   RENOMMAGES |->
     <<<<Elem("PATH", <<"a">>), Elem("NEWPATH", <<"b">>)>>, <<Elem("NEWPATH", <<"c">>), Elem("PATH", <<"d">>)>>,
       <<Elem("NEWPATH", <<"e">>)>>, <<Elem("PATH", <<"f">>), Elem("NEWPATH", <<>>)>>>>,
   SUPPRESSIONS |->
     <<<<Elem("PATH", <<"a">>)>>, <<Elem("PATH", <<"b">>), Elem("PATH", <<"c">>)>>, <<Elem("NEWPATH", <<"e">>)>>,
       <<Elem("PATH", <<"f">>), Elem("PATH", <<>>)>>, <<Elem("PATH", <<>>)>>>>]

SectionsOf(sec) ==
  LET files == {Elem(Section[sec].of, Contents[sec][i]) : i \in DOMAIN Contents[sec]}
  IN {Elem(sec, <<>>)} \cup {Elem(sec, <<f>>) : f \in files} \cup {Elem(sec, <<f, h>>) : f, h \in files}
       \cup {Elem(sec, <<Elem("AUTRE", Contents[sec][1]), f>>) : f \in files}

\* Documents of one section, of two of the same kind, of two kinds, and of an unknown one
One(sec) == Elem(sec, <<Elem(Section[sec].of, Contents[sec][1])>>)
MCDocuments ==
  {<<>>, <<Elem("AUTRE", <<>>), One("RENOMMAGES")>>}
    \cup UNION {{<<s>> : s \in SectionsOf(sec)} \cup {<<One(sec), s>> : s \in SectionsOf(sec)} : sec \in Sections}
    \cup {<<One(p[1]), One(p[2])>> : p \in Sections \X Sections}
    \cup {<<One("RENOMMAGES"), One("MODIFICATIONS"), One("SUPPRESSIONS"), One("CREATIONS")>>}

MCEvents == {[mask |-> m, name |-> "a", info |-> i] :
               m \in {{"CREATE", "ISDIR"}, {"MODIFY"}, {"MOVED_TO"}, {"MOVED_FROM"}, {"DELETE"}, {"DELETE_SELF"}, {"ATTRIB"}},
               i \in {<<>>, <<4>>, <<9>>}}

Dates == {NoDate, MCToday, [day |-> 1, month |-> "&#50;", year |-> 5], [day |-> 4, month |-> "", year |-> 5],
          [day |-> 4, month |-> " ", year |-> 5]}
MCSearches == [word : {"", "w", "a  b"}, content : BOOLEAN, pathDir : {"", "d", " "}, perm : {"", "r"}, extension : {"", "x"},
               begin : Dates, end : Dates]

\* Searches of another program: a time slot whose dates lack a day or a text, or that has
\* one date only, and an empty search
Slot(begin) == Elem("TIMESLOT", <<Elem("BEGIN", begin), Elem("AUTRE", <<>>)>>)
MCResearches ==
  {<<>>, <<Elem("WORD", <<"w">>), Elem("CONTENT", <<"true">>), Elem("AUTRE", <<>>)>>,
   <<Elem("WORD", <<"w">>), Elem("CONTENT", <<"false">>)>>,
   <<Elem("WORD", <<"w">>), Slot(<<Elem("MONTH", <<"2">>), Elem("YEAR", <<5>>)>>)>>,
   <<Elem("WORD", <<"w">>), Slot(<<Elem("DAY", <<1>>), Elem("MONTH", <<>>)>>)>>,
   <<Elem("WORD", <<"w">>), Slot(<<Elem("DAY", <<>>)>>)>>,
   <<Elem("WORD", <<"w">>), Elem("TIMESLOT", <<Elem("END", <<Elem("MONTH", <<"2">>), Elem("YEAR", <<5>>)>>)>>)>>}

Found == {[name |-> n, path |-> "p", mime |-> m, disk_size |-> s, last_modif |-> l, user_id |-> u] :
            n \in {"a", "a  b"}, m \in {"", "m"}, s \in {1, 9}, l \in {"", "l", " "}, u \in {"u"}}
MCResults == {<<>>} \cup {<<f>> : f \in Found} \cup {<<f, h>> : f, h \in Found}

\* Results of another program, or with a '<' in a name: fields that lack, come twice, have
\* no text, and elements of other names
MCReplies ==
  {<<>>, <<Elem("AUTRE", <<>>)>>, <<Elem("FILE", <<>>), Elem("AUTRE", <<>>), Elem("FILE", <<Elem("NAME", <<"a">>)>>)>>,
   <<Elem("FILE", <<Elem("AUTRE", <<>>), Elem("NAME", <<"a">>), Elem("SIZE", <<9>>), Elem("SIZE", <<1>>)>>)>>,
   <<Elem("FILE", <<Elem("NAME", <<"a">>), Elem("PATH", <<>>)>>), Elem("FILE", <<Elem("PATH", <<"p">>)>>)>>}

MCMessages ==
  {[kind |-> "event", what |-> e] : e \in MCEvents} \cup {[kind |-> "indexation", what |-> d] : d \in MCDocuments}
    \cup {[kind |-> "search", what |-> s] : s \in MCSearches}
    \cup {[kind |-> "research", what |-> d] : d \in MCResearches} \cup {[kind |-> "result", what |-> f] : f \in MCResults}
    \cup {[kind |-> "reply", what |-> d] : d \in MCReplies}
================================================================================
