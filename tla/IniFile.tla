------------------------------- MODULE IniFile -------------------------------
(***************************************************************************)
(* What ini.h and IniObject do to the lines of an ini file when they read  *)
(* one value and when they write one back.                                 *)
(*                                                                         *)
(* A file is a sequence of lines as parseLine sorts them: section headers, *)
(* keys, text (comments and blank lines) and lines of no known form.  An   *)
(* identifier is a name and a number (channel 3), in lower case as ini.h   *)
(* compares them; a key is an identifier in a section.                     *)
(***************************************************************************)
EXTENDS Integers, Sequences, FiniteSetsExt, SequencesExt

CONSTANT Empty    (* the empty string *)

\* What parseLine may make of a line with names in N and a value in V.
Line(N, V) == [kind : {"section", "key", "text", "unknown"}, id : N \X Nat, val : V]

Key(s, n, i) == [sec |-> s, id |-> <<n, i>>]

Header(s)   == [kind |-> "section", id |-> <<s, 0>>, val |-> Empty]
Entry(k, v) == [kind |-> "key", id |-> k.id, val |-> v]

\* The headers above line i; a key without any is not read.
Headers(L, i)   == {j \in 1..i : L[j].kind = "section"}
SectionOf(L, i) == L[Max(Headers(L, i))].id[1]
IsKey(L, i)     == L[i].kind = "key" /\ Headers(L, i) # {}
KeyOf(L, i)     == [sec |-> SectionOf(L, i), id |-> L[i].id]

Lines(L, k) ==
    {i \in DOMAIN L : L[i].id = k.id /\ IsKey(L, i) /\ SectionOf(L, i) = k.sec}

\* The last of several lines wins; readValue takes an empty value for none.
Get(L, k) == IF Lines(L, k) = {} THEN Empty ELSE L[Max(Lines(L, k))].val

\* A key that is new in its section goes behind the last key, or the header, of
\* every block with that header.
EndsBlock(L, i) ==
    /\ L[i].kind = "section" \/ IsKey(L, i)
    /\ \A j \in (i + 1)..Len(L) : L[j].kind = "key" => Headers(L, j) # Headers(L, i)

\* Mutant: the structure that is written back was not read from the file.
PutAlone(L, k, v) == <<Header(k.sec), Entry(k, v)>>

\* readValue and writeValue read the file, set one key and rewrite every line:
\* lines of no known form and keys above the first header are dropped, every
\* line of a key gets the key's value.
Put(L, k, v) ==
    LET before   == Lines(L, k)
        value(i) == IF KeyOf(L, i) = k THEN v ELSE Get(L, KeyOf(L, i))
        new(i)   == before = {} /\ EndsBlock(L, i) /\ SectionOf(L, i) = k.sec
        line(i)  == IF IsKey(L, i) THEN <<[L[i] EXCEPT !.val = value(i)]>>
                    ELSE IF L[i].kind \in {"section", "text"} THEN <<L[i]>> ELSE <<>>
        output   == FlattenSeq([i \in DOMAIN L |->
                       IF new(i) THEN Append(line(i), Entry(k, v)) ELSE line(i)])
    IN  IF \E i \in DOMAIN L : L[i].kind = "section" /\ L[i].id[1] = k.sec
        THEN output
        ELSE output \o <<Header(k.sec), Entry(k, v)>>

===============================================================================
