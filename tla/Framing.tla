-------------------------------- MODULE Framing --------------------------------
(***************************************************************************)
(* The byte stream of one session of CrioSSLServer: handleClient cuts it   *)
(* into commands at '\n' and handleFileDownloadFromClient reads the        *)
(* content of a file from the same stream.                                 *)
(*                                                                         *)
(* The stream is a sequence of TLS records, and SSL_read returns bytes of  *)
(* one record.  The client does not wait for an answer before it sends     *)
(* more: it writes a command, and the content of a file, in one or two     *)
(* records of its own, or starts it in the record that holds the end of    *)
(* what it sent before (`merged').  handleClient handles one command per   *)
(* read, so that the end of a merged record stays in accumulatedData.  It   *)
(* appends what it read as a C string, so that what follows a NUL in one    *)
(* read, a '\n' included, is lost; and an empty command leaves parseRequest *)
(* without a token to look at, which crashes the server.                    *)
(***************************************************************************)
EXTENDS Naturals, Sequences, SequencesExt

CONSTANTS
    Byte,           (* what the records are made of *)
    Lines,          (* the commands a client sends, without the '\n' *)
    NL,             (* the '\n' *)
    NUL,            (* the '\0' *)
    FileByte,       (* a byte of a file's content *)
    Download,       (* the command downloadFromClient;<file>;<FileSize> *)
    FileSize,
    maxMessageSize, (* 256 in the code *)
    BufferSize,     (* of the file reads, 1024 in the code *)
    MaxCommands     (* bound on the commands of a session *)

ASSUME FramingAssumption ==
    /\ {NL, NUL, FileByte} \subseteq Byte /\ NL # NUL
    /\ \A l \in Lines : l \in Seq(Byte) /\ NL \notin Range(l)
    /\ Download \in Lines /\ Download # <<>> /\ NUL \notin Range(Download)
    /\ {FileSize, maxMessageSize, BufferSize} \subseteq Nat \ {0}
    /\ MaxCommands \in Nat

\* FileByte marks the content of files, so that InSync can tell it from commands.
\* (The file loop treats all bytes alike; handleClient reads none of a file's as
\* long as the session is orderly.)
ASSUME MarkAssumption ==
    FileByte \notin {NL, NUL} /\ \A l \in Lines : FileByte \notin Range(l)

VARIABLES
    stream,          (* the records on their way to the server *)
    sent,            (* the commands sent, in order *)
    hungup,          (* the client closed its end *)
    accumulatedData,
    mode,            (* "command": in handleClient; "file": in the file loop *)
    totalBytesRead,
    answers,         (* the answers written, in order *)
    open,            (* the session is not over *)
    crashed,         (* parseRequest read the first of no tokens *)
    orderly          (* no record was merged and no file refused (history) *)

clientVars == <<sent, hungup>>
serverVars == <<accumulatedData, mode, totalBytesRead, answers, open, crashed>>
vars == <<stream, clientVars, serverVars, orderly>>

Init ==
    /\ stream = <<>>
    /\ sent = <<>>
    /\ hungup = FALSE
    /\ accumulatedData = <<>>
    /\ mode = "command"
    /\ totalBytesRead = 0
    /\ answers = <<>>
    /\ open = TRUE
    /\ crashed = FALSE
    /\ orderly = TRUE

-------------------------------------------------------------------------------
(* The client.                                                             *)

\* One or two records with the bytes s.
Records(s) ==
    {<<s>>} \cup {<<SubSeq(s, 1, i), SubSeq(s, i + 1, Len(s))>> : i \in 1..Len(s) - 1}

Content == [i \in 1..FileSize |-> FileByte]

\* The records r after those of the stream, each in a record of its own or the
\* first one merged with the last of the stream.
Write(str, r, merged) ==
    IF merged
    THEN Front(str) \o <<Last(str) \o Head(r)>> \o Tail(r)
    ELSE str \o r

SendCommand(l) ==
    /\ ~hungup
    /\ Len(sent) < MaxCommands
    /\ sent' = Append(sent, l)
    /\ \E r \in Records(Append(l, NL)), m \in {stream # <<>>, FALSE} :
          LET str == Write(stream, r, m)
          IN IF l = Download
             THEN \E c \in Records(Content), n \in BOOLEAN :
                     /\ stream' = Write(str, c, n)
                     /\ orderly' = (orderly /\ ~m /\ ~n)
             ELSE /\ stream' = str
                  /\ orderly' = (orderly /\ ~m)
    /\ UNCHANGED <<hungup, serverVars>>

\* The client closes its end; what it sent before still arrives.
HangUp ==
    /\ ~hungup
    /\ hungup' = TRUE
    /\ UNCHANGED <<stream, sent, serverVars, orderly>>

-------------------------------------------------------------------------------
(* The server.                                                             *)

\* SSL_read(ssl, buffer, n): up to n bytes of the first record.
Got(n) == SubSeq(Head(stream), 1, IF Len(Head(stream)) < n THEN Len(Head(stream)) ELSE n)

Read(n) ==
    /\ stream # <<>>
    /\ stream' = IF Len(Head(stream)) <= n
                 THEN Tail(stream)
                 ELSE <<SubSeq(Head(stream), n + 1, Len(Head(stream)))>> \o Tail(stream)

\* What `accumulatedData += buffer' appends of the bytes s: a C string.
Text(s) ==
    IF NUL \in Range(s) THEN SubSeq(s, 1, SelectInSeq(s, LAMBDA b : b = NUL) - 1) ELSE s

Nack == <<"NACK">>
Stored == <<"ACK">>
\* What parseRequest answers to a command that is no file transfer.
Answer(l) == <<"ANSWER", l>>

Refuse ==
    /\ answers' = Append(answers, Nack)
    /\ orderly' = FALSE
    /\ UNCHANGED <<mode, totalBytesRead, open, crashed>>

Reply(l) ==
    /\ answers' = Append(answers, Answer(l))
    /\ UNCHANGED <<mode, totalBytesRead, open, crashed, orderly>>

\* tokenize finds no token in an empty command, and tokens[0] is none.
Crash ==
    /\ open' = FALSE
    /\ crashed' = TRUE
    /\ UNCHANGED <<mode, totalBytesRead, answers, orderly>>

\* Mutant: totalBytesRead is not reset.
StartFileKeepTotal ==
    /\ mode' = "file"
    /\ UNCHANGED <<totalBytesRead, answers, open, crashed, orderly>>

StartFile ==
    /\ mode' = "file"
    /\ totalBytesRead' = 0
    /\ UNCHANGED <<answers, open, crashed, orderly>>

\* parseRequest: a command is answered at once; downloadFromClient starts the
\* loop that reads the file, or is refused when the file cannot be opened.
Obey(l) ==
    \/ l = <<>> /\ Crash
    \/ l \notin {<<>>, Download} /\ Reply(l)
    \/ l = Download /\ (StartFile \/ Refuse)

\* Mutant: what follows the delimiter is dropped.
ParseDrop(data) ==
    IF NL \in Range(data)
    THEN LET p == SelectInSeq(data, LAMBDA b : b = NL)
         IN /\ accumulatedData' = SubSeq(data, Len(data) + 1, Len(data))
            /\ Obey(SubSeq(data, 1, p - 1))
    ELSE /\ accumulatedData' = data
         /\ UNCHANGED <<mode, totalBytesRead, answers, open, crashed, orderly>>

\* handleClient: the bytes read so far hold a complete command, or not yet.
Parse(data) ==
    IF NL \in Range(data)
    THEN LET p == SelectInSeq(data, LAMBDA b : b = NL)
         IN /\ accumulatedData' = SubSeq(data, p + 1, Len(data))
            /\ Obey(SubSeq(data, 1, p - 1))
    ELSE /\ accumulatedData' = data
         /\ UNCHANGED <<mode, totalBytesRead, answers, open, crashed, orderly>>

\* handleClient: more than maxMessageSize bytes end the session.
Reject(data) ==
    /\ answers' = Append(answers, Nack)
    /\ open' = FALSE
    /\ accumulatedData' = data
    /\ UNCHANGED <<mode, totalBytesRead, crashed, orderly>>

\* Mutant: the size test counts one byte too many.
ReadCommandStrict ==
    /\ open /\ mode = "command"
    /\ Read(maxMessageSize)
    /\ LET data == accumulatedData \o Text(Got(maxMessageSize))
       IN IF Len(data) >= maxMessageSize THEN Reject(data) ELSE Parse(data)
    /\ UNCHANGED clientVars

\* handleClient: one SSL_read.
ReadCommand ==
    /\ open /\ mode = "command"
    /\ Read(maxMessageSize)
    /\ LET data == accumulatedData \o Text(Got(maxMessageSize))
       IN IF Len(data) > maxMessageSize THEN Reject(data) ELSE Parse(data)
    /\ UNCHANGED clientVars

\* The file loop is over: the file is complete, or not.
EndFile(total) ==
    /\ mode' = "command"
    /\ answers' = Append(answers, IF total = FileSize THEN Stored ELSE Nack)

\* Mutant: the loop reads on when the file is complete.
ReadFileOn ==
    /\ open /\ mode = "file"
    /\ Read(BufferSize)
    /\ totalBytesRead' = totalBytesRead + Len(Got(BufferSize))
    /\ IF totalBytesRead' > FileSize
       THEN EndFile(totalBytesRead')
       ELSE UNCHANGED <<mode, answers>>
    /\ UNCHANGED <<clientVars, accumulatedData, open, crashed, orderly>>

\* handleFileDownloadFromClient: one SSL_read of the loop.
ReadFile ==
    /\ open /\ mode = "file"
    /\ Read(BufferSize)
    /\ totalBytesRead' = totalBytesRead + Len(Got(BufferSize))
    /\ IF totalBytesRead' >= FileSize
       THEN EndFile(totalBytesRead')
       ELSE UNCHANGED <<mode, answers>>
    /\ UNCHANGED <<clientVars, accumulatedData, open, crashed, orderly>>

\* SSL_read fails: the file loop breaks, or the session ends.
ReadFails ==
    /\ open /\ hungup /\ stream = <<>>
    /\ IF mode = "file"
       THEN EndFile(totalBytesRead) /\ UNCHANGED open
       ELSE open' = FALSE /\ UNCHANGED <<mode, answers>>
    /\ UNCHANGED <<stream, clientVars, accumulatedData, totalBytesRead, crashed, orderly>>

-------------------------------------------------------------------------------

ServerStep == ReadCommand \/ ReadFile \/ ReadFails

Next ==
    \/ \E l \in Lines : SendCommand(l)
    \/ HangUp
    \/ ServerStep

Spec == Init /\ [][Next]_vars

\* The session's thread runs when it has something to read.
FairSpec == Spec /\ WF_vars(ServerStep)

-------------------------------------------------------------------------------
(* Properties.                                                             *)

TooLong(l) == Len(l) + 1 > maxMessageSize

\* The client sent no NUL within a command.
Plain == \A i \in DOMAIN sent : NUL \notin Range(sent[i])

\* The session's variables have their types and accumulatedData stays bounded:
\* what one read adds to it is tested before the next (handleClient).
TypeOK ==
    /\ hungup \in BOOLEAN /\ open \in BOOLEAN /\ crashed \in BOOLEAN /\ orderly \in BOOLEAN
    /\ Len(accumulatedData) <= 2 * maxMessageSize
    /\ mode \in {"command", "file"}
    /\ totalBytesRead \in 0..(FileSize + BufferSize - 1)

Expected(l) ==
    IF TooLong(l) THEN Nack ELSE IF l = Download THEN Stored ELSE Answer(l)

\* A merged record may be too long although none of its commands is.
Cut(i) == i = Len(answers) /\ answers[i] = Nack /\ ~open /\ ~orderly

\* The answers are those to the commands, in the order the commands were sent,
\* however the bytes fall into records (handleClient's accumulatedData); with
\* files, as long as the session is orderly (handleFileDownloadFromClient).  A NUL
\* in a command glues it to the next (see NoCommandIsLost).
AnswersInOrder ==
    Plain /\ (orderly \/ Download \notin Range(sent)) =>
        /\ Len(answers) <= Len(sent)
        /\ \A i \in DOMAIN answers : answers[i] = Expected(sent[i]) \/ Cut(i)

\* No byte of a file is taken for a command and no byte of a command for the
\* content of a file, although handleClient and handleFileDownloadFromClient read
\* the same stream with their own buffers: for an orderly session.
InSync ==
    Plain /\ orderly /\ open /\ stream # <<>> =>
        (mode = "file" <=> FileByte \in Range(Head(stream)))

\* An orderly session that the client does not end ends on a command that is too
\* long, with its refusal as the last answer (the size test of handleClient), or on
\* an empty one (tokens[0] in parseRequest).
NoSpuriousEnd ==
    Plain /\ orderly /\ ~open /\ ~hungup =>
        IF crashed
        THEN Len(answers) < Len(sent) /\ sent[Len(answers) + 1] = <<>>
        ELSE Len(answers) \in DOMAIN sent /\ TooLong(sent[Len(answers)])

\* Every command of an orderly session is answered, unless the session ends, the
\* commands before the first one with a NUL also when such a one follows.  (A merged
\* record leaves a complete command in accumulatedData until the client sends
\* again, or for ever.)
EveryCommandAnswered ==
    \A n \in 1..MaxCommands :
        Len(sent) = n /\ Plain ~> (Len(answers) >= n \/ ~open \/ ~orderly)

\* Expected to be violated: what is read is appended to accumulatedData
\* (handleClient), so that a session that has read everything has answered
\* everything.
NoCommandIsLost ==
    orderly /\ open /\ stream = <<>> /\ mode = "command" => Len(answers) = Len(sent)

\* Expected to be violated: parseRequest ensures there are enough tokens before it
\* uses them.
TokensAreEnough == ~crashed

===============================================================================
