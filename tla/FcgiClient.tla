------------------------------ MODULE FcgiClient ------------------------------
(***************************************************************************)
(* fcgicli: it asks a FastCGI server to run a PHP script and prints what   *)
(* the script prints. The request is one buffer of four records, written   *)
(* in pieces; the reply is a stream of packets, read in pieces, that may   *)
(* end anywhere. The headers of the script's output are not printed.       *)
(***************************************************************************)
EXTENDS Integers, Sequences, SequencesExt

CONSTANTS
    Inputs,         \* [cmd, reply]: a command line [bad: exit status or 0, script and data:
                    \*   lengths, data None if not given] and a sequence of packets [type, id,
                    \*   lines]; those of the packet that ends it are what is said of its end
    FCGI_NV_LLEN,   \* 2^31
    None

VARIABLES
    pc, cmd,
    params,         \* the name-value pairs: a sequence of [size, length, text]
    len,            \* bytes of the request still to write
    reply, n, got,  \* the packets, how many were handled, pieces read of the next
    end_header, out,
    status          \* how it ended

vars == <<pc, cmd, params, len, reply, n, got, end_header, out, status>>

Init ==
    /\ \E input \in Inputs : cmd = input.cmd /\ reply = input.reply
    /\ pc = "start" /\ params = <<>> /\ len = 0 /\ n = 0 /\ got = 0 /\ end_header = FALSE /\ out = <<>> /\ status = None

-----------------------------------------------------------------------------
ECONNREFUSED == 61
Exit(code) == pc' = "exit" /\ status' = code

\* The options are looked at before anything else; connect may fail.
Start ==
    /\ pc = "start"
    /\ IF cmd.bad # 0 THEN Exit(cmd.bad)
       ELSE \/ pc' = "build" /\ UNCHANGED status
            \/ Exit(ECONNREFUSED)
    /\ UNCHANGED <<cmd, params, len, reply, n, got, end_header, out>>

FCGI_NV_SLEN == 2^7
HeaderSize == 8

\* A length takes one byte, or four with the highest bit set.
LengthField(l) == [size |-> IF l < FCGI_NV_SLEN THEN 1 ELSE 4, length |-> l]
build_nvpair(key, value) ==
    <<LengthField(key), LengthField(value),
      [size |-> key, length |-> None], [size |-> value, length |-> None]>>

\* GATEWAY_INTERFACE, REQUEST_METHOD, NO_HEADERS, SCRIPT_FILENAME, SCRIPT_NAME,
\* REQUEST_URI, DOCUMENT_URI and with data QUERY_STRING: by their lengths. (What
\* precedes the script's name in its path is taken to be one '/'.)
Pairs ==
    LET name == cmd.script
        uri  == IF cmd.data = None THEN <<>>
                ELSE build_nvpair(12, cmd.data) \o build_nvpair(11, name + 1 + cmd.data)
    IN  build_nvpair(17, 11) \o build_nvpair(14, 3) \o build_nvpair(10, 1)
        \o build_nvpair(15, name) \o build_nvpair(11, name)
        \o (IF cmd.data = None THEN build_nvpair(11, name) ELSE <<>>)
        \o build_nvpair(12, name) \o uri
Bytes(fields) == FoldLeft(LAMBDA sum, f : sum + f.size, 0, fields)
TooLarge == cmd.script >= FCGI_NV_LLEN \/ (cmd.data # None /\ cmd.script + 1 + cmd.data >= FCGI_NV_LLEN)

Build ==
    /\ pc = "build"
    /\ IF TooLarge THEN Exit(-5) /\ UNCHANGED <<params, len>>
       ELSE /\ params' = Pairs
            /\ len' = 3 * HeaderSize + 2 * HeaderSize + Bytes(Pairs)
            /\ pc' = "write" /\ UNCHANGED status
    /\ UNCHANGED <<cmd, reply, n, got, end_header, out>>

\* The content length of the records, in 16 bits.
prepare_packet(lcontent) == lcontent % 2^16
Records == <<HeaderSize, prepare_packet(Bytes(params)), prepare_packet(0), prepare_packet(0)>>

SIGPIPE == 128 + 13

\* write takes all, or a part, or fails; if the server has gone it ends the program
Write ==
    /\ pc = "write"
    /\ IF len = 0 THEN pc' = "header" /\ UNCHANGED <<len, status>>
       ELSE \/ len' \in {0, len \div 2} /\ UNCHANGED <<pc, status>>
            \/ (Exit(-2) \/ Exit(SIGPIPE)) /\ UNCHANGED len
    /\ UNCHANGED <<cmd, params, reply, n, got, end_header, out>>

-----------------------------------------------------------------------------
\* read_packet: the reply may end, or belong to another request. A header that
\* comes in two pieces is written past the structure it is meant for: what the
\* program does then is not known.
packet == reply[n + 1]
ReadHeader ==
    /\ pc = "header"
    /\ \/ n < Len(reply) /\ packet.id = 1 /\ pc' = "body" /\ UNCHANGED status
       \/ n < Len(reply) /\ packet.id # 1 /\ Exit(-1)
       \/ Exit(-1)
       \/ n < Len(reply) /\ pc' = "undefined" /\ UNCHANGED status
    /\ got' = 0
    /\ UNCHANGED <<cmd, params, len, reply, n, end_header, out>>
ReadBody ==
    /\ pc = "body"
    /\ IF got < Len(packet.lines)
       THEN \/ got' \in got + 1..Len(packet.lines) /\ UNCHANGED <<pc, status>>
            \/ Exit(-1) /\ UNCHANGED got
       ELSE pc' = "handle" /\ UNCHANGED <<got, status>>
    /\ UNCHANGED <<cmd, params, len, reply, n, end_header, out>>

\* While the header goes on, lines are skipped; a line of one character, the
\* carriage return of an empty line, ends it. Of the rest of that packet the
\* first line is printed that is not the "#!" of a script.
EndsHeader(p) == "cr" \in ToSet(p.lines)
IsText(p) == p.type \in {"data", "stdout", "stderr"}
FirstLine(lines) ==
    LET end == SelectInSeq(lines, LAMBDA l : l = "cr")
        printed == SelectSeq(SubSeq(lines, end + 1, Len(lines)), LAMBDA l : l # "#!")
    IN  IF end = 0 \/ printed = <<>> THEN <<>> ELSE <<printed[1]>>

\* Mutant: a packet after the header is searched for the end of the header again.
Handle_Forgets ==
    /\ pc = "handle"
    /\ IF IsText(packet)
       THEN /\ end_header' = EndsHeader(packet)
            /\ out' = out \o (IF end_header THEN packet.lines ELSE FirstLine(packet.lines))
            /\ pc' = "header" /\ UNCHANGED status
       ELSE /\ out' = out \o packet.lines
            /\ Exit(0) /\ UNCHANGED end_header
    /\ n' = n + 1
    /\ UNCHANGED <<cmd, params, len, reply, got>>

Handle ==
    /\ pc = "handle"
    /\ IF IsText(packet)
       THEN /\ end_header' = (end_header \/ EndsHeader(packet))
            /\ out' = out \o (IF end_header THEN packet.lines ELSE FirstLine(packet.lines))
            /\ pc' = "header" /\ UNCHANGED status
       ELSE /\ out' = out \o packet.lines
            /\ Exit(0) /\ UNCHANGED end_header
    /\ n' = n + 1
    /\ UNCHANGED <<cmd, params, len, reply, got>>

Step == Start \/ Build \/ Write \/ ReadHeader \/ ReadBody \/ Handle
Next == Step
Spec == Init /\ [][Next]_vars /\ WF_vars(Step)
-----------------------------------------------------------------------------
\* Unless the parameters are too long for their record, the server finds in what
\* is written what the program meant: the four records take up all of it, every
\* length is in the form the server expects for it and is that of the text it is
\* about. So for every length of the script's name and of its data.
RequestRight ==
    pc \in {"header", "body", "handle"} /\ Bytes(params) < 2^16 =>
        /\ FoldLeft(LAMBDA sum, l : sum + HeaderSize + l, 0, Records)
              = 5 * HeaderSize + Bytes(params)
        /\ \A k \in 1..(Len(params) \div 4) : \A f \in {1, 2} :
              LET field == params[4 * (k - 1) + f]
                  text  == params[4 * (k - 1) + f + 2]
              IN  /\ field.length = text.size
                  /\ (field.size = 1) = (field.length <= 127)

\* However the reply is cut into packets and pieces, and wherever it ends: no
\* line of the header is printed; of the packet that ends the header at most one
\* line is, the first; every later line of the script is printed, once and in
\* order. The status is 0 if and only if the server has ended the request.
ClientRight ==
    pc = "exit" =>
        LET handled == SubSeq(reply, 1, n)
            texts == SelectSeq(handled, IsText)
            last  == SelectInSeq(texts, EndsHeader)
            later == SubSeq(texts, last + 1, Len(texts))
            lines == IF last = 0 THEN <<>>
                     ELSE FirstLine(texts[last].lines) \o FlattenSeq([k \in DOMAIN later |-> later[k].lines])
            ended == n > 0 /\ ~IsText(reply[n])
        IN  /\ (status = 0) = ended
            /\ out = lines \o (IF ended THEN reply[n].lines ELSE <<>>)

\* The program ends, unless a header came in two pieces.
ClientEnds == <>(pc \in {"exit", "undefined"})
===============================================================================
