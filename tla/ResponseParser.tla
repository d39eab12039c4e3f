--------------------------- MODULE ResponseParser ---------------------------
(***************************************************************************)
(* handleData() and processLine() of src/src/node.ts under what a TCP      *)
(* stream can do to them: the answers of the server arrive cut into chunks *)
(* at any place, inside a line end and inside a value, and a value may     *)
(* contain line ends and text that looks like a line of the protocol.      *)
(*                                                                         *)
(* The stream is a sequence of symbols.  The text of a line is one symbol, *)
(* its line end is two (CR, LF), a byte of a value is one.  Lengths count  *)
(* symbols.  The loop of handleData() is a sequence of steps; the next     *)
(* chunk comes when the loop has ended, since a callback runs to its end.  *)
(***************************************************************************)
EXTENDS Integers, Sequences, SequencesExt

CONSTANTS
    Words,      \* texts of lines and bytes of values, as far as told apart
    Pipelines   \* sequences of commands that are sent before the first
                \* answer comes, each command with the answer it gets

ASSUME WordsAssumption ==
    {"CR", "LF", "VALUE", "CONFIG", "STAT", "END", "ERROR"} \subseteq Words

CR == [word |-> "CR"]
LF == [word |-> "LF"]

-----------------------------------------------------------------------------
\* The server's side: what a command is answered with, and what a caller
\* ought to make of it.

\* A multi-get finds `hits`, pairs of a key and a value; it may fail after it
\* has sent some of them, with an error line in the place of END.
MultiGet(keys, hits, fails) ==
    [kind |-> "multi", keys |-> keys, hits |-> hits, fails |-> fails]
Stats(lines, fails)   == [kind |-> "stats", lines |-> lines, fails |-> fails]
Config(value, fails)  == [kind |-> "config", value |-> value, fails |-> fails]
Single(line)          == [kind |-> "single", line |-> line]

\* Values are any symbols, line ends and what looks like a line among them.  A
\* configuration is not empty, and statistics fail as a whole or not at all.
Symbols ==
    [word : Words] \cup [word : {"STAT"}, text : Words]
                   \cup [word : {"VALUE", "CONFIG"}, key : Nat, bytes : Nat]
Commands ==
    [kind : {"multi"}, keys : SUBSET Nat, hits : Seq([key : Nat, value : Seq(Symbols)]),
     fails : BOOLEAN]
        \cup [kind : {"stats"}, lines : Seq([word : {"STAT"}, text : Words]), fails : {FALSE}]
        \cup [kind : {"stats"}, lines : {<<>>}, fails : {TRUE}]
        \cup [kind : {"config"}, value : Seq(Symbols) \ {<<>>}, fails : BOOLEAN]
        \cup [kind : {"single"}, line : Words]

ASSUME PipelinesAssumption == Pipelines \subseteq Seq(Commands)

Text(symbol) == <<symbol, CR, LF>>
Body(word, key, value) ==
    Text([word |-> word, key |-> key, bytes |-> Len(value)]) \o value \o <<CR, LF>>

LastLine(c) == Text([word |-> IF c.fails THEN "ERROR" ELSE "END"])

\* The symbols the server sends for command c.
Wire(c) ==
    CASE c.kind = "multi"  -> FlattenSeq([i \in DOMAIN c.hits |->
                                 Body("VALUE", c.hits[i].key, c.hits[i].value)]) \o LastLine(c)
      [] c.kind = "stats"  -> FlattenSeq([i \in DOMAIN c.lines |->
                                 Text(c.lines[i])]) \o LastLine(c)
      [] c.kind = "config" -> (IF c.fails THEN <<>> ELSE Body("CONFIG", 0, c.value)) \o LastLine(c)
      [] c.kind = "single" -> Text([word |-> c.line])

Stream(commands) == FlattenSeq([i \in DOMAIN commands |-> Wire(commands[i])])

Result(how, values, found, missed) ==
    [how |-> how, values |-> values, foundKeys |-> found, missed |-> missed]
Rejected         == Result("rejected", <<>>, <<>>, {})
Resolved(values) == Result("resolved", values, <<>>, {})
ResolvedFalse    == Result("false", <<>>, <<>>, {})

\* The answer as the caller should see it, without any parsing.
Meaning(c) ==
    IF c.kind = "single" THEN CASE c.line = "ERROR"      -> Rejected
                                [] c.line = "NOT_STORED" -> ResolvedFalse
                                [] OTHER                 -> Resolved(<<<<[word |-> c.line]>>>>)
    ELSE IF c.fails THEN Rejected
    ELSE CASE c.kind = "stats"  -> Resolved([i \in DOMAIN c.lines |-> <<c.lines[i]>>])
           [] c.kind = "config" -> Resolved(<<c.value>>)
           [] c.kind = "multi"  ->
                 LET found == [i \in DOMAIN c.hits |-> c.hits[i].key] IN
                 Result("resolved", [i \in DOMAIN c.hits |-> c.hits[i].value],
                        found, c.keys \ ToSet(found))

-----------------------------------------------------------------------------
VARIABLES
    commandQueue,       \* _commandQueue
    currentCommand,     \* _currentCommand, as a sequence of none or one
    foundKeys,          \* foundKeys of the current command
    multilineData,      \* _multilineData
    pendingValueBytes,  \* _pendingValueBytes
    buffer,             \* _buffer
    running,            \* the loop of handleData() is running
    incoming,           \* symbols the network has not delivered yet
    results,            \* how the promises settled, in order
    pipeline            \* the commands sent (does not change)

vars == <<commandQueue, currentCommand, foundKeys, multilineData, pendingValueBytes,
          buffer, running, incoming, results, pipeline>>

Init ==
    /\ pipeline \in Pipelines
    /\ commandQueue = pipeline
    /\ currentCommand = <<>>
    /\ foundKeys = <<>>
    /\ multilineData = <<>>
    /\ pendingValueBytes = 0
    /\ buffer = <<>>
    /\ running = FALSE
    /\ incoming = Stream(pipeline)
    /\ results = <<>>

\* A chunk of n symbols: handleData() is called.
Deliver(n) ==
    /\ ~running
    /\ n \in 1 .. Len(incoming)
    /\ buffer' = buffer \o SubSeq(incoming, 1, n)
    /\ incoming' = SubSeq(incoming, n + 1, Len(incoming))
    /\ running' = TRUE
    /\ UNCHANGED <<commandQueue, currentCommand, foundKeys, multilineData,
                   pendingValueBytes, results, pipeline>>

\* The bytes of the buffer after the first n.
Rest(n) == SubSeq(buffer, n + 1, Len(buffer))

\* (mutant) the value is taken as soon as its own bytes are there.
ValueWithoutLineEnd == pendingValueBytes > 0 /\ Len(buffer) >= pendingValueBytes

ValueComplete == pendingValueBytes > 0 /\ Len(buffer) >= pendingValueBytes + 2

ReadValue ==
    /\ running
    /\ ValueComplete
    /\ multilineData' = Append(multilineData, SubSeq(buffer, 1, pendingValueBytes))
    /\ buffer' = Rest(pendingValueBytes + 2)
    /\ pendingValueBytes' = 0
    /\ UNCHANGED <<commandQueue, currentCommand, foundKeys, running, incoming, results, pipeline>>

\* Where buffer.indexOf("\r\n") can be.
LineEnds == {i \in 1 .. Len(buffer) - 1 : buffer[i] = CR /\ buffer[i + 1] = LF}
LineEnd  == CHOOSE i \in LineEnds : \A j \in LineEnds : i <= j

-----------------------------------------------------------------------------
\* processLine()

\* The command the line is for, and the queue behind it.
Shifted == IF currentCommand = <<>> THEN Head(commandQueue) ELSE Head(currentCommand)
Behind  == IF currentCommand = <<>> THEN Tail(commandQueue) ELSE commandQueue

\* Lines as the code tests for them: a whole line, or its first word.
Is(line, word)         == line = <<[word |-> word]>>
StartsWith(line, word) == line # <<>> /\ line[1].word = word

Settle(result) == results' = Append(results, result)

\* The promise is settled, and the next line is for the next command.
Finish ==
    /\ currentCommand' = <<>>
    /\ foundKeys' = <<>>
    /\ UNCHANGED pendingValueBytes

Continue(c) ==
    /\ currentCommand' = <<c>>
    /\ UNCHANGED results

StatsLine(c, line) ==
    /\ c.kind = "stats"
    /\ \/ /\ Is(line, "END")
          /\ Settle(Resolved(multilineData))
          /\ multilineData' = <<>>
          /\ Finish
       \/ /\ StartsWith(line, "STAT")
          /\ multilineData' = Append(multilineData, line)
          /\ Continue(c)
          /\ UNCHANGED <<foundKeys, pendingValueBytes>>
       \/ /\ StartsWith(line, "ERROR")
          /\ Settle(Rejected)
          /\ UNCHANGED multilineData
          /\ Finish

ConfigLine(c, line) ==
    /\ c.kind = "config"
    /\ \/ /\ StartsWith(line, "CONFIG")
          /\ pendingValueBytes' = line[1].bytes
          /\ Continue(c)
          /\ UNCHANGED <<foundKeys, multilineData>>
       \/ /\ Is(line, "END")
          /\ Settle(Resolved(multilineData))
          /\ multilineData' = <<>>
          /\ Finish
       \/ /\ StartsWith(line, "ERROR")
          /\ Settle(Rejected)
          /\ multilineData' = <<>>
          /\ Finish

\* VALUE <key> <flags> <bytes>: an empty value is complete with its line.
ValueLine(c, line) ==
    /\ StartsWith(line, "VALUE")
    /\ foundKeys' = Append(foundKeys, line[1].key)
    /\ IF line[1].bytes = 0
       THEN /\ multilineData' = Append(multilineData, <<>>)
            /\ UNCHANGED pendingValueBytes
       ELSE /\ pendingValueBytes' = line[1].bytes
            /\ UNCHANGED multilineData
    /\ Continue(c)

MultiFails(line) ==
    /\ StartsWith(line, "ERROR")
    /\ Settle(Rejected)
    /\ multilineData' = <<>>
    /\ Finish

\* END: the values, the keys they belong to, and a miss event for the others.
MultiEnds(c, line) ==
    /\ Is(line, "END")
    /\ Settle(Result("resolved", multilineData, foundKeys, c.keys \ ToSet(foundKeys)))
    /\ multilineData' = <<>>
    /\ Finish

MultiLine(c, line) ==
    /\ c.kind = "multi"
    /\ ValueLine(c, line) \/ MultiEnds(c, line) \/ MultiFails(line)

\* Any other line inside a multi-line answer, such as the empty one after an
\* empty value, is dropped.
DroppedLine(c, line) ==
    /\ c.kind # "single"
    /\ ~Is(line, "END") /\ ~StartsWith(line, "ERROR")
    /\ ~\E word \in {"VALUE", "CONFIG", "STAT"} :
          StartsWith(line, word) /\ <<c.kind, word>> \in
              {<<"multi", "VALUE">>, <<"config", "CONFIG">>, <<"stats", "STAT">>}
    /\ Continue(c)
    /\ UNCHANGED <<foundKeys, multilineData, pendingValueBytes>>

SingleLine(c, line) ==
    /\ c.kind = "single"
    /\ Settle(CASE StartsWith(line, "ERROR") -> Rejected
                [] Is(line, "NOT_STORED")    -> ResolvedFalse
                [] OTHER                     -> Resolved(<<line>>))
    /\ Finish
    /\ UNCHANGED multilineData

ProcessLine(line) ==
    IF currentCommand = <<>> /\ commandQueue = <<>>
    THEN UNCHANGED <<commandQueue, currentCommand, foundKeys, multilineData,
                     pendingValueBytes, results>>
    ELSE /\ commandQueue' = Behind
         /\ \/ StatsLine(Shifted, line)
            \/ ConfigLine(Shifted, line)
            \/ MultiLine(Shifted, line)
            \/ SingleLine(Shifted, line)
            \/ DroppedLine(Shifted, line)

ReadLine ==
    /\ running
    /\ pendingValueBytes = 0
    /\ LineEnds # {}
    /\ ProcessLine(SubSeq(buffer, 1, LineEnd - 1))
    /\ buffer' = Rest(LineEnd + 1)
    /\ UNCHANGED <<running, incoming, pipeline>>

\* Not enough data yet: the loop ends.
Break ==
    /\ running
    /\ ~ValueComplete
    /\ pendingValueBytes > 0 \/ LineEnds = {}
    /\ running' = FALSE
    /\ UNCHANGED <<commandQueue, currentCommand, foundKeys, multilineData,
                   pendingValueBytes, buffer, incoming, results, pipeline>>

Next == (\E n \in 1 .. Len(incoming) : Deliver(n)) \/ ReadValue \/ ReadLine \/ Break

Spec == Init /\ [][Next]_vars

-----------------------------------------------------------------------------
\* Properties

\* The answers whose last symbol has been delivered.
Arrived ==
    {n \in 0 .. Len(pipeline) :
        Len(Stream(SubSeq(pipeline, 1, n))) + Len(incoming) <= Len(Stream(pipeline))}

\* However the stream is cut into chunks, each promise settles with exactly
\* what the server meant, as soon as the last byte of the answer is there and
\* not before (node.ts 811-1019).
ExactAndPrompt ==
    ~running =>
        LET n == CHOOSE n \in Arrived : \A m \in Arrived : m <= n IN
        results = [i \in 1 .. n |-> Meaning(pipeline[i])]

=============================================================================
