------------------------------ MODULE ImportFile ------------------------------
(***************************************************************************)
(* A file from its bytes to the counters of its import: ImportPipeline     *)
(* with the two passes over the file that execute makes.  countLines scans *)
(* bytes for totalRecords; readLines splits the same bytes into lines,     *)
(* which are parsed and validated.                                         *)
(*                                                                         *)
(* A file is a sequence of line ends, white space and values.  A value     *)
(* stands for the bytes of one JSON value, without white space around it:  *)
(* Garbage (malformed, too long, or no object) or an object, known by what *)
(* validateTransaction makes of its fields: [provider, transactionId, ok]. *)
(* provider and transactionId are normalised, and None when they are       *)
(* absent or cannot be; ok is whether every other field passes its check.  *)
(*                                                                         *)
(* execute falls back on imports.provider, which nothing ever writes: the  *)
(* fallback is the empty provider, None, for every import.                 *)
(***************************************************************************)
EXTENDS ImportPipeline

CONSTANTS
    LF, CR,
    Space,      \* a space or a tab
    WideSpace,  \* any other white space of trim(): not for countLines, vertical tab included
    LineSeparator,  \* U+2028 or U+2029: white space too, and a line end for readline
    Garbage,
    Objects,
    RawFiles

Blanks == {LF, CR, Space, WideSpace, LineSeparator}

VARIABLES
    bytes,      \* each import's file
    total       \* imports.totalRecords

fileVars == <<vars, bytes, total>>

\* The number of the line of byte n, when the bytes in `ends` end lines.
LineOf(n, ends) == 1 + Cardinality({m \in ends : m < n})

-----------------------------------------------------------------------------
(***************************************************************************)
(* The counting pass: the lines between LFs in which a byte sets           *)
(* currentLineHasContent.                                                  *)
(***************************************************************************)
LineFeeds(b) == {n \in DOMAIN b : b[n] = LF}

HasContent(b) == {n \in DOMAIN b : b[n] \notin {LF, CR, Space}}

\* Mutant: a last line without a line end is not counted.
CountTerminated(b) ==
    Cardinality({LineOf(n, LineFeeds(b)) :
                    n \in {m \in HasContent(b) : \E e \in LineFeeds(b) : m < e}})

CountLines(b) == Cardinality({LineOf(n, LineFeeds(b)) : n \in HasContent(b)})

-----------------------------------------------------------------------------
(***************************************************************************)
(* The processing pass.                                                    *)
(***************************************************************************)
\* readline ends a line at LF, at CR, once at CR LF (crlfDelay: Infinity), and at a
\* Unicode separator, one within a JSON string included.
EndsLine(b, n) ==
    \/ b[n] \in {LF, LineSeparator}
    \/ b[n] = CR /\ ~(n < Len(b) /\ b[n + 1] = LF)

LineEnds(b) == {n \in DOMAIN b : EndsLine(b, n)}

\* The lines readLines yields, the last one with or without a line end.
LinesRead(b) == IF b = <<>> THEN 0 ELSE LineOf(Len(b), LineEnds(b))

\* Mutant: the record's own provider is not looked at.
ValidateUnderFallback(record) ==
    IF record.transactionId = None \/ ~record.ok
      THEN Bad
      ELSE <<None, record.transactionId>>

\* A valid transaction's (provider, transactionId).  Without a provider it is accepted
\* under the fallback.
Validate(record) ==
    IF record.transactionId = None \/ ~record.ok
      THEN Bad
      ELSE <<record.provider, record.transactionId>>

\* What trim() leaves of the n-th line.
Trimmed(b, n) ==
    {m \in DOMAIN b : /\ b[m] \notin Blanks
                      /\ LineOf(m, LineEnds(b)) = n}

\* Nothing, one value, or malformed JSON.
ParseLine(b, n) ==
    LET text == Trimmed(b, n)
    IN  CASE text = {} -> Blank
          [] \E m \in text : text = {m} /\ b[m] # Garbage -> Validate(b[CHOOSE m \in text : TRUE])
          [] OTHER -> Bad

ParseFile(b) == [n \in 1..LinesRead(b) |-> ParseLine(b, n)]

ASSUME FileAssumption ==
    /\ RawFiles \subseteq Seq(Blanks \cup {Garbage} \cup Objects)
    /\ Objects \cap (Blanks \cup {Garbage}) = {}
    /\ \A record \in Objects : Validate(record) \in Keys \cup {Bad}

-----------------------------------------------------------------------------
FileInit ==
    /\ bytes \in [Imports -> RawFiles]
    /\ total = [i \in Imports |-> 0]
    /\ file = [i \in Imports |-> ParseFile(bytes[i])]
    /\ Init

\* markProcessing writes what countLines returned.
WriteTotal ==
    total' = [i \in Imports |->
                IF \E r \in Runs : importOf[r] = i /\ pc[r] = "waiting" /\ pc'[r] = "reading"
                  THEN CountLines(bytes[i]) ELSE total[i]]

FileStep(A) == A /\ WriteTotal /\ UNCHANGED bytes

FileNext == FileStep(Next)

FileSpec == FileInit /\ [][FileNext]_fileVars

FairFileSpec == FileSpec /\ \A r \in Runs : WF_fileVars(FileStep(RunStep(r)))

-----------------------------------------------------------------------------
(***************************************************************************)
(* Properties.                                                             *)
(***************************************************************************)
\* The only run of its import.
Alone(r) == \A q \in Runs : importOf[q] = importOf[r] => q = r

\* With no lost reply or second run, a completed import counted each record once, as
\* many as the counting pass announced, and rejected none twice.
ExactCounts ==
    \A r \in Runs : pc[r] = "completed" /\ Alone(r) =>
        LET i == importOf[r]
        IN  /\ processed[i] = total[i]
            /\ \A n \in 1..Len(file[i]) :
                  rejectedRows[i][n] = IF file[i][n] = Bad THEN 1 ELSE 0

\* A stored transaction stands in the file of its import, under the provider it names
\* itself: none of another provider, and none without one, can hide it as a duplicate.
StoredIsNamed ==
    \A k \in Keys : owner[k] # None =>
        \E n \in 1..Len(bytes[owner[k]]) :
            LET b == bytes[owner[k]][n]
            IN  /\ b \notin Blanks \cup {Garbage}
                /\ b.transactionId = k[2] /\ b.ok
                /\ k[1] = b.provider
=============================================================================
