---------------------------- MODULE MCImportFile ----------------------------
(***************************************************************************)
(* Instances of ImportFile for TLC.                                        *)
(***************************************************************************)
EXTENDS ImportFile, TLC

CONSTANTS p1, p2, t1

Record(p, t, ok) == [provider |-> p, transactionId |-> t, ok |-> ok]

\* Records with their own providers, one without, one that is not valid, one without an id.
MCObjects ==
    {Record(p1, t1, TRUE), Record(p2, t1, TRUE), Record(None, t1, TRUE),
     Record(p1, t1, FALSE), Record(p1, None, TRUE)}

\* Lines with one of these; two values on a line, blank lines, and nothing at all.
RawLines ==
    {<<Space, record>> : record \in MCObjects}
        \cup {<<>>, <<Space>>, <<Record(p1, t1, TRUE), Space, Garbage>>}

\* Files of three such lines, with either line end, the last line with or without.
OrdinaryFiles ==
    {a \o eol \o b \o eol \o c \o last :
        a \in RawLines, b \in RawLines, c \in RawLines,
        eol \in {<<LF>>, <<CR, LF>>}, last \in {<<>>, <<LF>>}}

AllKeys == {p1, p2, None} \X {t1}

\* The records of one provider have an amount that is too large.
UnstorableKeys == {p2} \X {t1}

\* Every sequence of up to three parsed lines: what those files can become.
AllFiles == UNION {[1..n -> Lines] : n \in 0..3}
=============================================================================
