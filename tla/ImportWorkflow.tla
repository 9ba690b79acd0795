----------------------------- MODULE ImportWorkflow -----------------------------
(***************************************************************************)
(* The import of external mailboxes (emails/ImportWorkflow.tsx with           *)
(* emails/importPreview.ts): lines are typed or read from a file, checked in     *)
(* the page, and those that pass are sent to importMailAccounts, which takes     *)
(* some and says which it rejects. What failed can be edited and sent again.     *)
(***************************************************************************)
EXTENDS ConsolePage, SequencesExt

CONSTANT MaxLines

\* Of a line the preview tells apart how it starts (with the name of a profile, with an
\* address, otherwise), its mailbox (None: no address), whether the address' domain is
\* known and whether the fields it needs are there.
Line(start, email, known, whole) == [start |-> start, email |-> email, known |-> known, whole |-> whole]

Lines == {Line("profile", email, TRUE, TRUE) : email \in Rows}
         \cup {Line("address", email, FALSE, TRUE) : email \in Rows}
         \cup {Line("address", email, TRUE, FALSE) : email \in Rows}
         \cup {Line("other", None, FALSE, FALSE)}

\* step is 0, 1 or 2: lines, preview, result. separated says that the separator is not
\* blank, result what the last import came to.
ImportMount ==
  /\ ui = [open |-> FALSE, step |-> 0, content |-> <<>>, separated |-> TRUE, result |-> None, busy |-> {}]
  /\ calls = <<>>

\* resetWorkflow.
Reset(open) ==
  [ui EXCEPT !.open = open, !.step = 0, !.content = <<>>, !.separated = TRUE, !.result = None, !.busy = {}]

-----------------------------------------------------------------------------
(* The preview.                                                            *)

\* parseImportLine, by parseTokenizedLine or parseEmailFirstLine.
TokenizedSeverity(line) == IF line.email = None \/ ~line.whole THEN "error" ELSE "ready"
EmailFirstSeverity(line) ==
  IF line.email = None THEN "error"
  ELSE IF ~line.known THEN "warning"
  ELSE IF line.whole THEN "ready" ELSE "error"
SeverityOf(line) ==
  CASE line.start = "profile" -> TokenizedSeverity(line)
    [] line.start = "address" -> EmailFirstSeverity(line)
    [] OTHER -> "error"

\* buildImportPreview: of the lines of one mailbox that pass, the first does.
\* Mutant: a line is a duplicate only of the line before it.
DuplicateOfLast(content, n) ==
  /\ n > 1 /\ content[n - 1].email = content[n].email
  /\ SeverityOf(content[n - 1]) # "error"
Duplicate(content, n) ==
  \E k \in 1..(n - 1) : content[k].email = content[n].email /\ SeverityOf(content[k]) # "error"

Preview(content, separated) ==
  IF ~separated THEN <<>>
  ELSE [n \in 1..Len(content) |->
         [line |-> n, raw |-> content[n],
          severity |-> IF Duplicate(content, n) THEN "error" ELSE SeverityOf(content[n])]]

PreviewRows == Preview(ui.content, ui.separated)
Importable(row) == row.severity # "error"
ReadyRows == {row \in ToSet(PreviewRows) : Importable(row)}

-----------------------------------------------------------------------------
(* The failures of an import.                                              *)

\* What importMailAccounts says of a line that it rejects names the line by its text.
Complaint(row) == [names |-> "text", value |-> row.raw]

\* parseServerImportFailures looks for the number of a line of what was sent, which are
\* the submitted rows in their order.
NumberOf(row, submitted) == Cardinality({other \in submitted : other.line <= row.line})
Failure(complaint, submitted) ==
  IF complaint.names = "number"
  THEN LET row == CHOOSE row \in submitted : NumberOf(row, submitted) = complaint.value
       IN [line |-> row.line, raw |-> row.raw]
  ELSE [line |-> 0, raw |-> None]

\* buildFailedImportContent: by line, and each text once.
Earlier(f, g) == f.line < g.line
Once(texts, text) == IF Contains(texts, text) THEN texts ELSE Append(texts, text)
FailedContent(failures) ==
  LET kept == SetToSortSeq({f \in failures : f.raw # None}, Earlier)
  IN FoldLeft(LAMBDA texts, f : Once(texts, f.raw), <<>>, kept)

-----------------------------------------------------------------------------
(* The steps.                                                              *)

OpenImport == ~ui.open /\ ui' = [ui EXCEPT !.open = TRUE] /\ UNCHANGED calls

\* closeWorkflow.
CloseImport == ui.open /\ ui.busy = {} /\ ui' = Reset(FALSE) /\ UNCHANGED calls

TypeLines(content) == ui' = [ui EXCEPT !.content = content] /\ UNCHANGED calls
TypeSeparator == ui' = [ui EXCEPT !.separated = ~@] /\ UNCHANGED calls

\* handleFileUpload: the lines come when the file was read, wherever the user is by then.
UploadFile == UNCHANGED ui /\ Asked(<<[op |-> "file"]>>)
FileLand(i, content) == ui' = [ui EXCEPT !.content = content] /\ Landed(i, <<>>)
FileFail(i) == UNCHANGED ui /\ Landed(i, <<>>)

\* handleGeneratePreview.
GeneratePreview ==
  /\ ui.content # <<>> /\ ui.separated
  /\ ui' = [ui EXCEPT !.step = 1]
  /\ UNCHANGED calls

Back == ui' = [ui EXCEPT !.step = 0] /\ UNCHANGED calls

\* handleImport, up to its request; the local failures are those of the click.
Import ==
  /\ ReadyRows # {} /\ ui.busy = {}
  /\ ui' = [ui EXCEPT !.busy = {"import"}]
  /\ Asked(<<[op |-> "import", rows |-> ReadyRows, preview |-> PreviewRows]>>)

\* importMailAccounts takes all but the lines it rejects, and none is an error.
ImportLand(i, rejected) ==
  LET c == calls[i]
      refused == {row \in ToSet(c.preview) : ~Importable(row)}
      failures == {[line |-> row.line, raw |-> row.raw] : row \in refused}
                    \cup {Failure(Complaint(row), c.rows) : row \in rejected}
  IN /\ ui' = [ui EXCEPT !.step = 2,
                         !.result = [taken |-> {row.raw : row \in c.rows \ rejected},
                                     rejected |-> {row.raw : row \in rejected},
                                     local |-> Cardinality(refused), failures |-> failures]]
     /\ Landed(i, <<[op |-> "reload"]>>)

ImportFail(i) == ui' = [ui EXCEPT !.busy = {}] /\ Landed(i, <<>>)

\* onImported, which the import waits for; it reports its own errors.
ImportReloaded(i) == ui' = [ui EXCEPT !.busy = {}] /\ Landed(i, <<>>)

\* editFailedRows; downloadFailedRows writes the same lines to a file.
EditFailedRows ==
  /\ ui.result # None /\ FailedContent(ui.result.failures) # <<>>
  /\ ui' = [ui EXCEPT !.content = FailedContent(ui.result.failures), !.result = None, !.step = 0]
  /\ UNCHANGED calls

-----------------------------------------------------------------------------
InputStep ==
  \/ \E content \in BoundedSeq(Lines, MaxLines) : TypeLines(content)
  \/ TypeSeparator
  \/ GeneratePreview
  \/ Room /\ UploadFile

ImportNext ==
  \/ OpenImport \/ CloseImport
  \/ ui.open /\ ui.step = 0 /\ InputStep
  \/ ui.open /\ ui.step = 1 /\ (Back \/ (Room /\ Import))
  \/ ui.open /\ ui.step = 2 /\ EditFailedRows
  \/ \E i \in Waiting("file") : FileFail(i) \/ \E content \in BoundedSeq(Lines, MaxLines) : FileLand(i, content)
  \/ \E i \in Waiting("import") :
       ImportFail(i) \/ \E rejected \in SUBSET calls[i].rows :
                          rejected # calls[i].rows /\ ImportLand(i, rejected)
  \/ \E i \in Waiting("reload") : ImportReloaded(i)

-----------------------------------------------------------------------------
\* An import asks for a mailbox once, whatever was typed while an earlier one ran: the
\* server would overwrite the first line of it by the second.
MailboxOnce ==
  \A i \in Waiting("import") :
    \A row, other \in calls[i].rows : row.raw.email = other.raw.email => row = other
=============================================================================
