------------------------------- MODULE Renderer -------------------------------
(***************************************************************************)
(* render_report() of rag/render.py on the directory of a single-shot run: *)
(* the graph renders the report once, --render of app.py writes it again   *)
(* over the files that are there, and two records say what they are worth. *)
(* A process may crash, or a write fail, at any of the writes.             *)
(*                                                                         *)
(* A rendering is a number; a file shows the rendering that wrote it, or   *)
(* is torn while it is being written.  write_json and the PDF replace      *)
(* their file in one step, write_text does not.                            *)
(***************************************************************************)
EXTENDS Integers, Sequences

CONSTANT Renderings     \* times the directory is rendered

RenderingsAssumption == Renderings \in Nat \ {0}

VARIABLES
    pc,         \* the next write, "idle" between renderings
    current,    \* the number of the rendering
    file,       \* per file, the rendering it shows; 0 if absent
    record,     \* per record, what it says of the files
    answer      \* what the last rendering returned

vars == <<pc, current, file, record, answer>>

Torn == -1

Records == {"document_validation", "pdf_validation"}

(* _render_report writes its files in this order, the PDF last. *)
Order == <<"named_report", "report", "citation_review", "gap_review", "conflict_review",
           "conflict_records", "pdf">>

Files == {Order[i] : i \in DOMAIN Order}

Atomic == {"conflict_records", "pdf"}

Started == [says |-> "started", rendering |-> 0]

Failed == [says |-> "failed", rendering |-> 0]

Generated(n) == [says |-> "generated", rendering |-> n]

Writes == {<<f, "open">> : f \in Files \ Atomic} \cup {<<f, "write">> : f \in Files}

Goes(next) == pc' = next

-------------------------------------------------------------------------------

(* Variant: the records of the last success stay until there are new ones. *)
BeginPlainly ==
    /\ pc = <<"idle">>
    /\ current < Renderings
    /\ current' = current + 1
    /\ answer' = "none"
    /\ Goes(<<Order[1], "open">>)
    /\ UNCHANGED <<file, record>>

(* "Complete only when both formats and their review sheets have been      *)
(* written": the records are set to started before any file is touched.    *)
Begin ==
    /\ pc = <<"idle">>
    /\ current < Renderings
    /\ current' = current + 1
    /\ answer' = "none"
    /\ record' = [record EXCEPT !["document_validation"] = Started]
    /\ Goes(<<"pending">>)
    /\ UNCHANGED file

Pending ==
    /\ pc = <<"pending">>
    /\ record' = [record EXCEPT !["pdf_validation"] = Started]
    /\ Goes(<<Order[1], "open">>)
    /\ UNCHANGED <<current, file, answer>>

(* write_text truncates, then writes; the others replace. *)
Open(f) ==
    /\ pc = <<f, "open">>
    /\ file' = [file EXCEPT ![f] = Torn]
    /\ Goes(<<f, "write">>)
    /\ UNCHANGED <<current, record, answer>>

(* The next file is opened for writing, or made aside and moved there. *)
Write(i) ==
    /\ pc = <<Order[i], "write">>
    /\ file' = [file EXCEPT ![Order[i]] = current]
    /\ IF i = Len(Order) THEN Goes(<<"record", "pdf_validation">>)
       ELSE Goes(<<Order[i + 1], IF Order[i + 1] \in Atomic THEN "write" ELSE "open">>)
    /\ UNCHANGED <<current, record, answer>>

RecordPdf ==
    /\ pc = <<"record", "pdf_validation">>
    /\ record' = [record EXCEPT !["pdf_validation"] = Generated(current)]
    /\ Goes(<<"record", "document_validation">>)
    /\ UNCHANGED <<current, file, answer>>

RecordDocument ==
    /\ pc = <<"record", "document_validation">>
    /\ record' = [record EXCEPT !["document_validation"] = Generated(current)]
    /\ answer' = "paths"
    /\ Goes(<<"idle">>)
    /\ UNCHANGED <<current, file>>

(* A changed body, a dangling link, the layout or the disk; both records   *)
(* are set to failed, one after the other, and the exception goes on.      *)
Fail ==
    /\ pc \in Writes \cup {<<"record", r>> : r \in Records}
    /\ record' = [record EXCEPT !["document_validation"] = Failed]
    /\ Goes(<<"failing">>)
    /\ UNCHANGED <<current, file, answer>>

Failing ==
    /\ pc = <<"failing">>
    /\ record' = [record EXCEPT !["pdf_validation"] = Failed]
    /\ answer' = "raised"
    /\ Goes(<<"idle">>)
    /\ UNCHANGED <<current, file>>

(* The process dies, or one of the records cannot be written (lines 88 and *)
(* 95 of rag/render.py), which no handler is left to tell: the directory   *)
(* stays as it is.                                                         *)
Crash ==
    /\ pc # <<"idle">>
    /\ answer' = "crashed"
    /\ Goes(<<"idle">>)
    /\ UNCHANGED <<current, file, record>>

-------------------------------------------------------------------------------

Init ==
    /\ pc = <<"idle">>
    /\ current = 0
    /\ file = [f \in Files |-> 0]
    /\ record = [r \in Records |-> Started]
    /\ answer = "none"

Next ==
    \/ Begin \/ Pending
    \/ \E f \in Files : Open(f)
    \/ \E i \in DOMAIN Order : Write(i)
    \/ RecordPdf \/ RecordDocument
    \/ Fail \/ Failing \/ Crash

Spec == Init /\ [][Next]_vars

-------------------------------------------------------------------------------
(* Properties. *)

(* Every variable has its type. *)
TypeOK ==
    /\ pc \in Writes \cup {<<"record", r>> : r \in Records}
              \cup {<<"idle">>, <<"pending">>, <<"failing">>}
    /\ current \in 0 .. Renderings
    /\ file \in [Files -> Torn .. Renderings]
    /\ record \in [Records -> {Started, Failed} \cup {Generated(n) : n \in 1 .. Renderings}]
    /\ answer \in {"none", "paths", "raised", "crashed"}

(* A record of success is true of the files in the directory: they are all *)
(* there, whole, and of the rendering it names, however a later rendering  *)
(* failed or crashed ("a failed re-rendering turns the record of the       *)
(* earlier success into a failure").                                       *)
RecordIsTrue ==
    \A r \in Records :
        record[r].says = "generated" => \A f \in Files : file[f] = record[r].rendering

(* A rendering that returns its paths, or raises with its failure on       *)
(* record, leaves both records with its own verdict.                       *)
RecordsAgree ==
    pc = <<"idle">> =>
        /\ answer = "paths"  => \A r \in Records : record[r] = Generated(current)
        /\ answer = "raised" => \A r \in Records : record[r] = Failed

(* What the two records say of the directory.                              *)
RenderingIsSound == TypeOK /\ RecordIsTrue /\ RecordsAgree

===============================================================================
