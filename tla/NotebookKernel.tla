---------------------------- MODULE NotebookKernel ----------------------------
(***************************************************************************)
(* ERP5Kernel of src/component/jupyter-erp5/ERP5kernel.py (the file is     *)
(* also in src/software/jupyter): a Jupyter kernel that posts the code of  *)
(* its cells to ERP5, once the user has entered the magics.                *)
(*                                                                         *)
(* A cell is one step, as the kernel handles one at a time; each post has  *)
(* an outcome: the status of the answer, or an exception of the library    *)
(* "requests", before or after ERP5 received the code.                     *)
(***************************************************************************)
EXTENDS Naturals

CONSTANT
    MaxCells        \* bound: cells that are executed

VARIABLES
    entered,        \* the attributes that are set; url comes with the installation
    status_code,    \* of the last answer: "200", "500" (for 5xx), "401" (for others) or "none"
    response,       \* [cell, kind]: cell for which self.response was set, and what it is
    cell,           \* number of the cell, bounded by MaxCells
    posted,         \* times ERP5 received the code of the cell
    shown           \* what the cell displays

vars == <<entered, status_code, response, cell, posted, shown>>

Required == {"url", "user", "password", "reference"}
Allowed == {"200", "500"}
Outcome == {"200", "500", "401", "lost before", "lost after"}

TypeOK ==
    /\ entered \subseteq Required
    /\ status_code \in {"200", "500", "401", "none"}
    /\ response \in [cell : 0..MaxCells, kind : {"content", "error code", "exception", "message"}]
    /\ cell \in 0..MaxCells /\ posted \in 0..2
    /\ shown \in {"nothing", "message", "result", "server error", "unauthorized"}

Init ==
    /\ entered = {"url"} /\ status_code = "none"
    /\ response = [cell |-> 0, kind |-> "message"]
    /\ cell = 0 /\ posted = 0 /\ shown = "nothing"

-----------------------------------------------------------------------------
\* make_erp5_request: status_code and response after a post with outcome o.  An exception
\* leaves status_code as it is.
StatusAfter(status, o) == IF o \in {"200", "500", "401"} THEN o ELSE status

\* Variant of ResponseAfter: an exception leaves the response as it is, too.
ResponseKept(o) ==
    IF o \in {"200", "500", "401"} THEN [cell |-> cell', kind |-> "content"] ELSE response

ResponseAfter(o) ==
    [cell |-> cell', kind |-> IF o \in Allowed THEN "content"
                              ELSE IF o = "401" THEN "error code" ELSE "exception"]

Received(o) == IF o = "lost before" THEN 0 ELSE 1

NextCell == cell < MaxCells /\ cell' = cell + 1

\* set_magic_attribute: the reference needs the other attributes; an empty value sets nothing.
SetBy(magic, given) ==
    IF given /\ (magic = "reference" => Required \ {"reference"} \subseteq entered)
    THEN {magic} ELSE {}

\* A cell with a magic that sets an attribute, and posts if all are set.
Magic(magic, given) ==
    /\ NextCell /\ posted' = 0 /\ shown' = "message"
    /\ entered' = entered \cup SetBy(magic, given)
    /\ IF entered' = Required
       THEN \E o \in Outcome :
               /\ status_code' = StatusAfter(status_code, o)
               /\ response' = IF o \in Allowed THEN [cell |-> cell', kind |-> "message"]
                              ELSE ResponseAfter(o)
       ELSE /\ response' = [cell |-> cell', kind |-> "message"]
            /\ UNCHANGED status_code

\* my_notebooks sets nothing, and shows what ERP5 answers.
MyNotebooks ==
    /\ NextCell /\ posted' = 0 /\ shown' = "message"
    /\ IF entered = Required
       THEN \E o \in Outcome :
               /\ status_code' = StatusAfter(status_code, o)
               /\ response' = ResponseAfter(o)
       ELSE /\ response' = [cell |-> cell', kind |-> "message"]
            /\ UNCHANGED status_code
    /\ UNCHANGED entered

\* notebook_set_title asks for no post, nor does a magic that does not exist.
OtherMagic ==
    /\ NextCell /\ posted' = 0 /\ shown' = "message"
    /\ response' = [cell |-> cell', kind |-> "message"]
    /\ UNCHANGED <<entered, status_code>>

\* Code, when the last answer allows it.  Unless the status is now "200" the same code is
\* posted again, and a server error is shown.
Execute ==
    /\ NextCell /\ status_code \in Allowed
    /\ \E o \in Outcome :
          LET status == StatusAfter(status_code, o)
          IN  IF status = "200"
              THEN /\ posted' = Received(o) /\ shown' = "result"
                   /\ status_code' = status /\ response' = ResponseAfter(o)
              ELSE \E again \in Outcome :
                      /\ posted' = Received(o) + Received(again)
                      /\ shown' = "server error"
                      /\ status_code' = StatusAfter(status, again)
                      /\ response' = ResponseAfter(again)
    /\ UNCHANGED entered

Unauthorized ==
    /\ NextCell /\ status_code \notin Allowed
    /\ posted' = 0 /\ shown' = "unauthorized"
    /\ UNCHANGED <<entered, status_code, response>>

Next ==
    \/ Execute \/ Unauthorized \/ MyNotebooks \/ OtherMagic
    \/ \E magic \in Required, given \in BOOLEAN : Magic(magic, given)

Spec == Init /\ [][Next]_vars

-----------------------------------------------------------------------------
\* What a cell shows as its result is what became of its own post, never the answer to an
\* earlier cell; its code was posted once, or its result is the text of an exception; and
\* code is only posted with all the magics entered.
ResultIsOfTheCell ==
    /\ shown = "result" => response.cell = cell /\ (posted = 1 \/ response.kind = "exception")
    /\ posted > 0 => entered = Required /\ shown \in {"result", "server error"}
=============================================================================
