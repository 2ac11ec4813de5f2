------------------------------ MODULE MCPages ------------------------------
\* Small instances of EditForm, Reader, Consent and McpAccess for TLC.  They share no state: an
\* instance runs one of them.
EXTENDS EditForm, Reader, Consent, McpAccess, TLC

\* Two plain texts, the empty text, a blank, and one of two lines with a blank at its end,
\* its lines broken by LF ("a/b "), by CRLF or joined, with the blank and without.
MCTrim ==
    [text \in Texts |-> CASE text = "a/b " -> "a/b" [] text = "a//b " -> "a//b" [] text = "ab " -> "ab"
                          [] text = " " -> "" [] OTHER -> text]

\* A new text; over a required field also a blank, over another the empty text.
MCTyped == [f \in Fields |-> {"b", IF f \in Required THEN " " ELSE ""}]

\* The required field is a line, as titles and names are; the other has a textarea.
MCSends ==
    [f \in Fields |-> [text \in Texts |->
        IF f \in Required
        THEN CASE text \in {"a/b ", "a//b "} -> "ab " [] text \in {"a/b", "a//b"} -> "ab" [] OTHER -> text
        ELSE CASE text = "a/b " -> "a//b " [] text = "a/b" -> "a//b" [] OTHER -> text]]

VARIABLE part   \* the one that runs

Init ==
    /\ part \in {"forms", "reader", "consent", "access"}
    /\ FormInit /\ ReaderInit /\ ConsentInit /\ AccessInit
    /\ part # "forms" => page = Settings
    /\ \A f \in Required : row[f] = "a"
    /\ part # "access" => \A k \in Keys : key[k].state = "live"

Next ==
    /\ UNCHANGED part
    /\ \/ part = "forms" /\ FormNext /\ UNCHANGED <<readerVars, consentVars, accessVars>>
       \/ part = "reader" /\ ReaderNext /\ UNCHANGED <<formVars, consentVars, accessVars>>
       \/ part = "consent" /\ ConsentNext /\ UNCHANGED <<formVars, readerVars, accessVars>>
       \/ part = "access" /\ AccessNext /\ UNCHANGED <<formVars, readerVars, consentVars>>

PagesSpec == Init /\ [][Next]_<<formVars, readerVars, consentVars, accessVars, part>>

\* Every variable of the four has the type its module declares.
PagesTypeOK == FormTypeOK /\ ReaderTypeOK /\ ConsentTypeOK /\ AccessTypeOK

Symmetry == Permutations(Tabs)
=============================================================================
