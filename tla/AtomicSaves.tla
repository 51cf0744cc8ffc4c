------------------------------ MODULE AtomicSaves ------------------------------
(***************************************************************************)
(* What the edit pages of dashboards promise their users: a save takes     *)
(* effect at once and as a whole, or is refused, and a save that says what *)
(* its author has on the screen takes effect only while the stored record  *)
(* is what is on that screen.                                              *)
(***************************************************************************)
CONSTANTS
    Editors,  \* users with the record on their screen
    Fields,   \* columns of the record
    Values    \* their contents

VARIABLES
    content,  \* [Fields -> Values]: the stored record
    view,     \* [Editors -> [Fields -> Values]]: what each editor sees
    careful   \* [Editors -> BOOLEAN]: is a save under way that says what it saw?

vars == <<content, view, careful>>

Forms == UNION {[F -> Values] : F \in SUBSET Fields \ {{}}}

\* The record once the fields of a form are written over it.
With(record, form) ==
    [f \in Fields |-> IF f \in DOMAIN form THEN form[f] ELSE record[f]]

Init ==
    /\ content \in [Fields -> Values]
    /\ view = [e \in Editors |-> content]
    /\ careful = [e \in Editors |-> FALSE]

Reload(e) == view' = [view EXCEPT ![e] = content] /\ UNCHANGED <<content, careful>>

Begin(e)  == careful' = [careful EXCEPT ![e] = TRUE] /\ UNCHANGED <<content, view>>

Refuse(e) == careful' = [careful EXCEPT ![e] = FALSE] /\ UNCHANGED <<content, view>>

\* A save that writes: all of the form, and with care only on what is seen.
Save(e, form) ==
    /\ careful[e] => view[e] = content
    /\ content' = With(content, form)
    /\ view' = [view EXCEPT ![e] = With(view[e], form)]
    /\ careful' = [careful EXCEPT ![e] = FALSE]

\* A save of a form that says nothing new writes nothing.
SaveNothing(e, form) ==
    /\ view' = [view EXCEPT ![e] = With(view[e], form)]
    /\ careful' = [careful EXCEPT ![e] = FALSE]
    /\ UNCHANGED content

Next ==
    \E e \in Editors :
        \/ Reload(e) \/ Begin(e) \/ Refuse(e)
        \/ \E form \in Forms : Save(e, form) \/ SaveNothing(e, form)

Spec == Init /\ [][Next]_vars

==============================================================================
