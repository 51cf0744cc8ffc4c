---------------------------- MODULE VersionedRecords ----------------------------
(***************************************************************************)
(* A stored record that several users edit: a dashboard (Counts), or a     *)
(* query or a workbench (not Counts).  The page of each editor keeps a     *)
(* copy with the version it was read at, and sends partial forms, with or  *)
(* without that version.  The handler selects the row, compares the        *)
(* version, and updates the columns that changed WHERE the version is      *)
(* still the selected one; whether an UPDATE increments the version is the *)
(* mapper's version_id_generator.                                          *)
(*                                                                         *)
(* Sessions do not expire at commit: the response shows the row as it was  *)
(* committed, not as others may have left it since.                        *)
(***************************************************************************)
EXTENDS Naturals

CONSTANTS
    Editors,    \* users with the record on their page
    Fields,     \* columns that forms carry
    Values,     \* their contents
    NoVersion,  \* the form comes without a version
    Counts,     \* does the mapper increment the version?
    MaxSaves    \* bound: forms sent

ASSUME NoVersionAssumption == NoVersion \notin Nat
ASSUME CountsAssumption    == Counts \in BOOLEAN /\ MaxSaves \in Nat

VARIABLES
    row,      \* [Fields -> Values]: the committed record
    version,  \* its version column
    page,     \* [Editors -> [row, version]]: what the client has from the server
    request,  \* [Editors -> ...]: the POST or DELETE under way
    reply,    \* [Editors -> ...]: the last answer
    saves     \* forms sent

vars == <<row, version, page, request, reply, saves>>

Forms   == UNION {[F -> Values] : F \in SUBSET Fields \ {{}}}
Records == [row : [Fields -> Values], version : Nat]

\* A request that is under way has sent its form, and then loaded the row.
Sent   == [pc : {"sent"}, form : Forms, of : Nat \cup {NoVersion}, archive : BOOLEAN]
Loaded == [pc : {"loaded"}, form : Forms, of : Nat \cup {NoVersion},
           archive : BOOLEAN, base : Records]
NoRequest == [pc |-> "none"]

With(record, form) ==
    [f \in Fields |-> IF f \in DOMAIN form THEN form[f] ELSE record[f]]

TypeOK ==
    /\ row \in [Fields -> Values]
    /\ version \in Nat
    /\ page \in [Editors -> Records]
    /\ request \in [Editors -> Sent \cup Loaded \cup {NoRequest}]
    /\ reply \in [Editors -> {"none", "ok", "conflict", "error"}]
    /\ saves \in 0..MaxSaves

Init ==
    /\ row \in [Fields -> Values]
    /\ version = 1
    /\ page = [e \in Editors |-> [row |-> row, version |-> version]]
    /\ request = [e \in Editors |-> NoRequest]
    /\ reply = [e \in Editors |-> "none"]
    /\ saves = 0

------------------------------------------------------------------------------
\* The page is loaded again.
Reload(e) ==
    /\ request[e] = NoRequest
    /\ page' = [page EXCEPT ![e] = [row |-> row, version |-> version]]
    /\ reply' = [reply EXCEPT ![e] = "none"]
    /\ UNCHANGED <<row, version, request, saves>>

\* An edit comes with the version of the page; publishing, overwriting after a
\* conflict and archiving send none.
Send(e) ==
    /\ request[e] = NoRequest /\ saves < MaxSaves
    /\ \E form \in Forms, archive \in BOOLEAN,
          of \in {page[e].version, NoVersion} :
         /\ archive => of = NoVersion
         /\ request' = [request EXCEPT ![e] = [pc |-> "sent", form |-> form, of |-> of,
                                               archive |-> archive]]
    /\ saves' = saves + 1
    /\ UNCHANGED <<row, version, page, reply>>

Answer(e, what) ==
    /\ reply' = [reply EXCEPT ![e] = what]
    /\ request' = [request EXCEPT ![e] = NoRequest]

Outdated_Never(of) == FALSE  \* mutant: the version in the form is not looked at
\* The form was filled in on another version than the stored one.
Outdated(of) == of # NoVersion /\ of # version

\* The handler selects the row and compares the version.
Load(e) ==
    /\ request[e].pc = "sent"
    /\ \/ Outdated(request[e].of) /\ Answer(e, "conflict")
       \/ /\ ~Outdated(request[e].of)
          /\ request' = [request EXCEPT ![e] =
                [pc |-> "loaded", form |-> @.form, of |-> @.of, archive |-> @.archive,
                 base |-> [row |-> row, version |-> version]]]
          /\ UNCHANGED reply
    /\ UNCHANGED <<row, version, page, saves>>

\* The columns that update_model changes on the selected object.
Changed(r) == {f \in DOMAIN r.form : r.form[f] # r.base.row[f]}

StillCurrent_ById(r) == TRUE  \* mutant: UPDATE ... WHERE id = :id
\* UPDATE ... WHERE id = :id AND version = :version finds the row.
StillCurrent(r) == version = r.base.version

PageVersion_Newest(r, known, shown) == shown  \* mutant: the page always takes the new version
\* The page picks from the response the fields that it has sent.
PageVersion(r, known, shown) == IF r.of = NoVersion THEN known ELSE shown

\* The response shows the session's object, with the version it was stored with.
Accept(e, shown) ==
    /\ Answer(e, "ok")
    /\ page' = [page EXCEPT ![e] =
          [row |-> With(@.row, request[e].form),
           version |-> PageVersion(request[e], @.version, shown)]]

\* The commit flushes one UPDATE of the changed columns, or none.  It either
\* finds the row, or raises StaleDataError, which only the edit catches.
Commit(e) ==
    /\ request[e].pc = "loaded"
    /\ LET r == request[e]
       IN  \/ /\ Changed(r) = {}
              /\ UNCHANGED <<row, version>>
              /\ Accept(e, r.base.version)
           \/ /\ Changed(r) # {} /\ StillCurrent(r)
              /\ row' = [f \in Fields |-> IF f \in Changed(r) THEN r.form[f] ELSE row[f]]
              /\ version' = IF Counts THEN version + 1 ELSE version
              /\ Accept(e, version')
           \/ /\ Changed(r) # {} /\ ~StillCurrent(r)
              /\ Answer(e, IF r.archive THEN "error" ELSE "conflict")
              /\ UNCHANGED <<row, version, page>>
    /\ UNCHANGED saves

Next == \E e \in Editors : Reload(e) \/ Send(e) \/ Load(e) \/ Commit(e)

Spec == Init /\ [][Next]_vars

------------------------------------------------------------------------------
(***************************************************************************)
(* Properties.                                                             *)
(***************************************************************************)
Writes(e) == request[e].pc = "loaded" /\ request'[e] = NoRequest /\ row' # row

\* "Version (for update conflict avoidance)": a form that comes with a version
\* changes the record only while it is what its author has on the page, so that
\* nobody else's change is overwritten unseen.
NoLostUpdate ==
    [][\A e \in Editors : Writes(e) /\ request[e].of # NoVersion
          => page[e].row = row]_vars

\* A save that writes anything leaves every field of its form as it was sent,
\* although only columns that differ from the selected row are written: two
\* forms are never mixed.
SavedAsSent ==
    [][\A e \in Editors : Writes(e)
          => row' = With(row, request[e].form)]_vars

\* Requests in two steps implement saves in one.
Atomic == INSTANCE AtomicSaves WITH
    content <- row,
    view    <- [e \in Editors |-> page[e].row],
    careful <- [e \in Editors |-> request[e].pc # "none" /\ request[e].of # NoVersion]
ImplementsAtomicSaves == Atomic!Spec

==============================================================================
