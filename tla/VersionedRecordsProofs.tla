-------------------------- MODULE VersionedRecordsProofs --------------------------
(***************************************************************************)
(* Proofs about VersionedRecords, for any number of editors, columns,      *)
(* values and saves.  Where the mapper counts (Counts), a version names    *)
(* one content of the row for good: whoever holds the current version      *)
(* holds the current row.                                                  *)
(***************************************************************************)
EXTENDS VersionedRecords, TLAPS

\* A page whose version is the stored one shows the stored row.
PageKnows(e) ==
    /\ page[e].version <= version
    /\ page[e].version = version => page[e].row = row

\* A row selected by a request is the stored one as long as its version is.
BaseKnows(e) ==
    request[e].pc = "loaded" =>
        /\ page[e].version <= request[e].base.version
        /\ request[e].base.version <= version
        /\ request[e].base.version = version => request[e].base.row = row

\* The version in a form is that of the page, and is compared by the load.
CarriesVersion(e) ==
    /\ request[e].pc # "none" /\ request[e].of # NoVersion
          => request[e].of = page[e].version
    /\ request[e].pc = "loaded" /\ request[e].of # NoVersion
          => request[e].of = request[e].base.version

Knowledge == \A e \in Editors : PageKnows(e) /\ BaseKnows(e) /\ CarriesVersion(e)

IInv == TypeOK /\ (Counts => Knowledge)

------------------------------------------------------------------------------
\* A form has values for columns of the record.
LEMMA FormType ==
    ASSUME NEW form \in Forms
    PROVE  /\ DOMAIN form \subseteq Fields
           /\ \A f \in DOMAIN form : form[f] \in Values
  BY DEF Forms

\* A record over which a form is written is a record.
LEMMA WithType ==
    ASSUME NEW record \in [Fields -> Values], NEW form \in Forms
    PROVE  With(record, form) \in [Fields -> Values]
  BY FormType DEF With

\* What a request under way consists of.
LEMMA RequestType ==
    ASSUME TypeOK, NEW e \in Editors
    PROVE  /\ page[e] \in Records
           /\ page[e].row \in [Fields -> Values] /\ page[e].version \in Nat
           /\ request[e].pc \in {"sent", "loaded"} =>
                /\ request[e].form \in Forms
                /\ request[e].of \in Nat \cup {NoVersion}
                /\ request[e].archive \in BOOLEAN
           /\ request[e].pc = "loaded" =>
                /\ request[e].base \in Records
                /\ request[e].base.row \in [Fields -> Values]
                /\ request[e].base.version \in Nat
           /\ request[e].pc \in {"none", "sent", "loaded"}
           /\ request[e].pc = "none" => request[e] = NoRequest
  <1>1. page[e] \in Records
    BY DEF TypeOK
  <1>2. request[e] \in Sent \/ request[e] \in Loaded \/ request[e] = NoRequest
    BY DEF TypeOK
  <1> QED BY <1>1, <1>2 DEF Sent, Loaded, NoRequest, Records

\* Writing the changed columns over the selected row is writing the form.
LEMMA ChangedIsForm ==
    ASSUME TypeOK, NEW e \in Editors, request[e].pc = "loaded",
           request[e].base.row = row
    PROVE  [f \in Fields |-> IF f \in Changed(request[e]) THEN request[e].form[f] ELSE row[f]]
              = With(row, request[e].form)
  BY RequestType, FormType DEF Changed, With

\* An update keeps the row a row.
LEMMA UpdateType ==
    ASSUME TypeOK, NEW e \in Editors, request[e].pc = "loaded"
    PROVE  [f \in Fields |-> IF f \in Changed(request[e]) THEN request[e].form[f] ELSE row[f]]
              \in [Fields -> Values]
  <1>1. /\ row \in [Fields -> Values]
        /\ request[e].form \in Forms
    BY RequestType DEF TypeOK
  <1> QED BY <1>1, FormType DEF Changed

------------------------------------------------------------------------------
LEMMA InitIInv == Init => IInv
  <1> SUFFICES ASSUME Init PROVE IInv
    OBVIOUS
  <1>1. TypeOK
    BY CountsAssumption DEF Init, TypeOK, Records, NoRequest
  <1>2. Knowledge
    <2> SUFFICES ASSUME NEW e \in Editors
                 PROVE  PageKnows(e) /\ BaseKnows(e) /\ CarriesVersion(e)
      BY DEF Knowledge
    <2>1. /\ page[e].row = row /\ page[e].version = version /\ version = 1
          /\ request[e].pc = "none"
      BY DEF Init, NoRequest
    <2> QED BY <2>1 DEF PageKnows, BaseKnows, CarriesVersion
  <1> QED BY <1>1, <1>2 DEF IInv

\* Each step keeps the types.
LEMMA NextType == TypeOK /\ [Next]_vars => TypeOK'
  <1> SUFFICES ASSUME TypeOK, [Next]_vars PROVE TypeOK'
    OBVIOUS
  <1> USE CountsAssumption, NoVersionAssumption
  <1>1. ASSUME NEW e \in Editors, Reload(e) PROVE TypeOK'
    <2>1. [row |-> row, version |-> version] \in Records
      BY DEF TypeOK, Records
    <2> QED BY <1>1, <2>1 DEF TypeOK, Reload
  <1>2. ASSUME NEW e \in Editors, Send(e) PROVE TypeOK'
    <2>1. PICK form \in Forms, archive \in BOOLEAN, of \in {page[e].version, NoVersion} :
             request' = [request EXCEPT ![e] = [pc |-> "sent", form |-> form, of |-> of,
                                                archive |-> archive]]
      BY <1>2 DEF Send
    <2>2. of \in Nat \cup {NoVersion}
      BY RequestType
    <2>3. [pc |-> "sent", form |-> form, of |-> of, archive |-> archive] \in Sent
      BY <2>2 DEF Sent
    <2>4. request' \in [Editors -> Sent \cup Loaded \cup {NoRequest}]
      BY <2>1, <2>3 DEF TypeOK
    <2> QED BY <1>2, <2>4 DEF TypeOK, Send
  <1>3. ASSUME NEW e \in Editors, Load(e) PROVE TypeOK'
    <2>1. CASE Outdated(request[e].of) /\ Answer(e, "conflict")
      BY <1>3, <2>1 DEF TypeOK, Load, Answer
    <2>2. CASE ~Outdated(request[e].of)
      <3> DEFINE r == [pc |-> "loaded", form |-> request[e].form, of |-> request[e].of,
                       archive |-> request[e].archive,
                       base |-> [row |-> row, version |-> version]]
      <3>1. request[e].pc = "sent"
        BY <1>3 DEF Load
      <3>2. /\ request[e].form \in Forms
            /\ request[e].of \in Nat \cup {NoVersion}
            /\ request[e].archive \in BOOLEAN
        BY <3>1, RequestType
      <3>3. [row |-> row, version |-> version] \in Records
        BY DEF TypeOK, Records
      <3>4. r \in Loaded
        BY <3>2, <3>3 DEF Loaded
      <3>5. request' = [request EXCEPT ![e] = r] /\ UNCHANGED <<row, version, page, reply, saves>>
        BY <1>3, <2>2 DEF Load, Answer
      <3> QED BY <3>4, <3>5 DEF TypeOK
    <2> QED BY <1>3, <2>1, <2>2 DEF Load
  <1>4. ASSUME NEW e \in Editors, Commit(e) PROVE TypeOK'
    <2>0. request[e].pc = "loaded"
      BY <1>4 DEF Commit
    <2>1. ASSUME NEW shown \in Nat, Accept(e, shown), row' \in [Fields -> Values],
                 version' \in Nat, saves' = saves
          PROVE  TypeOK'
      <3> DEFINE p == [row |-> With(page[e].row, request[e].form),
                       version |-> PageVersion(request[e], page[e].version, shown)]
      <3>1. p \in Records
        BY <2>0, <2>1, RequestType, WithType DEF Records, PageVersion
      <3>2. page' = [page EXCEPT ![e] = p]
        BY <2>1 DEF Accept
      <3> QED BY <2>1, <3>1, <3>2 DEF TypeOK, Accept, Answer
    <2>2. CASE Changed(request[e]) = {} /\ UNCHANGED <<row, version>>
               /\ Accept(e, request[e].base.version)
      BY <1>4, <2>0, <2>1, <2>2, RequestType DEF Commit, TypeOK
    <2>3. CASE /\ row' = [f \in Fields |-> IF f \in Changed(request[e])
                                          THEN request[e].form[f] ELSE row[f]]
               /\ version' = IF Counts THEN version + 1 ELSE version
               /\ Accept(e, version')
      <3>1. version' \in Nat /\ saves' = saves
        BY <1>4, <2>3 DEF Commit, TypeOK
      <3>2. row' \in [Fields -> Values]
        BY <2>0, <2>3, UpdateType
      <3> QED BY <2>1, <2>3, <3>1, <3>2
    <2>4. CASE /\ Answer(e, IF request[e].archive THEN "error" ELSE "conflict")
               /\ UNCHANGED <<row, version, page>>
      BY <1>4, <2>4 DEF Commit, TypeOK, Answer
    <2> QED BY <1>4, <2>2, <2>3, <2>4 DEF Commit
  <1>5. CASE UNCHANGED vars
    BY <1>5 DEF TypeOK, vars
  <1> QED BY <1>1, <1>2, <1>3, <1>4, <1>5 DEF Next

------------------------------------------------------------------------------
\* What a step does to the requests and pages of the editors that do not take it.
Untouched(d) == page'[d] = page[d] /\ request'[d] = request[d]

\* An editor whose request and page stay keeps the knowledge, when the row stays
\* or the version grows.
LEMMA OthersKnow ==
    ASSUME TypeOK, TypeOK', NEW d \in Editors, Untouched(d),
           PageKnows(d), BaseKnows(d), CarriesVersion(d),
           UNCHANGED <<row, version>> \/ version' = version + 1
    PROVE  PageKnows(d)' /\ BaseKnows(d)' /\ CarriesVersion(d)'
  <1>1. /\ page[d].version \in Nat /\ version \in Nat
        /\ request[d].pc = "loaded" => request[d].base.version \in Nat
    BY RequestType DEF TypeOK
  <1> QED BY <1>1 DEF Untouched, PageKnows, BaseKnows, CarriesVersion

\* Each step keeps the knowledge, where the mapper counts.
LEMMA NextKnowledge ==
    Counts /\ TypeOK /\ TypeOK' /\ Knowledge /\ [Next]_vars => Knowledge'
  <1> SUFFICES ASSUME Counts, TypeOK, TypeOK', Knowledge, [Next]_vars,
                      NEW d \in Editors
               PROVE  PageKnows(d)' /\ BaseKnows(d)' /\ CarriesVersion(d)'
    BY DEF Knowledge
  <1> USE NoVersionAssumption
  <1>a. /\ PageKnows(d) /\ BaseKnows(d) /\ CarriesVersion(d)
        /\ version \in Nat /\ page[d].version \in Nat
    BY RequestType DEF Knowledge, TypeOK
  <1>1. ASSUME NEW e \in Editors, Reload(e)
        PROVE  PageKnows(d)' /\ BaseKnows(d)' /\ CarriesVersion(d)'
    <2>1. CASE d = e
      <3>1. /\ page'[d].row = row' /\ page'[d].version = version'
            /\ request'[d].pc = "none"
        BY <1>1, <2>1 DEF Reload, TypeOK, NoRequest
      <3> QED BY <1>1, <1>a, <3>1 DEF Reload, PageKnows, BaseKnows, CarriesVersion
    <2>2. CASE d # e
      BY <1>1, <1>a, <2>2, OthersKnow DEF Reload, Untouched, TypeOK
    <2> QED BY <2>1, <2>2
  <1>2. ASSUME NEW e \in Editors, Send(e)
        PROVE  PageKnows(d)' /\ BaseKnows(d)' /\ CarriesVersion(d)'
    <2>1. CASE d = e
      <3>1. /\ request'[d].pc = "sent"
            /\ request'[d].of \in {page[d].version, NoVersion}
            /\ page' = page /\ row' = row /\ version' = version
        BY <1>2, <2>1 DEF Send, TypeOK
      <3> QED BY <1>a, <3>1 DEF PageKnows, BaseKnows, CarriesVersion
    <2>2. CASE d # e
      BY <1>2, <1>a, <2>2, OthersKnow DEF Send, Untouched, TypeOK
    <2> QED BY <2>1, <2>2
  <1>3. ASSUME NEW e \in Editors, Load(e)
        PROVE  PageKnows(d)' /\ BaseKnows(d)' /\ CarriesVersion(d)'
    <2>1. CASE d = e
      <3>1. page' = page /\ row' = row /\ version' = version
        BY <1>3 DEF Load
      <3>2. CASE Answer(e, "conflict")
        <4>1. request'[d].pc = "none"
          BY <2>1, <3>2 DEF Answer, TypeOK, NoRequest
        <4> QED BY <1>a, <3>1, <4>1 DEF PageKnows, BaseKnows, CarriesVersion
      <3>3. CASE ~Answer(e, "conflict")
        <4>1. /\ ~Outdated(request[d].of) /\ request[d].pc = "sent"
              /\ request'[d].pc = "loaded" /\ request'[d].of = request[d].of
              /\ request'[d].base.row = row /\ request'[d].base.version = version
          BY <1>3, <2>1, <3>3 DEF Load, TypeOK
        <4> QED BY <1>a, <3>1, <4>1 DEF PageKnows, BaseKnows, CarriesVersion, Outdated
      <3> QED BY <3>2, <3>3
    <2>2. CASE d # e
      BY <1>3, <1>a, <2>2, OthersKnow DEF Load, Answer, Untouched, TypeOK
    <2> QED BY <2>1, <2>2
  <1>4. ASSUME NEW e \in Editors, Commit(e)
        PROVE  PageKnows(d)' /\ BaseKnows(d)' /\ CarriesVersion(d)'
    <2>0. /\ request[e].pc = "loaded"
          /\ UNCHANGED <<row, version>> \/ version' = version + 1
      BY <1>4 DEF Commit
    <2>2. CASE d # e
      <3>1. Untouched(d)
        BY <1>4, <2>2 DEF Commit, Accept, Answer, Untouched, TypeOK
      <3> QED BY <1>a, <2>0, <3>1, OthersKnow
    <2>1. CASE d = e
      <3>1. request'[d].pc = "none"
        BY <1>4, <2>1 DEF Commit, Accept, Answer, TypeOK, NoRequest
      <3>2. BaseKnows(d)' /\ CarriesVersion(d)'
        BY <3>1 DEF BaseKnows, CarriesVersion
      <3>3. PageKnows(d)'
        <4> DEFINE r == request[d]
        <4>1. /\ r.base.version \in Nat /\ r.base.row \in [Fields -> Values]
              /\ page[d].row \in [Fields -> Values] /\ r.form \in Forms
              /\ row \in [Fields -> Values]
          BY <2>0, <2>1, RequestType DEF TypeOK
        <4>2. /\ page[d].version <= r.base.version /\ r.base.version <= version
              /\ r.base.version = version => r.base.row = row
              /\ page[d].version = version => page[d].row = row
              /\ r.of # NoVersion => page[d].version = r.base.version
          BY <1>a, <2>0, <2>1 DEF BaseKnows, PageKnows, CarriesVersion
        <4>3. CASE Changed(r) = {} /\ UNCHANGED <<row, version>> /\ Accept(d, r.base.version)
          <5>1. /\ page'[d].row = With(page[d].row, r.form)
                /\ page'[d].version = PageVersion(r, page[d].version, r.base.version)
            BY <4>3 DEF Accept, TypeOK
          <5>2. page'[d].version = page[d].version
            BY <4>2, <5>1 DEF PageVersion
          <5>3. ASSUME page[d].version = version PROVE With(page[d].row, r.form) = row
            <6>1. r.base.row = row /\ page[d].row = row
              BY <1>a, <4>1, <4>2, <5>3
            <6>2. \A f \in DOMAIN r.form : r.form[f] = row[f]
              BY <4>3, <6>1 DEF Changed
            <6> QED BY <4>1, <6>1, <6>2 DEF With
          <5> QED BY <1>a, <4>3, <5>1, <5>2, <5>3 DEF PageKnows
        <4>4. CASE /\ Changed(r) # {} /\ StillCurrent(r)
                   /\ row' = [f \in Fields |-> IF f \in Changed(r)
                                              THEN r.form[f] ELSE row[f]]
                   /\ version' = IF Counts THEN version + 1 ELSE version
                   /\ Accept(d, version')
          <5>1. /\ page'[d].row = With(page[d].row, r.form)
                /\ page'[d].version = PageVersion(r, page[d].version, version')
                /\ version' = version + 1
            BY <4>4 DEF Accept, TypeOK
          <5>2. CASE r.of = NoVersion
            <6>1. page'[d].version = page[d].version
              BY <5>1, <5>2 DEF PageVersion
            <6> QED BY <1>a, <4>2, <5>1, <6>1 DEF PageKnows
          <5>3. CASE r.of # NoVersion
            <6>1. page'[d].version = version'
              BY <5>1, <5>3 DEF PageVersion
            <6>2. page[d].version = version /\ page[d].row = row /\ r.base.row = row
              BY <4>2, <4>4, <5>3 DEF StillCurrent
            <6>3. row' = With(row, r.form)
              BY <2>0, <2>1, <4>4, <6>2, ChangedIsForm
            <6> QED BY <1>a, <5>1, <6>1, <6>2, <6>3 DEF PageKnows
          <5> QED BY <5>2, <5>3
        <4>5. CASE UNCHANGED <<row, version, page>>
          BY <1>a, <4>5 DEF PageKnows
        <4> QED BY <1>4, <2>1, <4>3, <4>4, <4>5 DEF Commit
      <3> QED BY <3>2, <3>3
    <2> QED BY <2>1, <2>2
  <1>5. CASE UNCHANGED vars
    <2>1. Untouched(d) /\ UNCHANGED <<row, version>>
      BY <1>5 DEF vars, Untouched
    <2> QED BY <1>a, <2>1, OthersKnow
  <1> QED BY <1>1, <1>2, <1>3, <1>4, <1>5 DEF Next

LEMMA NextIInv == IInv /\ [Next]_vars => IInv'
  BY NextType, NextKnowledge DEF IInv

------------------------------------------------------------------------------
\* The invariant: types, and what versions say where the mapper counts.
THEOREM Invariance == Spec => []IInv
  BY InitIInv, NextIInv, PTL DEF Spec

\* Type correctness of the saves of dashboards and queries.
THEOREM TypeCorrect == Spec => []TypeOK
  <1>1. IInv => TypeOK
    BY DEF IInv
  <1> QED BY <1>1, Invariance, PTL

\* What the row is when a request is answered and has changed it.
LEMMA WritingCommit ==
    ASSUME IInv, Counts, [Next]_vars, NEW e \in Editors, Writes(e)
    PROVE  /\ request[e].base.row = row /\ request[e].base.version = version
           /\ row' = With(row, request[e].form)
           /\ Changed(request[e]) # {} /\ StillCurrent(request[e])
           /\ Accept(e, version')
  <1>1. request[e].pc = "loaded" /\ request'[e] = NoRequest /\ row' # row
    BY DEF Writes
  <1>2. Commit(e)
    <2>1. PICK d \in Editors : Commit(d)
      BY <1>1 DEF Next, Reload, Send, Load, vars
    <2>2. d = e
      BY <1>1, <2>1 DEF Commit, Accept, Answer, IInv, TypeOK, NoRequest
    <2> QED BY <2>1, <2>2
  <1>3. /\ Changed(request[e]) # {} /\ StillCurrent(request[e]) /\ Accept(e, version')
        /\ row' = [f \in Fields |-> IF f \in Changed(request[e])
                                   THEN request[e].form[f] ELSE row[f]]
    BY <1>1, <1>2 DEF Commit
  <1>4. request[e].base.row = row /\ request[e].base.version = version
    BY <1>1, <1>3 DEF IInv, Knowledge, BaseKnows, StillCurrent
  <1>5. row' = With(row, request[e].form)
    BY <1>1, <1>3, <1>4, ChangedIsForm DEF IInv
  <1> QED BY <1>3, <1>4, <1>5

\* A page whose version is carried by a writing form shows the row.
LEMMA CarriedIsCurrent ==
    ASSUME IInv, Counts, [Next]_vars, NEW e \in Editors, Writes(e),
           request[e].of # NoVersion
    PROVE  page[e].row = row
  <1>1. request[e].base.version = version /\ request[e].pc = "loaded"
    BY WritingCommit DEF Writes
  <1>2. page[e].version = version
    BY <1>1 DEF IInv, Knowledge, CarriesVersion
  <1> QED BY <1>2 DEF IInv, Knowledge, PageKnows

\* No edit overwrites a change that its author has not seen, where the mapper
\* counts the version at each update (dashboards).
THEOREM VersionsProtect ==
    ASSUME Counts PROVE Spec => NoLostUpdate
  <1>1. IInv /\ [Next]_vars
          => [\A e \in Editors : Writes(e) /\ request[e].of # NoVersion
                => page[e].row = row]_vars
    BY CarriedIsCurrent
  <1> QED BY <1>1, Invariance, PTL DEF Spec, NoLostUpdate

\* A save that writes leaves all its fields as they were sent, although it
\* updates only those that differ from the selected row.
THEOREM FormsAreNotMixed ==
    ASSUME Counts PROVE Spec => SavedAsSent
  <1>1. IInv /\ [Next]_vars
          => [\A e \in Editors : Writes(e)
                => row' = With(row, request[e].form)]_vars
    BY WritingCommit
  <1> QED BY <1>1, Invariance, PTL DEF Spec, SavedAsSent

------------------------------------------------------------------------------
\* A commit is a save of the abstract specification or a refusal, and an edit that
\* writes has its author's page as the stored row.
LEMMA StepRefines ==
    ASSUME IInv, Counts, [Next]_vars
    PROVE  [Atomic!Next]_(Atomic!vars)
  <1> DEFINE seen == [e \in Editors |-> page[e].row]
             care == [e \in Editors |-> request[e].pc # "none" /\ request[e].of # NoVersion]
  <1> USE DEF IInv
  <1>0. ASSUME NEW e \in Editors, request' = [request EXCEPT ![e] = NoRequest]
        PROVE  care' = [care EXCEPT ![e] = FALSE]
    BY <1>0 DEF TypeOK, NoRequest
  <1>1. ASSUME NEW e \in Editors, Reload(e) PROVE Atomic!Next
    <2>1. seen' = [seen EXCEPT ![e] = row] /\ row' = row /\ care' = care
      BY <1>1 DEF Reload, TypeOK
    <2> QED BY <2>1 DEF Atomic!Next, Atomic!Reload
  <1>2. ASSUME NEW e \in Editors, Send(e) PROVE [Atomic!Next]_(Atomic!vars)
    <2>1. PICK form \in Forms, archive \in BOOLEAN, of \in {page[e].version, NoVersion} :
             request' = [request EXCEPT ![e] = [pc |-> "sent", form |-> form, of |-> of,
                                                archive |-> archive]]
      BY <1>2 DEF Send
    <2>2. seen' = seen /\ row' = row
      BY <1>2 DEF Send
    <2>3. CASE of = NoVersion
      <3>1. care' = care
        BY <1>2, <2>1, <2>3 DEF Send, TypeOK, NoRequest
      <3> QED BY <2>2, <3>1 DEF Atomic!vars
    <2>4. CASE of # NoVersion
      <3>1. care' = [care EXCEPT ![e] = TRUE]
        BY <2>1, <2>4 DEF TypeOK
      <3> QED BY <2>2, <3>1 DEF Atomic!Next, Atomic!Begin
    <2> QED BY <2>3, <2>4
  <1>3. ASSUME NEW e \in Editors, Load(e) PROVE [Atomic!Next]_(Atomic!vars)
    <2>1. seen' = seen /\ row' = row
      BY <1>3 DEF Load
    <2>2. CASE Answer(e, "conflict")
      <3>1. care' = [care EXCEPT ![e] = FALSE]
        BY <1>0, <2>2 DEF Answer
      <3> QED BY <2>1, <3>1 DEF Atomic!Next, Atomic!Refuse
    <2>3. CASE ~Answer(e, "conflict")
      <3>1. care' = care
        BY <1>3, <2>3 DEF Load, TypeOK
      <3> QED BY <2>1, <3>1 DEF Atomic!vars
    <2> QED BY <2>2, <2>3
  <1>4. ASSUME NEW e \in Editors, Commit(e) PROVE [Atomic!Next]_(Atomic!vars)
    <2> DEFINE form == request[e].form
    <2>0. request[e].pc = "loaded" /\ form \in Atomic!Forms
      BY <1>4, RequestType DEF Commit, Forms, Atomic!Forms
    <2>1. care' = [care EXCEPT ![e] = FALSE]
      BY <1>0, <1>4 DEF Commit, Accept, Answer
    <2>2. ASSUME NEW shown, Accept(e, shown)
          PROVE  seen' = [seen EXCEPT ![e] = Atomic!With(seen[e], form)]
      BY <2>2 DEF Accept, TypeOK, With, Atomic!With
    <2>3. CASE Changed(request[e]) = {} /\ UNCHANGED <<row, version>>
               /\ Accept(e, request[e].base.version)
      <3>1. seen' = [seen EXCEPT ![e] = Atomic!With(seen[e], form)]
        BY <2>2, <2>3
      <3> QED BY <2>0, <2>1, <2>3, <3>1 DEF Atomic!Next, Atomic!SaveNothing
    <2>4. CASE /\ Changed(request[e]) # {} /\ StillCurrent(request[e])
               /\ row' = [f \in Fields |-> IF f \in Changed(request[e])
                                          THEN form[f] ELSE row[f]]
               /\ Accept(e, version')
      <3>1. seen' = [seen EXCEPT ![e] = Atomic!With(seen[e], form)]
        BY <2>2, <2>4
      <3>2. request[e].base.row = row /\ request[e].base.version = version
        BY <2>0, <2>4 DEF StillCurrent, Knowledge, BaseKnows
      <3>3. row' = Atomic!With(row, form)
        BY <2>0, <2>4, <3>2, ChangedIsForm DEF With, Atomic!With
      <3>4. care[e] => seen[e] = row
        BY <2>0, <3>2 DEF Knowledge, CarriesVersion, PageKnows
      <3> QED BY <2>0, <2>1, <3>1, <3>3, <3>4 DEF Atomic!Next, Atomic!Save
    <2>5. CASE UNCHANGED <<row, version, page>>
      BY <2>1, <2>5 DEF Atomic!Next, Atomic!Refuse
    <2> QED BY <1>4, <2>3, <2>4, <2>5 DEF Commit
  <1>5. CASE UNCHANGED vars
    BY <1>5 DEF vars, Atomic!vars
  <1> QED BY <1>1, <1>2, <1>3, <1>4, <1>5 DEF Next

\* Requests in two steps, of any number of editors at once, implement saves in
\* one step, where the mapper counts.
THEOREM SavesAreAtomic ==
    ASSUME Counts PROVE Spec => ImplementsAtomicSaves
  <1>1. Init => Atomic!Init
    <2> SUFFICES ASSUME Init PROVE Atomic!Init
      OBVIOUS
    <2>1. [e \in Editors |-> page[e].row] = [e \in Editors |-> row]
      BY DEF Init
    <2>2. \A e \in Editors : request[e].pc = "none"
      BY DEF Init, NoRequest
    <2>3. [e \in Editors |-> request[e].pc # "none" /\ request[e].of # NoVersion]
            = [e \in Editors |-> FALSE]
      BY <2>2
    <2> QED BY <2>1, <2>3 DEF Init, Atomic!Init
  <1>2. IInv /\ [Next]_vars => [Atomic!Next]_(Atomic!vars)
    BY StepRefines
  <1> QED BY <1>1, <1>2, Invariance, PTL DEF Spec, ImplementsAtomicSaves, Atomic!Spec

==============================================================================
