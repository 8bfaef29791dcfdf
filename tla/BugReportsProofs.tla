-------------------------- MODULE BugReportsProofs --------------------------
(* Theorems about BugReports, for any number of clients and reports.       *)
EXTENDS BugReports, FiniteSetTheorems, TLAPS

USE NotesAssumption, ReportsAssumption, CapAssumption

-----------------------------------------------------------------------------
(* The kinds of calls, and what they are made of.                          *)

FilingAt == {"count", "create", "write"}
ResolvingAt == {"find", "parse", "overwrite", "rewrite", "unlink"}
GettingAt == {"open", "resolved", "read", "unknown"}
ListingAt == {"list", "listed"}

\* What a handler is doing says what its call is made of.
LEMMA CallKinds ==
    ASSUME NEW k \in Calls
    PROVE  /\ k.at \in FilingAt <=> k \in Filing
           /\ k.at \in ResolvingAt <=> k \in Resolving
           /\ k.at \in GettingAt <=> k \in Getting
           /\ k.at \in ListingAt <=> k \in Listing
           /\ k.at = "idle" <=> k = Idle
  BY DEF Calls, Idle, Filing, Resolving, Getting, Listing, FilingAt,
         ResolvingAt, GettingAt, ListingAt

\* The fields of a call.
LEMMA CallFields ==
    ASSUME NEW k \in Calls
    PROVE  /\ k.at \in FilingAt => k.id \in Reports
           /\ k.at \in ResolvingAt =>
                  /\ k.id \in Reports /\ k.note \in Notes
                  /\ k.path \in STATUSES /\ k.text \in {"cut", "whole"}
           /\ k.at \in GettingAt => k.id \in Reports /\ k.known \in BOOLEAN
           /\ k.at \in ListingAt =>
                  /\ k.status \in STATUSES /\ k.left \in SUBSET Reports
                  /\ k.seen \in SUBSET Reports /\ k.due \in SUBSET Reports
  BY CallKinds DEF Filing, Resolving, Getting, Listing

\* The constructors, by kind.
LEMMA CallsMade ==
    /\ Idle \in Calls
    /\ \A at \in FilingAt, id \in Reports : File(at, id) \in Filing
    /\ \A at \in ResolvingAt, id \in Reports, note \in Notes,
          path \in STATUSES, text \in {"cut", "whole"} :
             Resolve(at, id, note, path, text) \in Resolving
    /\ \A at \in GettingAt, id \in Reports, known \in BOOLEAN :
             Get(at, id, known) \in Getting
    /\ \A at \in ListingAt, status \in STATUSES, left \in SUBSET Reports,
          seen \in SUBSET Reports, due \in SUBSET Reports :
             List(at, status, left, seen, due) \in Listing
    /\ Filing \subseteq Calls /\ Resolving \subseteq Calls
    /\ Getting \subseteq Calls /\ Listing \subseteq Calls
  BY DEF Calls, File, Resolve, Get, List, Filing, Resolving, Getting, Listing,
         FilingAt, ResolvingAt, GettingAt, ListingAt

\* Contents, by construction.
LEMMA ContentsMade ==
    /\ Absent \in Content /\ Empty \in Content
    /\ \A text \in {"cut", "whole"}, status \in STATUSES,
          note \in NoteOrNone : Render(text, status, note) \in Content
    /\ \A c \in Content : Prefixes(c) \subseteq Content
  BY DEF Absent, Empty, Content, Render, Prefixes, STATUSES, NoteOrNone

\* A handler and a file change one at a time.
LEMMA BecomeCall ==
    ASSUME NEW c \in Clients, NEW k \in Calls, call \in [Clients -> Calls],
           Become(c, k)
    PROVE  /\ call' \in [Clients -> Calls]
           /\ call'[c] = k
           /\ \A d \in Clients \ {c} : call'[d] = call[d]
  BY DEF Become

LEMMA PutContent ==
    ASSUME NEW s \in STATUSES, NEW i \in Reports, NEW k \in Content,
           file \in [STATUSES -> [Reports -> Content]], Put(s, i, k)
    PROVE  /\ file' \in [STATUSES -> [Reports -> Content]]
           /\ file'[s][i] = k
           /\ \A t \in STATUSES, j \in Reports :
                  t # s \/ j # i => file'[t][j] = file[t][j]
  BY DEF Put

-----------------------------------------------------------------------------
\* Files that are not created do not fill open/.
LEMMA FewerOpen ==
    ASSUME OpenFiles' \subseteq OpenFiles
    PROVE  /\ Cardinality(OpenFiles) \in Nat
           /\ Cardinality(OpenFiles)' \in Nat
           /\ Cardinality(OpenFiles)' <= Cardinality(OpenFiles)
  <1>1. IsFiniteSet(OpenFiles)
    BY FS_Subset DEF OpenFiles
  <1> QED
    BY <1>1, FS_Subset, FS_CardinalityType

\* One more open file.
LEMMA OneMoreOpen ==
    ASSUME NEW i \in Reports, i \notin OpenFiles,
           OpenFiles' = OpenFiles \cup {i},
           Cardinality(OpenFiles) < MaximumOpenReports
    PROVE  Cardinality(OpenFiles)' <= MaximumOpenReports
  <1>1. IsFiniteSet(OpenFiles)
    BY FS_Subset DEF OpenFiles
  <1>2. Cardinality(OpenFiles \cup {i}) = Cardinality(OpenFiles) + 1
    BY <1>1, FS_AddElement
  <1>3. Cardinality(OpenFiles) \in Nat
    BY <1>1, FS_CardinalityType
  <1> QED
    BY <1>2, <1>3

-----------------------------------------------------------------------------
(* Steps that leave files, lock and history alone.                         *)

LEMMA ReaderFrame ==
    ASSUME IInv, NEW c \in Clients, call[c] \notin Locked,
           NEW k \in {Idle} \cup Getting \cup Listing, Become(c, k),
           GettingOK(k), ListingOK(k), UNCHANGED <<file, lock, filed, noted>>
    PROVE  IInv'
<1>1. /\ call \in [Clients -> Calls] /\ k \in Calls
      /\ k \notin Filing /\ k \notin Resolving
  BY CallKinds, CallsMade DEF IInv, TypeOK, GettingAt, ListingAt, FilingAt,
     ResolvingAt, Getting, Listing, Filing, Resolving, Idle
<1>2. /\ call' \in [Clients -> Calls] /\ call'[c] = k
      /\ \A d \in Clients \ {c} : call'[d] = call[d]
  BY <1>1, BecomeCall
<1>3. TypeOK'
  BY <1>2 DEF IInv, TypeOK
<1>4. LockInv'
  BY <1>1, <1>2 DEF IInv, LockInv, Locked
<1>5. FileInv' /\ OpenReportsCapped' /\ ResolutionKept'
  BY DEF IInv, FileInv, OpenReportsCapped, ResolutionKept, OpenFiles, Exists
<1>6. CallInv(k) /\ \A d \in Clients : CallInv(call[d])
  BY <1>1 DEF IInv, CallInv, FilingOK, ResolvingOK
<1>7. \A j : CallInv(j) => CallInv(j)'
  BY DEF CallInv, FilingOK, ResolvingOK, GettingOK, ListingOK, Exists, OpenFiles
<1>8. \A d \in Clients : CallInv(call[d])'
  <2>1. SUFFICES ASSUME NEW d \in Clients PROVE CallInv(call[d])'
    OBVIOUS
  <2>2. call'[d] = IF d = c THEN k ELSE call[d]
    BY <1>2
  <2> QED
    BY <1>6, <1>7, <2>2 DEF CallInv, FilingOK, ResolvingOK, GettingOK, ListingOK,
       Exists, OpenFiles
<1>9. QED
  BY <1>3, <1>4, <1>5, <1>8 DEF IInv

\* get and list only read.
LEMMA GetStep == ASSUME IInv, NEW c \in Clients, get_bug_report(c) PROVE IInv'
<1> DEFINE k == call[c]
<1>1. /\ k \in Calls /\ CallInv(k)
      /\ k.at \in {"idle"} \cup GettingAt => k \notin Locked
  BY CallKinds DEF IInv, TypeOK, Locked, FilingAt, ResolvingAt, GettingAt
<1>2. ASSUME NEW i \in Reports, BeginGet(c, i) PROVE IInv'
  <2> DEFINE m == Get("open", i, i \in filed)
  <2>1. m \in Getting
    <3>1. "open" \in GettingAt /\ (i \in filed) \in BOOLEAN
      BY DEF GettingAt
    <3> QED
      BY <3>1, CallsMade, Zenon
  <2>2. GettingOK(m) /\ ListingOK(m)
    BY DEF GettingOK, ListingOK, Get, Listing
  <2> QED
    BY <1>1, <1>2, <2>1, <2>2, ReaderFrame DEF BeginGet, At
<1>3. CASE LookInOpen(c)
  <2> DEFINE m == Get(IF Exists("open", k.id) THEN "read" ELSE "resolved",
                      k.id, k.known)
  <2>1. k.at = "open" /\ k \in Getting /\ k.id \in Reports /\ k.known \in BOOLEAN
    BY <1>1, <1>3, CallKinds, CallFields DEF LookInOpen, At, GettingAt
  <2>2. m \in Getting
    BY <2>1, CallsMade DEF GettingAt
  <2>3. k.known => k.id \in filed
    BY <1>1, <2>1 DEF CallInv, GettingOK
  <2>4. k.id \in filed /\ ~Exists("open", k.id) => Exists("resolved", k.id)
    BY <2>1 DEF IInv, FileInv, Exists
  <2>5. GettingOK(m) /\ ListingOK(m)
    BY <2>3, <2>4 DEF GettingOK, ListingOK, Get, Listing
  <2> QED
    BY <1>1, <1>3, <2>2, <2>5, ReaderFrame DEF LookInOpen, At, GettingAt
<1>4. CASE LookInResolved(c)
  <2> DEFINE m == Get(IF Exists("resolved", k.id) THEN "read" ELSE "unknown",
                      k.id, k.known)
  <2>1. /\ k.at = "resolved" /\ k \in Getting /\ k.id \in Reports
        /\ k.known \in BOOLEAN
    BY <1>1, <1>4, CallKinds, CallFields DEF LookInResolved, At, GettingAt
  <2>2. m \in Getting
    BY <2>1, CallsMade DEF GettingAt
  <2>3. k.known => k.id \in filed /\ Exists("resolved", k.id)
    BY <1>1, <2>1 DEF CallInv, GettingOK
  <2>4. GettingOK(m) /\ ListingOK(m)
    BY <2>3 DEF GettingOK, ListingOK, Get, Listing
  <2> QED
    BY <1>1, <1>4, <2>2, <2>4, ReaderFrame DEF LookInResolved, At, GettingAt
<1>5. QED
  BY <1>2, <1>3, <1>4 DEF get_bug_report

LEMMA ListStep == ASSUME IInv, NEW c \in Clients, list_bug_reports(c) PROVE IInv'
<1> DEFINE k == call[c]
<1>1. /\ k \in Calls /\ CallInv(k)
      /\ k.at \in {"idle"} \cup ListingAt => k \notin Locked
  BY CallKinds DEF IInv, TypeOK, Locked, FilingAt, ResolvingAt, ListingAt
<1>2. ASSUME NEW s \in STATUSES, BeginList(c, s) PROVE IInv'
  <2> DEFINE there == {i \in Reports : Exists(s, i)}
             due == {i \in filed : noted[i] = NoNote <=> s = "open"}
             m == List("list", s, there, {}, due)
  <2>1. m \in Listing
    BY CallsMade DEF ListingAt, IInv, TypeOK
  <2>2. due \subseteq there
    BY DEF IInv, TypeOK, FileInv, ResolutionKept, Exists, STATUSES
  <2>3. GettingOK(m) /\ ListingOK(m)
    BY <2>2 DEF GettingOK, ListingOK, List, Getting
  <2> QED
    BY <1>1, <1>2, <2>1, <2>3, ReaderFrame DEF BeginList, At
<1>3. ASSUME NEW i \in Reports, ParseNext(c, i) PROVE IInv'
  <2> DEFINE m == IF Readable(file[k.status][i]) THEN Parsed(c, i, {i}) ELSE Idle
  <2>1. /\ k.at = "list" /\ k \in Listing /\ k.status \in STATUSES
        /\ k.left \in SUBSET Reports /\ k.seen \in SUBSET Reports
        /\ k.due \in SUBSET Reports
    BY <1>1, <1>3, CallKinds, CallFields DEF ParseNext, At, ListingAt
  <2>2. m \in {Idle} \cup Listing
    BY <2>1, CallsMade DEF ListingAt, Parsed
  <2>3. k.due \subseteq k.left \cup k.seen
    BY <1>1, <2>1 DEF CallInv, ListingOK
  <2>4. GettingOK(m) /\ ListingOK(m)
    BY <2>3 DEF GettingOK, ListingOK, List, Parsed, Getting, Listing, Idle
  <2> QED
    BY <1>1, <1>3, <2>2, <2>4, ReaderFrame DEF ParseNext, At, ListingAt
<1>4. CASE EndList(c)
  <2> DEFINE m == List("listed", k.status, {}, k.seen, k.due)
  <2>1. /\ k.at = "list" /\ k \in Listing /\ k.status \in STATUSES
        /\ k.left = {} /\ k.seen \in SUBSET Reports /\ k.due \in SUBSET Reports
    BY <1>1, <1>4, CallKinds, CallFields DEF EndList, At, ListingAt
  <2>2. m \in Listing
    BY <2>1, CallsMade DEF ListingAt
  <2>3. k.due \subseteq k.seen
    BY <1>1, <2>1 DEF CallInv, ListingOK
  <2>4. GettingOK(m) /\ ListingOK(m)
    BY <2>3 DEF GettingOK, ListingOK, List, Getting
  <2> QED
    BY <1>1, <1>4, <2>2, <2>4, ReaderFrame DEF EndList, At, ListingAt
<1>5. QED
  BY <1>2, <1>3, <1>4 DEF list_bug_reports

LEMMA AnswerStep == ASSUME IInv, NEW c \in Clients, Answer(c) PROVE IInv'
<1>1. call[c] \notin Locked
  BY CallKinds DEF IInv, TypeOK, Locked, FilingAt, ResolvingAt, Answer
<1>2. GettingOK(Idle) /\ ListingOK(Idle)
  BY DEF GettingOK, ListingOK, Idle, Getting, Listing
<1>3. QED
  BY <1>1, <1>2, ReaderFrame DEF Answer

-----------------------------------------------------------------------------
(* Steps of the call that has the lock, or takes it.                       *)

LEMMA HolderFrame ==
    ASSUME IInv, NEW c \in Clients, call[c] \in Locked \/ ~lock,
           NEW k \in Locked \cup {Idle}, Become(c, k), lock' \in BOOLEAN,
           k \in Locked => lock' = TRUE,
           file' \in [STATUSES -> [Reports -> Content]],
           filed \subseteq filed', filed' \subseteq Reports,
           noted' \in [Reports -> NoteOrNone],
           \A i \in Reports : Exists("resolved", i) => Exists("resolved", i)',
           FilingOK(k)', ResolvingOK(k)',
           FileInv', OpenReportsCapped', ResolutionKept'
    PROVE  IInv'
<1>1. /\ call \in [Clients -> Calls] /\ k \in Calls
      /\ k \notin Getting /\ k \notin Listing /\ Idle \notin Locked
  BY CallKinds, CallsMade DEF IInv, TypeOK, GettingAt, ListingAt, FilingAt,
     ResolvingAt, Getting, Listing, Filing, Resolving, Idle, Locked
<1>2. /\ call' \in [Clients -> Calls] /\ call'[c] = k
      /\ \A d \in Clients \ {c} : call'[d] = call[d]
  BY <1>1, BecomeCall
<1>3. \A d \in Clients \ {c} : call[d] \notin Locked
  BY DEF IInv, LockInv
<1>4. TypeOK'
  BY <1>2 DEF IInv, TypeOK
<1>5. LockInv'
  BY <1>2, <1>3 DEF LockInv
<1>6. ASSUME NEW d \in Clients PROVE CallInv(call[d])'
  <2>1. CASE d = c
    BY <1>1, <1>2, <2>1 DEF CallInv, GettingOK, ListingOK, FilingOK, ResolvingOK
  <2>2. CASE d # c
    <3>1. /\ call'[d] = call[d] /\ call[d] \in Calls
          /\ call[d] \notin Filing /\ call[d] \notin Resolving
          /\ CallInv(call[d])
      BY <1>1, <1>2, <1>3, <2>2 DEF Locked, IInv
    <3>2. call[d] \in Getting => call[d].id \in Reports
      BY <3>1, CallFields, CallKinds
    <3> QED
      BY <3>1, <3>2 DEF CallInv, GettingOK, ListingOK, FilingOK, ResolvingOK
  <2> QED
    BY <2>1, <2>2
<1>7. QED
  BY <1>4, <1>5, <1>6 DEF IInv

\* The files and the history as they are.
LEMMA FilesAsTheyAre ==
    ASSUME IInv, UNCHANGED <<file, filed, noted>>
    PROVE  /\ file' \in [STATUSES -> [Reports -> Content]]
           /\ filed \subseteq filed' /\ filed' \subseteq Reports
           /\ noted' \in [Reports -> NoteOrNone]
           /\ \A i \in Reports : Exists("resolved", i) => Exists("resolved", i)'
           /\ FileInv' /\ OpenReportsCapped' /\ ResolutionKept'
  BY DEF IInv, TypeOK, FileInv, OpenReportsCapped, ResolutionKept, OpenFiles,
     Exists

\* What a handler with the lock has in hand.
LEMMA Holder ==
    ASSUME IInv, NEW c \in Clients, call[c].at \in FilingAt \cup ResolvingAt
    PROVE  /\ call[c] \in Calls /\ call[c] \in Locked /\ lock = TRUE
           /\ CallInv(call[c])
           /\ call[c].at \in FilingAt => call[c] \in Filing
           /\ call[c].at \in ResolvingAt => call[c] \in Resolving
           /\ call[c].id \in Reports
  BY CallKinds, CallFields DEF IInv, TypeOK, LockInv, Locked, FilingAt, ResolvingAt

\* An idle handler claims nothing.
LEMMA IdleOK == FilingOK(Idle)' /\ ResolvingOK(Idle)' /\ Idle \notin Locked
  BY DEF FilingOK, ResolvingOK, Idle, Filing, Resolving, Locked

\* The two ways a call that holds the lock ends without having written.
LEMMA LeaveStep ==
    ASSUME IInv, NEW c \in Clients, call[c] \in Locked, Leave(c),
           UNCHANGED <<file, filed, noted>>
    PROVE  IInv'
  BY FilesAsTheyAre, IdleOK, HolderFrame DEF Leave

LEMMA BeginFileStep ==
    ASSUME IInv, NEW c \in Clients, NEW i \in Reports, BeginFile(c, i)
    PROVE  IInv'
<1> DEFINE k == File("count", i)
<1>1. k \in Filing /\ k \in Locked /\ k \notin Resolving
  BY CallsMade, CallKinds DEF FilingAt, Locked, Filing, Resolving
<1>2. i \notin filed /\ noted[i] = NoNote /\ ~Exists("open", i)
  BY DEF BeginFile, STATUSES, IInv, FileInv, ResolutionKept, Exists, Readable
<1>3. FilingOK(k)' /\ ResolvingOK(k)'
  BY <1>1, <1>2 DEF BeginFile, FilingOK, ResolvingOK, File, Exists
<1>4. QED
  BY <1>1, <1>3, FilesAsTheyAre, HolderFrame DEF BeginFile

LEMMA CountOpenStep ==
    ASSUME IInv, NEW c \in Clients, CountOpen(c)
    PROVE  IInv'
<1>1. /\ call[c] \in Filing /\ call[c] \in Locked /\ lock = TRUE
      /\ call[c].id \in Reports /\ FilingOK(call[c]) /\ call[c].at = "count"
  BY Holder DEF CountOpen, At, FilingAt, CallInv
<1> PICK k : k = File("create", call[c].id)
  OBVIOUS
<1>2. k \in Filing /\ k \in Locked /\ k \notin Resolving
  BY <1>1, CallsMade, CallKinds DEF FilingAt, Locked, Filing, Resolving
<1>3. CASE Cardinality(OpenFiles) >= MaximumOpenReports
  BY <1>1, <1>3, LeaveStep DEF CountOpen
<1>4. CASE ~(Cardinality(OpenFiles) >= MaximumOpenReports)
  <2>1. Cardinality(OpenFiles) < MaximumOpenReports
    <3>1. Cardinality(OpenFiles) \in Nat
      BY FS_Subset, FS_CardinalityType DEF OpenFiles
    <3> QED
      BY <3>1, <1>4
  <2>2. FilingOK(k)' /\ ResolvingOK(k)'
    BY <1>1, <1>2, <2>1 DEF CountOpen, FilingOK, ResolvingOK, File, Exists, OpenFiles
  <2> QED
    BY <1>1, <1>2, <1>4, <2>2, FilesAsTheyAre, HolderFrame DEF CountOpen
<1>5. QED
  BY <1>3, <1>4

LEMMA CreateStep ==
    ASSUME IInv, NEW c \in Clients, Create(c)
    PROVE  IInv'
<1> PICK i : i = call[c].id
  OBVIOUS
<1> DEFINE k == File("write", i)
<1>1. /\ call[c] \in Filing /\ call[c] \in Locked /\ lock = TRUE
      /\ i \in Reports /\ FilingOK(call[c]) /\ call[c].at = "create"
  BY Holder DEF Create, At, FilingAt, CallInv
<1>2. k \in Filing /\ k \in Locked /\ k \notin Resolving
  BY <1>1, CallsMade, CallKinds DEF FilingAt, Locked, Filing, Resolving
<1>3. /\ file' \in [STATUSES -> [Reports -> Content]]
      /\ file'["open"][i] = Empty
      /\ \A t \in STATUSES, j \in Reports :
             t # "open" \/ j # i => file'[t][j] = file[t][j]
  BY <1>1, PutContent, ContentsMade DEF Create, IInv, TypeOK, STATUSES
<1>4. i \notin filed /\ noted[i] = NoNote /\ i \notin OpenFiles
      /\ Cardinality(OpenFiles) < MaximumOpenReports
  BY <1>1 DEF FilingOK, OpenFiles
<1>5. OpenFiles' = OpenFiles \cup {i}
  BY <1>1, <1>3 DEF OpenFiles, Exists, STATUSES, Empty
<1>6. OpenReportsCapped'
  BY <1>1, <1>4, <1>5, OneMoreOpen DEF OpenReportsCapped
<1>7. FileInv' /\ ResolutionKept'
  BY <1>1, <1>3, <1>4 DEF Create, IInv, FileInv, ResolutionKept, Exists, STATUSES,
     Readable
<1>8. FilingOK(k)' /\ ResolvingOK(k)'
  BY <1>2, <1>3, <1>4 DEF Create, FilingOK, ResolvingOK, File, Exists, Empty
<1>9. \A j \in Reports : Exists("resolved", j) => Exists("resolved", j)'
  BY <1>3 DEF Exists, STATUSES
<1>10. QED
  BY <1>1, <1>2, <1>3, <1>6, <1>7, <1>8, <1>9, HolderFrame DEF Create, IInv, TypeOK

\* A report that is being written is in open/ already.
LEMMA WriteStep ==
    ASSUME IInv, NEW c \in Clients, WriteSome(c) \/ Write(c)
    PROVE  IInv'
<1> PICK i, p : i = call[c].id /\ file' = [file EXCEPT !["open"][i] = p]
                /\ p \in Prefixes(NewReport) \cup {NewReport}
  BY DEF WriteSome, Write, Put
<1>1. /\ call[c] \in Filing /\ call[c] \in Locked /\ lock = TRUE /\ call[c] \in Calls
      /\ i \in Reports /\ FilingOK(call[c]) /\ call[c].at = "write"
  BY Holder DEF WriteSome, Write, At, FilingAt, CallInv
<1>2. /\ p \in Content /\ p.text \in {"cut", "whole"}
      /\ NewReport \in Content /\ NewReport.text = "whole"
  BY ContentsMade DEF NewReport, STATUSES, NoteOrNone, Render, Prefixes
<1>3. /\ file' \in [STATUSES -> [Reports -> Content]]
      /\ file'["open"][i] = p
      /\ \A t \in STATUSES, j \in Reports :
             t # "open" \/ j # i => file'[t][j] = file[t][j]
  BY <1>1, <1>2, PutContent DEF IInv, TypeOK, STATUSES, Put
<1>4. i \notin filed /\ noted[i] = NoNote
  BY <1>1 DEF FilingOK
<1>5. \A j \in Reports : Exists("resolved", j) => Exists("resolved", j)'
  BY <1>3 DEF Exists, STATUSES
<1>6. OpenReportsCapped'
  <2>1. i \in OpenFiles
    <3>1. FilingOK(call[c]) /\ call[c].at = "write"
      BY <1>1
    <3> QED
      BY <1>1, <3>1 DEF FilingOK, OpenFiles
  <2>2. OpenFiles' \subseteq OpenFiles
    BY <1>3, <2>1 DEF OpenFiles, Exists, STATUSES
  <2> QED
    BY <2>2, FewerOpen DEF OpenReportsCapped, IInv
<1>7. ResolutionKept'
  BY <1>3, <1>4 DEF WriteSome, Write, IInv, ResolutionKept, Exists, STATUSES, Readable
<1>8. CASE WriteSome(c)
  <2>1. FileInv'
    BY <1>3, <1>4, <1>8 DEF WriteSome, IInv, FileInv, STATUSES, Readable
  <2> PICK k : k = call[c]
    OBVIOUS
  <2>2. FilingOK(k)' /\ ResolvingOK(k)'
    BY <1>1, <1>2, <1>3, <1>4, <1>8 DEF WriteSome, FilingOK, ResolvingOK, Filing,
       Resolving, Exists
  <2>3. Become(c, k)
    BY <1>8 DEF WriteSome, Become, IInv, TypeOK
  <2> QED
    BY <1>1, <1>3, <1>5, <1>6, <1>7, <1>8, <2>1, <2>2, <2>3, HolderFrame
       DEF WriteSome, IInv, TypeOK
<1>9. CASE Write(c)
  <2>1. p = NewReport
    BY <1>1, <1>2, <1>3, <1>9, PutContent DEF Write, IInv, TypeOK, STATUSES
  <2>2. FileInv'
    BY <1>2, <1>3, <1>4, <1>9, <2>1 DEF Write, IInv, FileInv, STATUSES, Readable
  <2> QED
    BY <1>1, <1>3, <1>5, <1>6, <1>7, <1>9, <2>2, IdleOK, HolderFrame
       DEF Write, Leave, IInv, TypeOK
<1>10. QED
  BY <1>8, <1>9

LEMMA BeginResolveStep ==
    ASSUME IInv, NEW c \in Clients, NEW i \in Reports, NEW n \in Notes,
           BeginResolve(c, i, n)
    PROVE  IInv'
<1> DEFINE k == Resolve("find", i, n, "open", "cut")
<1>1. k \in Resolving /\ k \in Locked /\ k \notin Filing
  BY CallsMade, CallKinds DEF ResolvingAt, Locked, Filing, Resolving, STATUSES
<1>2. FilingOK(k)' /\ ResolvingOK(k)'
  BY <1>1 DEF FilingOK, ResolvingOK, Resolve
<1>3. QED
  BY <1>1, <1>2, FilesAsTheyAre, HolderFrame DEF BeginResolve

\* What resolve has found out so far may be more than before.
LEMMA ProceedStep ==
    ASSUME IInv, NEW c \in Clients, call[c].at \in ResolvingAt,
           NEW at \in ResolvingAt, NEW path \in STATUSES, NEW text \in {"cut", "whole"},
           Proceed(c, at, path, text), UNCHANGED <<file, lock, filed, noted>>,
           at = "parse" => Exists(path, call[c].id),
           at \in {"overwrite", "rewrite", "unlink"} =>
               path = "open" /\ file["open"][call[c].id].text = text,
           at # "unlink"
    PROVE  IInv'
<1> PICK i, n, k : i = call[c].id /\ n = call[c].note
                   /\ k = Resolve(at, i, n, path, text)
  OBVIOUS
<1>1. /\ call[c] \in Resolving /\ call[c] \in Locked /\ lock = TRUE
      /\ i \in Reports /\ n \in Notes
  BY Holder, CallFields
<1>2. k \in Resolving /\ k \in Locked /\ k \notin Filing
  BY <1>1, CallsMade, CallKinds DEF ResolvingAt, Locked, Filing, Resolving
<1>3. FilingOK(k)' /\ ResolvingOK(k)'
  BY <1>1, <1>2 DEF FilingOK, ResolvingOK, Resolve, Exists
<1>4. QED
  BY <1>1, <1>2, <1>3, FilesAsTheyAre, HolderFrame DEF Proceed

LEMMA FindParseStep ==
    ASSUME IInv, NEW c \in Clients, Find(c) \/ Parse(c)
    PROVE  IInv'
<1> DEFINE found == file[call[c].path][call[c].id]
<1>1. /\ call[c] \in Resolving /\ call[c] \in Locked /\ call[c].at \in ResolvingAt
      /\ call[c].id \in Reports /\ ResolvingOK(call[c])
      /\ call[c].path \in STATUSES
  BY Holder, CallFields DEF Find, Parse, At, ResolvingAt, CallInv
<1>2. CASE Find(c)
  BY <1>1, <1>2, ProceedStep, LeaveStep DEF Find, ResolvingAt, STATUSES
<1>3. CASE Parse(c) /\ Readable(found) /\ found.status = "open"
  <2>1. call[c].path = "open"
    BY <1>1, <1>3 DEF IInv, FileInv, STATUSES
  <2>2. found.text \in {"cut", "whole"}
    BY <1>3 DEF Readable
  <2> QED
    BY <1>1, <1>3, <2>1, <2>2, ProceedStep DEF Parse, ResolvingAt, STATUSES
<1>4. CASE Parse(c) /\ ~(Readable(found) /\ found.status = "open")
  BY <1>1, <1>4, LeaveStep DEF Parse
<1>5. QED
  BY <1>2, <1>3, <1>4

\* The file in resolved/ is written while the one in open/ still is whole.
LEMMA RewriteFrame ==
    ASSUME IInv, NEW c \in Clients, call[c].at \in {"overwrite", "rewrite"},
           NEW p \in Content, Readable(p) => p.status = "resolved",
           p.text # "absent", Put("resolved", call[c].id, p),
           NEW at \in {"rewrite", "unlink"},
           at = "unlink" => p = Resolved(call[c]),
           Proceed(c, at, call[c].path, call[c].text),
           UNCHANGED <<lock, filed, noted>>
    PROVE  IInv'
<1> PICK i, n, text, k : /\ i = call[c].id /\ n = call[c].note /\ text = call[c].text
                         /\ k = Resolve(at, i, n, "open", text)
  OBVIOUS
<1>1. /\ call[c] \in Resolving /\ call[c] \in Locked /\ lock = TRUE
      /\ i \in Reports /\ n \in Notes /\ text \in {"cut", "whole"}
      /\ call[c].path = "open" /\ file["open"][i].text = text
  BY Holder, CallFields DEF ResolvingAt, CallInv, ResolvingOK
<1>2. k \in Resolving /\ k \in Locked /\ k \notin Filing
  BY <1>1, CallsMade, CallKinds DEF ResolvingAt, Locked, Filing, Resolving, STATUSES
<1>3. /\ file' \in [STATUSES -> [Reports -> Content]]
      /\ file'["resolved"][i] = p
      /\ \A t \in STATUSES, j \in Reports :
             t # "resolved" \/ j # i => file'[t][j] = file[t][j]
  BY <1>1, PutContent DEF IInv, TypeOK, STATUSES
<1>4. noted[i] = NoNote
  BY <1>1 DEF IInv, ResolutionKept, Exists
<1>5. OpenReportsCapped'
  BY <1>3 DEF IInv, OpenReportsCapped, OpenFiles, Exists, STATUSES
<1>6. FileInv'
  BY <1>3, <1>4 DEF IInv, FileInv, STATUSES, Readable
<1>7. ResolutionKept'
  BY <1>3, <1>4 DEF IInv, ResolutionKept, STATUSES, Readable, Exists
<1>8. ResolvingOK(k)' /\ FilingOK(k)'
  BY <1>1, <1>2, <1>3 DEF ResolvingOK, FilingOK, Resolve, Resolved, STATUSES
<1>9. \A j \in Reports : Exists("resolved", j) => Exists("resolved", j)'
  BY <1>3 DEF Exists, STATUSES
<1>10. Become(c, k)
  BY <1>1 DEF Proceed
<1>11. QED
  BY <1>1, <1>2, <1>3, <1>5, <1>6, <1>7, <1>8, <1>9, <1>10, HolderFrame
     DEF IInv, TypeOK

LEMMA RewriteStep ==
    ASSUME IInv, NEW c \in Clients, Overwrite(c) \/ RewriteSome(c) \/ Rewrite(c)
    PROVE  IInv'
<1> DEFINE new == Resolved(call[c])
<1>1. /\ call[c] \in Resolving /\ call[c].at \in {"overwrite", "rewrite"}
      /\ call[c].note \in Notes /\ call[c].text \in {"cut", "whole"}
      /\ call[c].path = "open"
  BY Holder, CallFields
     DEF Overwrite, RewriteSome, Rewrite, At, ResolvingAt, CallInv, ResolvingOK
<1>2. /\ new \in Content /\ Prefixes(new) \subseteq Content /\ Empty \in Content
      /\ \A p \in Prefixes(new) \cup {new} :
             p.status = "resolved" /\ p.text \in {"cut", "whole"}
      /\ Empty.text = "empty"
  BY <1>1, ContentsMade DEF Resolved, Prefixes, Render, STATUSES, NoteOrNone, Empty
<1>3. CASE Overwrite(c)
  BY <1>1, <1>2, <1>3, RewriteFrame DEF Overwrite, Readable
<1>4. CASE RewriteSome(c)
  <2>1. PICK p \in Prefixes(new) : Put("resolved", call[c].id, p)
    BY <1>4 DEF RewriteSome
  <2>2. Proceed(c, "rewrite", call[c].path, call[c].text)
    <3>1. call[c] = Resolve("rewrite", call[c].id, call[c].note, call[c].path,
                            call[c].text)
      BY <1>1, <1>4 DEF RewriteSome, At, Resolve, Resolving
    <3> QED
      BY <3>1, <1>4 DEF RewriteSome, Proceed, Become, IInv, TypeOK
  <2> QED
    BY <1>1, <1>2, <1>4, <2>1, <2>2, RewriteFrame DEF RewriteSome
<1>5. CASE Rewrite(c)
  BY <1>1, <1>2, <1>5, RewriteFrame DEF Rewrite
<1>6. QED
  BY <1>3, <1>4, <1>5

LEMMA UnlinkStep == ASSUME IInv, NEW c \in Clients, Unlink(c) PROVE IInv'
<1> PICK i, n, text : i = call[c].id /\ n = call[c].note /\ text = call[c].text
  OBVIOUS
<1>1. /\ call[c] \in Locked /\ lock = TRUE
      /\ i \in Reports /\ n \in Notes /\ text \in {"cut", "whole"}
      /\ call[c].path = "open" /\ file["open"][i].text = text
      /\ file["resolved"][i] = Render(text, "resolved", n)
  BY Holder, CallFields DEF Unlink, At, ResolvingAt, CallInv, ResolvingOK, Resolved
<1>2. /\ file' \in [STATUSES -> [Reports -> Content]]
      /\ file'["open"][i] = Absent
      /\ \A t \in STATUSES, j \in Reports :
             t # "open" \/ j # i => file'[t][j] = file[t][j]
  BY <1>1, PutContent, ContentsMade DEF Unlink, IInv, TypeOK, STATUSES
<1>3. noted[i] = NoNote /\ noted' = [noted EXCEPT ![i] = n]
  BY <1>1 DEF Unlink, IInv, ResolutionKept, Exists
<1>4. noted' \in [Reports -> NoteOrNone] /\ noted'[i] # NoNote /\ filed' = filed
  BY <1>1, <1>3 DEF Unlink, IInv, TypeOK, NoteOrNone
<1>5. OpenReportsCapped'
  <2>1. OpenFiles' \subseteq OpenFiles
    BY <1>2 DEF OpenFiles, Exists, STATUSES, Absent
  <2> QED
    BY <2>1, FewerOpen DEF IInv, OpenReportsCapped
<1>6. FileInv'
  BY <1>1, <1>2, <1>3, <1>4 DEF IInv, TypeOK, FileInv, STATUSES, Render
<1>7. ResolutionKept'
  BY <1>1, <1>2, <1>3, <1>4 DEF IInv, TypeOK, ResolutionKept, STATUSES, Render, Readable,
     Exists, Absent
<1>8. \A j \in Reports : Exists("resolved", j) => Exists("resolved", j)'
  BY <1>2 DEF Exists, STATUSES
<1>9. QED
  BY <1>1, <1>2, <1>4, <1>5, <1>6, <1>7, <1>8, IdleOK, HolderFrame
     DEF Unlink, Leave, IInv, TypeOK

LEMMA CrashStep == ASSUME IInv, Crash PROVE IInv'
<1>1. TypeOK'
  BY CallsMade DEF Crash, IInv, TypeOK
<1>2. \A c \in Clients : call'[c] = Idle
  BY DEF Crash
<1>3. CallInv(Idle)' /\ Idle \notin Locked
  BY IdleOK DEF CallInv, GettingOK, ListingOK, Idle, Getting, Listing
<1>4. LockInv' /\ \A c \in Clients : CallInv(call[c])'
  BY <1>2, <1>3 DEF LockInv, CallInv, FilingOK, ResolvingOK, GettingOK, ListingOK
<1>5. FileInv' /\ OpenReportsCapped' /\ ResolutionKept'
  BY FilesAsTheyAre DEF Crash
<1>6. QED
  BY <1>1, <1>4, <1>5 DEF IInv

-----------------------------------------------------------------------------
(* The invariant, and what follows from it.                                *)

LEMMA IInvInit == Init => IInv
<1> SUFFICES ASSUME Init PROVE IInv
  OBVIOUS
<1>1. TypeOK
  BY CallsMade, ContentsMade DEF Init, TypeOK, STATUSES, NoteOrNone
<1>2. Idle \notin Locked /\ CallInv(Idle)
  BY DEF CallInv, FilingOK, ResolvingOK, GettingOK, ListingOK, Idle, Locked,
     Filing, Resolving, Getting, Listing
<1>3. LockInv /\ \A c \in Clients : CallInv(call[c])
  BY <1>2 DEF Init, LockInv
<1>4. FileInv /\ ResolutionKept
  BY DEF Init, FileInv, ResolutionKept, STATUSES, Absent, Readable
<1>5. OpenFiles = {}
  BY DEF Init, OpenFiles, Exists, Absent, STATUSES
<1>6. OpenReportsCapped
  BY <1>5, FS_EmptySet DEF OpenReportsCapped
<1>7. QED
  BY <1>1, <1>3, <1>4, <1>6 DEF IInv

LEMMA IInvStep == IInv /\ [Next]_vars => IInv'
<1> SUFFICES ASSUME IInv, [Next]_vars PROVE IInv'
  OBVIOUS
<1>1. ASSUME NEW c \in Clients, report_bug(c) PROVE IInv'
  BY <1>1, BeginFileStep, CountOpenStep, CreateStep, WriteStep DEF report_bug
<1>2. ASSUME NEW c \in Clients, resolve_bug_report(c) PROVE IInv'
  BY <1>2, BeginResolveStep, FindParseStep, RewriteStep, UnlinkStep
     DEF resolve_bug_report
<1>3. CASE UNCHANGED vars
  <2>1. TypeOK' /\ LockInv' /\ FileInv' /\ OpenReportsCapped' /\ ResolutionKept'
    BY <1>3, FilesAsTheyAre DEF vars, IInv, TypeOK, LockInv
  <2>2. \A c \in Clients : CallInv(call[c])'
    BY <1>3 DEF vars, IInv, CallInv, FilingOK, ResolvingOK, GettingOK, ListingOK,
       Exists, OpenFiles
  <2> QED
    BY <2>1, <2>2 DEF IInv
<1>4. QED
  BY <1>1, <1>2, <1>3, GetStep, ListStep, AnswerStep, CrashStep DEF Next

\* Whatever the calls, their order and the crashes, the store stays within
\* its invariant, as long as nobody moves its files.
THEOREM InvariantHolds == Spec => []IInv
<1>1. Init => IInv
  BY IInvInit
<1>2. IInv /\ [Next]_vars => IInv'
  BY IInvStep
<1>3. QED
  BY <1>1, <1>2, PTL DEF Spec

\* The variables stay in range.
THEOREM TypeCorrect == Spec => []TypeOK
<1>1. IInv => TypeOK
  BY DEF IInv
<1>2. QED
  BY <1>1, InvariantHolds, PTL

\* The cap on open reports.
THEOREM CapHolds == Spec => []OpenReportsCapped
<1>1. IInv => OpenReportsCapped
  BY DEF IInv
<1>2. QED
  BY <1>1, InvariantHolds, PTL

\* An acknowledged report is on disk in full at every moment.
THEOREM ReportsAreKept == Spec => []ReportKept
<1>1. IInv => ReportKept
  BY DEF IInv, TypeOK, FileInv, ReportKept, STATUSES
<1>2. QED
  BY <1>1, InvariantHolds, PTL

\* An acknowledged resolution is never lost or replaced.
THEOREM ResolutionsAreKept == Spec => []ResolutionKept
<1>1. IInv => ResolutionKept
  BY DEF IInv
<1>2. QED
  BY <1>1, InvariantHolds, PTL

\* get finds what has been acknowledged, while it moves.
THEOREM KnownReportsAreFound == Spec => []KnownReportIsFound
<1>1. IInv => KnownReportIsFound
  BY CallKinds DEF IInv, TypeOK, CallInv, GettingOK, KnownReportIsFound, At, GettingAt
<1>2. QED
  BY <1>1, InvariantHolds, PTL

\* An answered listing is complete, while files move.
THEOREM ListingsAreComplete == Spec => []ListingIsComplete
<1>1. IInv => ListingIsComplete
  BY CallKinds DEF IInv, TypeOK, CallInv, ListingOK, ListingIsComplete, At, ListingAt
<1>2. QED
  BY <1>1, InvariantHolds, PTL

=============================================================================
