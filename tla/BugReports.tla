----------------------------- MODULE BugReports -----------------------------
(***************************************************************************)
(* BugReportStore of fleetboot/server/bug_reports.py, called by the bug    *)
(* report tools of fleetboot/server/mcp.py: one Markdown file per report,  *)
(* in open/ until it is resolved and in resolved/ afterwards.              *)
(*                                                                         *)
(* file and resolve hold a lock, list and get do not.  A file is written   *)
(* by opening it, which empties it, and by one or more writes; the process *)
(* may stop anywhere in between.  Validation that only refuses a call is   *)
(* left out.                                                               *)
(***************************************************************************)
EXTENDS Integers, FiniteSets

CONSTANTS
    Reports,              \* report ids
    Notes,                \* what the resolutions say
    NoNote,               \* resolution is None
    Clients,              \* the handlers of concurrent tool calls
    MaximumOpenReports

ASSUME NotesAssumption == NoNote \notin Notes
ASSUME ReportsAssumption == IsFiniteSet(Reports)
ASSUME CapAssumption == MaximumOpenReports \in Nat

VARIABLES
    file,                 \* what is in open/ and resolved/
    lock,                 \* _lock
    call,                 \* what each handler is doing
    filed,                \* history: the reports report_bug has answered
    noted                 \* history: the resolutions it has acknowledged

vars == <<file, lock, call, filed, noted>>

-----------------------------------------------------------------------------
(* The files.                                                              *)

STATUSES == {"open", "resolved"}
NoteOrNone == Notes \cup {NoNote}

\* A file: how much of the description it has, and its status and
\* resolution as _parse reads them.
Content == [text : {"absent", "empty", "cut", "whole"},
            status : STATUSES, note : NoteOrNone]

Absent == [text |-> "absent", status |-> "open", note |-> NoNote]
Empty == [text |-> "empty", status |-> "open", note |-> NoNote]

\* _render of a report
Render(text, status, note) ==
    [text |-> text, status |-> status, note |-> note]

\* What the file may hold after some of the writes: the fields are in the
\* first of them, the resolution comes last.
Prefixes(c) ==
    {Render("cut", c.status, NoNote), Render(c.text, c.status, NoNote)}

Exists(s, i) == file[s][i].text # "absent"

\* _parse raises IndexError on an empty file, FileNotFoundError on none.
Readable(c) == c.text \in {"cut", "whole"}

Put(s, i, c) == file' = [file EXCEPT ![s][i] = c]

-----------------------------------------------------------------------------
(* The calls.                                                              *)

Idle == [at |-> "idle"]

File(at, id) == [at |-> at, id |-> id]

\* text is the description _parse has read from path.
Resolve(at, id, note, path, text) ==
    [at |-> at, id |-> id, note |-> note, path |-> path, text |-> text]

\* known: the report had been acknowledged when the call began.
Get(at, id, known) == [at |-> at, id |-> id, known |-> known]

\* left: the paths still to parse; due: the reports the listing is about.
List(at, status, left, seen, due) ==
    [at |-> at, status |-> status, left |-> left, seen |-> seen, due |-> due]

Filing == [at : {"count", "create", "write"}, id : Reports]

Resolving == [at : {"find", "parse", "overwrite", "rewrite", "unlink"},
              id : Reports, note : Notes, path : STATUSES,
              text : {"cut", "whole"}]

Getting == [at : {"open", "resolved", "read", "unknown"},
            id : Reports, known : BOOLEAN]

Listing == [at : {"list", "listed"}, status : STATUSES,
            left : SUBSET Reports, seen : SUBSET Reports,
            due : SUBSET Reports]

Calls == {Idle} \cup Filing \cup Resolving \cup Getting \cup Listing

At(c, s) == call[c].at = s

Become(c, k) == call' = [call EXCEPT ![c] = k]

\* A call that holds the lock ends, with an answer or an exception.
Leave(c) == lock' = FALSE /\ Become(c, Idle)

\* Variant: without the lock.
BeginFileUnlocked(c, i) ==
    /\ At(c, "idle")
    /\ \A s \in STATUSES : ~Exists(s, i)
    /\ \A d \in Clients : call[d].at \in {"count", "create"} => call[d].id # i
    /\ Become(c, File("count", i))
    /\ UNCHANGED <<file, lock, filed, noted>>

\* file: report ids are new.
BeginFile(c, i) ==
    /\ At(c, "idle")
    /\ ~lock
    /\ \A s \in STATUSES : ~Exists(s, i)
    /\ lock' = TRUE
    /\ Become(c, File("count", i))
    /\ UNCHANGED <<file, filed, noted>>

\* open_directory.glob("*.md")
OpenFiles == {i \in Reports : Exists("open", i)}

\* The cap.
CountOpen(c) ==
    /\ At(c, "count")
    /\ IF Cardinality(OpenFiles) >= MaximumOpenReports
       THEN Leave(c)
       ELSE Become(c, File("create", call[c].id)) /\ UNCHANGED lock
    /\ UNCHANGED <<file, filed, noted>>

\* path.write_text opens the file.
Create(c) ==
    /\ At(c, "create")
    /\ Put("open", call[c].id, Empty)
    /\ Become(c, File("write", call[c].id))
    /\ UNCHANGED <<lock, filed, noted>>

\* Variant: the status given for the text.
NewReportMixedUp == Render("open", "open", NoNote)

NewReport == Render("whole", "open", NoNote)

\* A write that is not the last one.
WriteSome(c) ==
    /\ At(c, "write")
    /\ \E p \in Prefixes(NewReport) : Put("open", call[c].id, p)
    /\ UNCHANGED <<lock, call, filed, noted>>

\* The last one, and the answer.
Write(c) ==
    /\ At(c, "write")
    /\ Put("open", call[c].id, NewReport)
    /\ Leave(c)
    /\ filed' = filed \cup {call[c].id}
    /\ UNCHANGED noted

-----------------------------------------------------------------------------
BeginResolve(c, i, n) ==
    /\ At(c, "idle")
    /\ ~lock
    /\ lock' = TRUE
    /\ Become(c, Resolve("find", i, n, "open", "cut"))
    /\ UNCHANGED <<file, filed, noted>>

\* The call goes on, with what it has found out.
Proceed(c, at, path, text) ==
    Become(c, Resolve(at, call[c].id, call[c].note, path, text))

\* _find, which prefers open/.
Find(c) ==
    /\ At(c, "find")
    /\ \/ /\ Exists("open", call[c].id)
          /\ Proceed(c, "parse", "open", "cut") /\ UNCHANGED lock
       \/ /\ ~Exists("open", call[c].id) /\ Exists("resolved", call[c].id)
          /\ Proceed(c, "parse", "resolved", "cut") /\ UNCHANGED lock
       \/ /\ \A s \in STATUSES : ~Exists(s, call[c].id)
          /\ Leave(c)
    /\ UNCHANGED <<file, filed, noted>>

\* Variant: the status is not looked at.
ParseAnyStatus(c) ==
    /\ At(c, "parse")
    /\ LET found == file[call[c].path][call[c].id]
       IN  IF Readable(found)
           THEN /\ Proceed(c, "overwrite", call[c].path, found.text)
                /\ UNCHANGED lock
           ELSE Leave(c)
    /\ UNCHANGED <<file, filed, noted>>

\* Variant: the open file is unlinked as soon as it has been read.
ParseAndUnlink(c) ==
    /\ At(c, "parse")
    /\ LET found == file[call[c].path][call[c].id]
       IN  IF Readable(found) /\ found.status = "open"
           THEN /\ Proceed(c, "overwrite", call[c].path, found.text)
                /\ Put("open", call[c].id, Absent)
                /\ UNCHANGED lock
           ELSE Leave(c) /\ UNCHANGED file
    /\ UNCHANGED <<filed, noted>>

\* _parse, and "already resolved".
Parse(c) ==
    /\ At(c, "parse")
    /\ LET found == file[call[c].path][call[c].id]
       IN  IF Readable(found) /\ found.status = "open"
           THEN /\ Proceed(c, "overwrite", call[c].path, found.text)
                /\ UNCHANGED lock
           ELSE Leave(c)
    /\ UNCHANGED <<file, filed, noted>>

\* Variant: the file is renamed, then written anew.
OverwriteRenamed(c) ==
    /\ At(c, "overwrite")
    /\ file' = [file EXCEPT !["open"][call[c].id] = Absent,
                            !["resolved"][call[c].id] = Empty]
    /\ Proceed(c, "rewrite", call[c].path, call[c].text)
    /\ UNCHANGED <<lock, filed, noted>>

\* resolved_path.write_text opens the file.
Overwrite(c) ==
    /\ At(c, "overwrite")
    /\ Put("resolved", call[c].id, Empty)
    /\ Proceed(c, "rewrite", call[c].path, call[c].text)
    /\ UNCHANGED <<lock, filed, noted>>

\* The report with its resolution.
Resolved(k) == Render(k.text, "resolved", k.note)

RewriteSome(c) ==
    /\ At(c, "rewrite")
    /\ \E p \in Prefixes(Resolved(call[c])) : Put("resolved", call[c].id, p)
    /\ UNCHANGED <<lock, call, filed, noted>>

Rewrite(c) ==
    /\ At(c, "rewrite")
    /\ Put("resolved", call[c].id, Resolved(call[c]))
    /\ Proceed(c, "unlink", call[c].path, call[c].text)
    /\ UNCHANGED <<lock, filed, noted>>

\* path.unlink(), and the answer unless the file is gone.
Unlink(c) ==
    /\ At(c, "unlink")
    /\ Put(call[c].path, call[c].id, Absent)
    /\ Leave(c)
    /\ noted' = IF Exists(call[c].path, call[c].id)
                   /\ noted[call[c].id] = NoNote
                THEN [noted EXCEPT ![call[c].id] = call[c].note] ELSE noted
    /\ UNCHANGED filed

-----------------------------------------------------------------------------
BeginGet(c, i) ==
    /\ At(c, "idle")
    /\ Become(c, Get("open", i, i \in filed))
    /\ UNCHANGED <<file, lock, filed, noted>>

\* _find: one directory, then the other.
LookInOpen(c) ==
    /\ At(c, "open")
    /\ Become(c, Get(IF Exists("open", call[c].id) THEN "read" ELSE "resolved",
                     call[c].id, call[c].known))
    /\ UNCHANGED <<file, lock, filed, noted>>

LookInResolved(c) ==
    /\ At(c, "resolved")
    /\ Become(c, Get(IF Exists("resolved", call[c].id) THEN "read" ELSE "unknown",
                     call[c].id, call[c].known))
    /\ UNCHANGED <<file, lock, filed, noted>>

\* Listing a directory; due are the reports it should show.
BeginList(c, s) ==
    /\ At(c, "idle")
    /\ Become(c, List("list", s, {i \in Reports : Exists(s, i)}, {},
                      {i \in filed : noted[i] = NoNote <=> s = "open"}))
    /\ UNCHANGED <<file, lock, filed, noted>>

Parsed(c, i, new) ==
    List("list", call[c].status, call[c].left \ {i}, call[c].seen \cup new,
         call[c].due)

\* Variant: files that cannot be parsed are passed over.
ParseNextIfReadable(c, i) ==
    /\ At(c, "list")
    /\ i \in call[c].left
    /\ Become(c, IF Readable(file[call[c].status][i])
                 THEN Parsed(c, i, {i}) ELSE Parsed(c, i, {}))
    /\ UNCHANGED <<file, lock, filed, noted>>

\* _parse of one path: the exception ends the listing.
ParseNext(c, i) ==
    /\ At(c, "list")
    /\ i \in call[c].left
    /\ Become(c, IF Readable(file[call[c].status][i])
                 THEN Parsed(c, i, {i}) ELSE Idle)
    /\ UNCHANGED <<file, lock, filed, noted>>

EndList(c) ==
    /\ At(c, "list")
    /\ call[c].left = {}
    /\ Become(c, List("listed", call[c].status, {}, call[c].seen, call[c].due))
    /\ UNCHANGED <<file, lock, filed, noted>>

\* get and list answer.
Answer(c) ==
    /\ call[c].at \in {"read", "unknown", "listed"}
    /\ Become(c, Idle)
    /\ UNCHANGED <<file, lock, filed, noted>>

-----------------------------------------------------------------------------
(* The process stops: whatever was being written stays as it is.           *)
Crash ==
    /\ lock' = FALSE
    /\ call' = [c \in Clients |-> Idle]
    /\ UNCHANGED <<file, filed, noted>>

\* "or move the file to resolved/ and add a ## Resolution section yourself"
MoveByHand(i, n) ==
    /\ Exists("open", i)
    /\ file' = [file EXCEPT !["open"][i] = Absent,
                            !["resolved"][i] = Render(file["open"][i].text,
                                                      file["open"][i].status, n)]
    /\ UNCHANGED <<lock, call, filed, noted>>

Init ==
    /\ file = [s \in STATUSES |-> [i \in Reports |-> Absent]]
    /\ lock = FALSE
    /\ call = [c \in Clients |-> Idle]
    /\ filed = {}
    /\ noted = [i \in Reports |-> NoNote]

report_bug(c) ==
    \/ \E i \in Reports : BeginFile(c, i)
    \/ CountOpen(c) \/ Create(c) \/ WriteSome(c) \/ Write(c)

resolve_bug_report(c) ==
    \/ \E i \in Reports, n \in Notes : BeginResolve(c, i, n)
    \/ Find(c) \/ Parse(c) \/ Overwrite(c) \/ RewriteSome(c) \/ Rewrite(c)
    \/ Unlink(c)

get_bug_report(c) ==
    \/ \E i \in Reports : BeginGet(c, i)
    \/ LookInOpen(c) \/ LookInResolved(c)

list_bug_reports(c) ==
    \/ \E s \in STATUSES : BeginList(c, s)
    \/ \E i \in Reports : ParseNext(c, i)
    \/ EndList(c)

Next ==
    \/ \E c \in Clients : \/ report_bug(c) \/ resolve_bug_report(c)
                          \/ get_bug_report(c) \/ list_bug_reports(c)
                          \/ Answer(c)
    \/ Crash

Spec == Init /\ [][Next]_vars

\* The store with somebody who moves its files, as the README in it offers.
MovedNext == Next \/ \E i \in Reports, n \in Notes : MoveByHand(i, n)

MovedSpec == Init /\ [][MovedNext]_vars

-----------------------------------------------------------------------------
(* Properties.                                                             *)

\* The values the variables range over.
TypeOK ==
    /\ file \in [STATUSES -> [Reports -> Content]]
    /\ lock \in BOOLEAN
    /\ call \in [Clients -> Calls]
    /\ filed \in SUBSET Reports
    /\ noted \in [Reports -> NoteOrNone]

\* "MAXIMUM_OPEN_REPORTS": however many calls file at once, and whatever a
\* crash leaves behind.
OpenReportsCapped == Cardinality(OpenFiles) <= MaximumOpenReports

\* A report whose filing was acknowledged is complete in one of the
\* directories at every moment, resolving it and crashing included.
ReportKept ==
    \A i \in filed : \E s \in STATUSES : file[s][i].text = "whole"

\* The weaker promise that its file is never deleted, which moving files by
\* hand as README.md of the directory offers should leave alone.
ReportNeverDeleted == \A i \in filed : \E s \in STATUSES : Exists(s, i)

\* An acknowledged resolution stays what it was, and the report stays
\* resolved, whoever resolves it again.
ResolutionKept ==
    \A i \in Reports : noted[i] # NoNote =>
        /\ ~Exists("open", i)
        /\ Readable(file["resolved"][i])
        /\ file["resolved"][i].note = noted[i]

\* get never answers "no bug report with id" of a report that was
\* acknowledged before, while it is being moved.
KnownReportIsFound ==
    \A c \in Clients : At(c, "unknown") => ~call[c].known

\* A listing that is answered shows every report that had its status when
\* the directory was listed, although files move and are half written while
\* it reads them.
ListingIsComplete ==
    \A c \in Clients : At(c, "listed") => call[c].due \subseteq call[c].seen

-----------------------------------------------------------------------------
(* The inductive strengthening, without files moved by hand.               *)

Locked == Filing \cup Resolving

\* file and resolve have the lock to themselves.
LockInv ==
    /\ \A c \in Clients : call[c] \in Locked => lock
    /\ \A c, d \in Clients : call[c] \in Locked /\ call[d] \in Locked => c = d

\* An acknowledged report is in open/ until its resolution is acknowledged,
\* whether or not it is in resolved/ by then.
FileInv ==
    \A i \in Reports :
        /\ Readable(file["resolved"][i]) => file["resolved"][i].status = "resolved"
        /\ i \in filed /\ noted[i] = NoNote => file["open"][i].text = "whole"
        /\ i \in filed /\ noted[i] # NoNote =>
               file["resolved"][i].text = "whole"

\* A report being filed is not in open/ before it is written, and there is room for it.
FilingOK(k) ==
    k \in Filing =>
        /\ k.id \notin filed
        /\ noted[k.id] = NoNote
        /\ Exists("open", k.id) <=> k.at = "write"
        /\ k.at = "create" => Cardinality(OpenFiles) < MaximumOpenReports

\* resolve works on the file in open/, whose text it has read, and unlinks
\* it when the one in resolved/ is finished.
ResolvingOK(k) ==
    k \in Resolving =>
        /\ k.at = "parse" => Exists(k.path, k.id)
        /\ k.at \in {"overwrite", "rewrite", "unlink"} =>
               /\ k.path = "open"
               /\ file["open"][k.id].text = k.text
        /\ k.at = "unlink" => file["resolved"][k.id] = Resolved(k)

\* What get and list have seen so far.
GettingOK(k) ==
    k \in Getting =>
        /\ k.known => k.id \in filed
        /\ k.at = "resolved" /\ k.known => Exists("resolved", k.id)
        /\ k.at = "unknown" => ~k.known

ListingOK(k) ==
    k \in Listing =>
        /\ k.due \subseteq k.left \cup k.seen
        /\ k.at = "listed" => k.left = {}

CallInv(k) == FilingOK(k) /\ ResolvingOK(k) /\ GettingOK(k) /\ ListingOK(k)

IInv ==
    /\ TypeOK /\ LockInv /\ FileInv /\ OpenReportsCapped /\ ResolutionKept
    /\ \A c \in Clients : CallInv(call[c])

=============================================================================
