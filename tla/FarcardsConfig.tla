---------------------------- MODULE FarcardsConfig ----------------------------
(***************************************************************************)
(* update_farcards.py and audit_and_fix_all.py: operators change the URLs  *)
(* in FARCARDS.INI of a cash desk over its administrative share, and       *)
(* restart Farcards.exe there, which reads the file as it starts.  Two     *)
(* sweeps may be at one desk at a time: nothing keeps them apart.          *)
(*                                                                         *)
(* A file is the URL its lines name, the other lines being whole; or Gone, *)
(* an empty file, as one that has been opened for writing and no more.     *)
(***************************************************************************)
EXTENDS Naturals

CONSTANTS
  Sweeps,     \* the scripts' threads that come to this desk
  Urls, Target, Gone, NoCopy,
  MaxSeconds, \* bound on the clock
  MaxCuts     \* bound on the threads that are cut off, by an error or the end of the script

ASSUME FarcardsAssumption ==
  /\ Target \in Urls
  /\ Gone \notin Urls /\ NoCopy \notin Urls \cup {Gone}
  /\ MaxSeconds \in Nat \ {0} /\ MaxCuts \in Nat

VARIABLES
  ini,        \* FARCARDS.INI
  copies,     \* the backups, by the second in their names
  farcards,   \* the files that running Farcards.exe have read
  sweeps,     \* what each thread is at
  second, cuts,
  shared,     \* history: two threads have had one second
  unread      \* history: a file was written, and the thread ended without a restart

farcardsVars == <<ini, copies, farcards, sweeps, second, cuts, shared, unread>>

Seconds == 1..MaxSeconds
NoOrder == [does |-> "nothing", url |-> Target, restart |-> FALSE, dry |-> FALSE]
Awaited == [at |-> "waits", stamp |-> 0, order |-> NoOrder, fix |-> FALSE, text |-> Gone]

FarcardsInit ==
  /\ ini \in Urls
  /\ copies = [t \in Seconds |-> NoCopy]
  /\ farcards \in {{}, {ini}}
  /\ sweeps = [w \in Sweeps |-> Awaited]
  /\ second = 1 /\ cuts = 0
  /\ shared = FALSE /\ unread = FALSE

SecondPasses ==
  /\ second < MaxSeconds
  /\ second' = second + 1
  /\ UNCHANGED <<ini, copies, farcards, sweeps, cuts, shared, unread>>

-----------------------------------------------------------------------------
(* Both scripts: the order in which a desk is served, once it is reached.  *)

Goes(w, at) == sweeps' = [sweeps EXCEPT ![w].at = at]

\* The orders the command line gives: --url, --no-restart, --dry-run.
Updates == [does : {"update"}, url : Urls, restart : BOOLEAN, dry : BOOLEAN]

\* The audit knows one URL.
Heals == [does : {"heal"}, url : {Target}, restart : {TRUE}, dry : {FALSE}]

\* The second is taken before the share is connected; a desk that is off or has no file is left.
Connects(w, order) ==
  /\ sweeps[w] = Awaited
  /\ sweeps' = [sweeps EXCEPT ![w] = [@ EXCEPT !.at = "reads", !.stamp = second, !.order = order]]
  /\ shared' = (shared \/ \E v \in Sweeps : sweeps[v].stamp = second)
  /\ UNCHANGED <<ini, copies, farcards, second, cuts, unread>>

\* Only the lines with URLs are replaced; an empty file has none.
ReplaceUrls(file, url) == IF file = Gone THEN Gone ELSE url

\* needs_ini_fix; the update writes whatever it reads.
NeedsIniFix(w, file) == sweeps[w].order.does = "update" \/ file # Target

ReadsIni(w) ==
  /\ sweeps[w].at = "reads"
  /\ sweeps' = [sweeps EXCEPT
       ![w].at = IF sweeps[w].order.dry THEN "ends"
                 ELSE IF NeedsIniFix(w, ini) THEN "copies" ELSE "log",
       ![w].fix = NeedsIniFix(w, ini),
       ![w].text = ReplaceUrls(ini, sweeps[w].order.url)]
  /\ UNCHANGED <<ini, copies, farcards, second, cuts, shared, unread>>

\* mutant: the file is opened for writing first, and copied then.
OpensFirst(w) ==
  /\ sweeps[w].at = "copies"
  /\ ini' = Gone
  /\ copies' = [copies EXCEPT ![sweeps[w].stamp] = Gone]
  /\ Goes(w, "writes")
  /\ UNCHANGED <<farcards, second, cuts, shared, unread>>

\* shutil.copy2: the file as it is now, over a copy of the same name.
BacksUp(w) ==
  /\ sweeps[w].at = "copies"
  /\ copies' = [copies EXCEPT ![sweeps[w].stamp] = ini]
  /\ Goes(w, "opens")
  /\ UNCHANGED <<ini, farcards, second, cuts, shared, unread>>

OpensIni(w) ==
  /\ sweeps[w].at = "opens"
  /\ ini' = Gone
  /\ Goes(w, "writes")
  /\ UNCHANGED <<copies, farcards, second, cuts, shared, unread>>

WritesIni(w) ==
  /\ sweeps[w].at = "writes"
  /\ ini' = sweeps[w].text
  /\ unread' = (unread \/ ~sweeps[w].order.restart)
  /\ Goes(w, CASE sweeps[w].order.does = "heal" -> "log"
               [] sweeps[w].order.restart -> "restarts"
               [] OTHER -> "ends")
  /\ UNCHANGED <<copies, farcards, second, cuts, shared>>

-----------------------------------------------------------------------------
(* The restart: one PowerShell, which lists, terminates and starts.        *)

\* mutant: the audit restarts for an error in the log, and not for a file it has written.
RestartsForLog(w, error) == error

MustRestart(w, error) == sweeps[w].fix \/ error

ReadsLog(w, error) ==
  /\ sweeps[w].at = "log"
  /\ Goes(w, IF MustRestart(w, error) THEN "restarts" ELSE "looks")
  /\ UNCHANGED <<ini, copies, farcards, second, cuts, shared, unread>>

\* get_remote_farcards_status_and_restart, where a process that runs is left alone.
LooksForProcess(w) ==
  /\ sweeps[w].at = "looks"
  /\ Goes(w, IF farcards = {} THEN "starts" ELSE "ends")
  /\ UNCHANGED <<ini, copies, farcards, second, cuts, shared, unread>>

Terminates(w) ==
  /\ sweeps[w].at = "restarts"
  /\ farcards' = {}
  /\ unread' = FALSE
  /\ Goes(w, "starts")
  /\ UNCHANGED <<ini, copies, second, cuts, shared>>

\* By the shortcut or directly; or neither succeeds, and the update says SUCCESS all the same.
StartsFarcards(w) ==
  /\ sweeps[w].at = "starts"
  /\ farcards' \in {farcards, farcards \cup {ini}}
  /\ Goes(w, "ends")
  /\ UNCHANGED <<ini, copies, second, cuts, shared, unread>>

\* An error, a PowerShell that fails or the end of the script: what was written is not yet read.
IsCut(w) ==
  /\ sweeps[w].at \notin {"waits", "ends"}
  /\ cuts < MaxCuts
  /\ cuts' = cuts + 1
  /\ unread' = (unread \/ sweeps[w].at \notin {"reads", "copies", "opens"})
  /\ Goes(w, "ends")
  /\ UNCHANGED <<ini, copies, farcards, second, shared>>

\* process_host, under one order of main.
ProcessHost(w) ==
  \/ \E order \in Updates : Connects(w, order)
  \/ ReadsIni(w)
  \/ BacksUp(w)
  \/ OpensIni(w)
  \/ WritesIni(w)
  \/ Terminates(w)
  \/ StartsFarcards(w)

\* check_and_heal_host; it shares the steps above.
CheckAndHealHost(w) ==
  \/ \E order \in Heals : Connects(w, order)
  \/ \E error \in BOOLEAN : ReadsLog(w, error)
  \/ LooksForProcess(w)

FarcardsNext ==
  \/ SecondPasses
  \/ \E w \in Sweeps : ProcessHost(w) \/ CheckAndHealHost(w) \/ IsCut(w)

FarcardsSpec == FarcardsInit /\ [][FarcardsNext]_farcardsVars

-----------------------------------------------------------------------------

Places == {"waits", "reads", "copies", "opens", "writes",
           "log", "looks", "restarts", "starts", "ends"}
Files == Urls \cup {Gone}
Passes == [at : Places, stamp : Seconds \cup {0}, order : Updates \cup Heals \cup {NoOrder},
           fix : BOOLEAN, text : Files]

\* Every backup is a file, every stamp a second that has been.
FarcardsTypeOK ==
  /\ ini \in Files
  /\ copies \in [Seconds -> Files \cup {NoCopy}]
  /\ farcards \subseteq Files
  /\ sweeps \in [Sweeps -> Passes]
  /\ second \in Seconds /\ cuts \in 0..MaxCuts
  /\ shared \in BOOLEAN /\ unread \in BOOLEAN

\* A desk never is left with an empty FARCARDS.INI and no copy of a whole one, wherever threads are
\* cut off and whatever they read of each other's: as long as no two have the same second, by
\* which a copy of the empty file may overwrite the copy of the whole one.
NothingLost == ~shared /\ ini = Gone => \E t \in Seconds : copies[t] \in Urls

\* Once no thread is at the desk, each Farcards.exe runs with the URLs the file names: also
\* where one thread's restart fell between another's writing and its restart; unless one wrote
\* and ended without a restart.
FarcardsCurrent ==
  (\A w \in Sweeps : sweeps[w].at \in {"waits", "ends"}) /\ ~unread => farcards \subseteq {ini}

\* What sweeps of one desk may rely on: the two together.
FarcardsHold == NothingLost /\ FarcardsCurrent
=============================================================================
