----------------------- MODULE CashierProgramsProofs ------------------------
(***************************************************************************)
(* The programs at one desk.  However many sweeps interleave, wherever     *)
(* they are cut off, a whole FARCARDS.INI or a copy of one remains, and    *)
(* Farcards.exe does not go on with URLs the file no longer names; and the *)
(* scripts that look after GuestScreen leave the scene last published in   *)
(* gs.db and the Watcher at the desk: for any threads, URLs, clock and     *)
(* cuts, any number of publications and of commands that are not carried   *)
(* out.                                                                    *)
(***************************************************************************)
EXTENDS FarcardsConfig, CashierUpkeep, TLAPS

-----------------------------------------------------------------------------
(* FARCARDS.INI at one desk: FarcardsConfig.                               *)

\* The threads that can make FARCARDS.INI an empty file, or have.
Empties(w) == sweeps[w].at \in {"opens", "writes"}

\* A thread's stamp is a second once it has come; no copy but a thread's with its second.
StampsInv ==
  /\ \A w \in Sweeps : sweeps[w].at # "waits" => sweeps[w].stamp \in Seconds
  /\ \A t \in Seconds : copies[t] # NoCopy => \E w \in Sweeps : sweeps[w].stamp = t

\* As long as seconds are not shared, a thread's copy is its own, and there is a whole copy
\* before the file is opened for writing.
CopiesInv ==
  ~shared =>
    /\ \A v, w \in Sweeps : v # w /\ sweeps[v].stamp = sweeps[w].stamp => sweeps[v].stamp = 0
    /\ \A w \in Sweeps :
         sweeps[w].at \in {"reads", "copies"} => copies[sweeps[w].stamp] = NoCopy
    /\ (ini = Gone \/ \E w \in Sweeps : Empties(w)) => \E t \in Seconds : copies[t] \in Urls

\* A thread that still restarts Farcards.exe, or is noted when it does not.
OwesRestart(w) ==
  \/ sweeps[w].at \in {"writes", "restarts"}
  \/ sweeps[w].at = "log" /\ sweeps[w].fix

\* Until somebody owes a restart, what runs has read what the file says.
CurrentInv ==
  /\ \A w \in Sweeps : sweeps[w].at \in {"copies", "opens", "writes"} => sweeps[w].fix
  /\ ~unread /\ (\A w \in Sweeps : ~OwesRestart(w)) => farcards \subseteq {ini}

SweepsInv == FarcardsTypeOK /\ StampsInv /\ CopiesInv /\ CurrentInv

-----------------------------------------------------------------------------

\* No desk is served before a thread has come, and no file is a copy yet.
LEMMA SweepsStart == FarcardsInit => SweepsInv
  <1> SUFFICES ASSUME FarcardsInit PROVE SweepsInv
    OBVIOUS
  <1> USE FarcardsAssumption DEF FarcardsInit, Awaited
  <1>a. Awaited \in Passes
    BY DEF Passes, Places, Files
  <1>b. sweeps \in [Sweeps -> Passes]
    BY <1>a
  <1>c. second \in Seconds /\ cuts \in 0..MaxCuts
    BY DEF Seconds
  <1>d. farcards \subseteq Files /\ copies \in [Seconds -> Files \cup {NoCopy}]
    BY DEF Files
  <1>1. FarcardsTypeOK
    BY <1>b, <1>c, <1>d DEF FarcardsTypeOK, Files
  <1>2. StampsInv /\ CopiesInv /\ CurrentInv
    BY DEF StampsInv, CopiesInv, CurrentInv, Empties, OwesRestart, Seconds
  <1> QED
    BY <1>1, <1>2 DEF SweepsInv

\* What one thread may become, all others staying as they are.
LEMMA OneSweep ==
  ASSUME FarcardsTypeOK, NEW w \in Sweeps, NEW e \in Passes, sweeps' = [sweeps EXCEPT ![w] = e]
  PROVE  sweeps' \in [Sweeps -> Passes]
  BY DEF FarcardsTypeOK

\* A thread that goes to one of the places stays a thread, and the others where they are.
LEMMA OneGoes ==
  ASSUME FarcardsTypeOK, NEW w \in Sweeps, NEW at \in Places, Goes(w, at)
  PROVE  /\ sweeps' \in [Sweeps -> Passes]
         /\ sweeps'[w] = [sweeps[w] EXCEPT !.at = at]
         /\ \A v \in Sweeps \ {w} : sweeps'[v] = sweeps[v]
  <1>1. sweeps[w] \in Passes
    BY DEF FarcardsTypeOK
  <1>2. [sweeps[w] EXCEPT !.at = at] \in Passes
    BY <1>1 DEF Passes
  <1>3. sweeps' = [sweeps EXCEPT ![w] = [sweeps[w] EXCEPT !.at = at]]
    BY DEF Goes
  <1> QED
    BY <1>2, <1>3, OneSweep DEF FarcardsTypeOK

\* A thread that comes: its order and its second are recorded.
LEMMA OneConnects ==
  ASSUME FarcardsTypeOK, NEW w \in Sweeps, NEW order \in Updates \cup Heals, Connects(w, order)
  PROVE  /\ sweeps' \in [Sweeps -> Passes]
         /\ sweeps'[w].at = "reads" /\ sweeps'[w].stamp = second
         /\ sweeps[w].at = "waits" /\ sweeps[w].stamp = 0
         /\ \A v \in Sweeps \ {w} : sweeps'[v] = sweeps[v]
  <1> DEFINE e == [sweeps[w] EXCEPT !.at = "reads", !.stamp = second, !.order = order]
  <1>1. sweeps[w] \in Passes /\ second \in Seconds
    BY DEF FarcardsTypeOK
  <1>2. e \in Passes
    BY <1>1 DEF Passes, Places
  <1>3. sweeps' = [sweeps EXCEPT ![w] = e]
    BY DEF Connects
  <1>4. sweeps'[w] = e
    BY <1>3 DEF FarcardsTypeOK
  <1>5. e.at = "reads" /\ e.stamp = second
    BY <1>1 DEF Passes
  <1>6. sweeps[w].at = "waits" /\ sweeps[w].stamp = 0
    BY DEF Connects, Awaited
  <1> QED
    BY <1>2, <1>3, <1>4, <1>5, <1>6, OneSweep DEF FarcardsTypeOK

\* A thread that reads the file: what it found and what it will write.
LEMMA OneReads ==
  ASSUME FarcardsTypeOK, NEW w \in Sweeps, ReadsIni(w)
  PROVE  /\ sweeps' \in [Sweeps -> Passes]
         /\ sweeps'[w].at \in {"ends", "copies", "log"}
         /\ sweeps'[w].at = "copies" => sweeps'[w].fix
         /\ sweeps'[w].at = "log" => ~sweeps'[w].fix
         /\ sweeps'[w].stamp = sweeps[w].stamp
         /\ \A v \in Sweeps \ {w} : sweeps'[v] = sweeps[v]
  <1> DEFINE at == IF sweeps[w].order.dry THEN "ends"
                   ELSE IF NeedsIniFix(w, ini) THEN "copies" ELSE "log"
             e == [sweeps[w] EXCEPT !.at = at, !.fix = NeedsIniFix(w, ini),
                                    !.text = ReplaceUrls(ini, sweeps[w].order.url)]
  <1>1. sweeps[w] \in Passes
    BY DEF FarcardsTypeOK
  <1>2. sweeps[w].order.url \in Urls
    <2>1. sweeps[w].order \in Updates \cup Heals \cup {NoOrder}
      BY <1>1 DEF Passes
    <2>2. NoOrder.url \in Urls
      BY FarcardsAssumption DEF NoOrder
    <2>3. \A o \in Updates \cup Heals : o.url \in Urls
      BY FarcardsAssumption DEF Updates, Heals
    <2> QED
      BY <2>1, <2>2, <2>3
  <1>3. at \in {"ends", "copies", "log"} /\ NeedsIniFix(w, ini) \in BOOLEAN
    BY DEF NeedsIniFix
  <1>4. ReplaceUrls(ini, sweeps[w].order.url) \in Files
    BY <1>2 DEF ReplaceUrls, Files
  <1>5. at = "copies" => NeedsIniFix(w, ini)
    OBVIOUS
  <1>6. at = "log" => ~NeedsIniFix(w, ini)
    OBVIOUS
  <1> HIDE DEF at
  <1>7. e \in Passes
    BY <1>1, <1>3, <1>4 DEF Passes, Places
  <1>8. sweeps' = [sweeps EXCEPT ![w] = e]
    BY DEF ReadsIni, at
  <1>9. sweeps'[w] = e /\ \A v \in Sweeps \ {w} : sweeps'[v] = sweeps[v]
    BY <1>8 DEF FarcardsTypeOK
  <1>10. e.at = at /\ e.fix = NeedsIniFix(w, ini) /\ e.stamp = sweeps[w].stamp
    BY <1>1 DEF Passes
  <1> QED
    BY <1>3, <1>5, <1>6, <1>7, <1>8, <1>9, <1>10, OneSweep

\* Every step keeps the types: the orders are those of the command line, the texts are files.
LEMMA TypesKept == FarcardsTypeOK /\ [FarcardsNext]_farcardsVars => FarcardsTypeOK'
  <1> SUFFICES ASSUME FarcardsTypeOK, [FarcardsNext]_farcardsVars PROVE FarcardsTypeOK'
    OBVIOUS
  <1>a. /\ ini \in Files /\ copies \in [Seconds -> Files \cup {NoCopy}] /\ farcards \subseteq Files
        /\ second \in Seconds /\ cuts \in 0..MaxCuts /\ shared \in BOOLEAN /\ unread \in BOOLEAN
        /\ \A w \in Sweeps : sweeps[w] \in Passes
    BY DEF FarcardsTypeOK
  <1>1. CASE SecondPasses
    BY <1>1, FarcardsAssumption DEF SecondPasses, Seconds, FarcardsTypeOK, Passes
  <1>2. ASSUME NEW w \in Sweeps, NEW order \in Updates \cup Heals, Connects(w, order)
        PROVE  FarcardsTypeOK'
    <2>1. shared' \in BOOLEAN
      BY <1>2, <1>a DEF Connects
    <2> QED
      BY <1>2, <1>a, <2>1, OneConnects DEF Connects, FarcardsTypeOK, Seconds, Files
  <1>3. ASSUME NEW w \in Sweeps, ReadsIni(w) PROVE FarcardsTypeOK'
    BY <1>3, <1>a, OneReads DEF ReadsIni, FarcardsTypeOK
  <1>4. ASSUME NEW w \in Sweeps, BacksUp(w) PROVE FarcardsTypeOK'
    BY <1>4, <1>a, OneGoes DEF BacksUp, FarcardsTypeOK, Places
  <1>5. ASSUME NEW w \in Sweeps, OpensIni(w) PROVE FarcardsTypeOK'
    BY <1>5, <1>a, OneGoes DEF OpensIni, FarcardsTypeOK, Places, Files
  <1>6. ASSUME NEW w \in Sweeps, WritesIni(w) PROVE FarcardsTypeOK'
    <2>1. PICK at \in {"log", "restarts", "ends"} : Goes(w, at)
      BY <1>6 DEF WritesIni
    <2>2. unread' \in BOOLEAN /\ ini' \in Files
      BY <1>6, <1>a DEF WritesIni, Passes
    <2> QED
      BY <1>6, <1>a, <2>1, <2>2, OneGoes DEF WritesIni, FarcardsTypeOK, Places
  <1>7. ASSUME NEW w \in Sweeps, Terminates(w) \/ StartsFarcards(w) PROVE FarcardsTypeOK'
    BY <1>7, <1>a, OneGoes DEF Terminates, StartsFarcards, FarcardsTypeOK, Places
  <1>8. ASSUME NEW w \in Sweeps, NEW error \in BOOLEAN, ReadsLog(w, error) \/ LooksForProcess(w)
        PROVE  FarcardsTypeOK'
    <2>1. PICK at \in {"restarts", "looks", "starts", "ends"} : Goes(w, at)
      BY <1>8 DEF ReadsLog, LooksForProcess
    <2> QED
      BY <1>8, <1>a, <2>1, OneGoes DEF ReadsLog, LooksForProcess, FarcardsTypeOK, Places
  <1>9. ASSUME NEW w \in Sweeps, IsCut(w) PROVE FarcardsTypeOK'
    <2>1. unread' \in BOOLEAN /\ cuts' \in 0..MaxCuts
      BY <1>9, <1>a, FarcardsAssumption DEF IsCut
    <2> QED
      BY <1>9, <1>a, <2>1, OneGoes DEF IsCut, FarcardsTypeOK, Places
  <1>10. CASE UNCHANGED farcardsVars
    BY <1>10 DEF farcardsVars, FarcardsTypeOK
  <1> QED
    BY <1>1, <1>2, <1>3, <1>4, <1>5, <1>6, <1>7, <1>8, <1>9, <1>10
    DEF FarcardsNext, ProcessHost, CheckAndHealHost

-----------------------------------------------------------------------------

\* Stamps and copies: a thread's copy is under its own second.
LEMMA StampsKept ==
  SweepsInv /\ FarcardsTypeOK' /\ [FarcardsNext]_farcardsVars => StampsInv'
  <1> SUFFICES ASSUME SweepsInv, FarcardsTypeOK', [FarcardsNext]_farcardsVars PROVE StampsInv'
    OBVIOUS
  <1>a. FarcardsTypeOK /\ StampsInv
    BY DEF SweepsInv
  <1>b. ASSUME NEW w \in Sweeps, NEW at \in Places, Goes(w, at), at # "waits",
               sweeps[w].at # "waits", UNCHANGED copies
        PROVE  StampsInv'
    <2>1. sweeps'[w] = [sweeps[w] EXCEPT !.at = at] /\ sweeps[w] \in Passes
      BY <1>a, <1>b, OneGoes DEF FarcardsTypeOK
    <2>2. sweeps'[w].stamp = sweeps[w].stamp
      BY <2>1 DEF Passes
    <2>3. \A v \in Sweeps : sweeps'[v].stamp = sweeps[v].stamp
                            /\ (sweeps'[v].at # "waits" => sweeps[v].at # "waits")
      BY <1>a, <1>b, <2>2, OneGoes
    <2> QED
      BY <1>a, <1>b, <2>3 DEF StampsInv
  <1>1. CASE SecondPasses
    BY <1>1, <1>a DEF SecondPasses, StampsInv
  <1>2. ASSUME NEW w \in Sweeps, NEW order \in Updates \cup Heals, Connects(w, order)
        PROVE  StampsInv'
    <2>1. /\ sweeps'[w].stamp = second /\ second \in Seconds
          /\ \A v \in Sweeps \ {w} : sweeps'[v] = sweeps[v]
      BY <1>2, <1>a, OneConnects DEF FarcardsTypeOK
    <2>2. sweeps[w].stamp \notin Seconds
      BY <1>2 DEF Connects, Awaited, Seconds
    <2>3. UNCHANGED copies
      BY <1>2 DEF Connects
    <2> QED
      BY <1>a, <2>1, <2>2, <2>3 DEF StampsInv
  <1>3. ASSUME NEW w \in Sweeps, ReadsIni(w) PROVE StampsInv'
    <2>1. /\ sweeps'[w].stamp = sweeps[w].stamp /\ sweeps[w].at # "waits"
          /\ \A v \in Sweeps \ {w} : sweeps'[v] = sweeps[v]
      BY <1>3, <1>a, OneReads DEF ReadsIni
    <2> QED
      BY <1>3, <1>a, <2>1 DEF ReadsIni, StampsInv
  <1>4. ASSUME NEW w \in Sweeps, BacksUp(w) PROVE StampsInv'
    <2>1. sweeps'[w] = [sweeps[w] EXCEPT !.at = "opens"] /\ sweeps[w] \in Passes
          /\ \A v \in Sweeps \ {w} : sweeps'[v] = sweeps[v]
      BY <1>4, <1>a, OneGoes DEF BacksUp, Places, FarcardsTypeOK
    <2>2. sweeps'[w].stamp = sweeps[w].stamp
      BY <2>1 DEF Passes
    <2>3. /\ \A v \in Sweeps : sweeps'[v].stamp = sweeps[v].stamp
          /\ \A v \in Sweeps \ {w} : sweeps'[v].at = sweeps[v].at
          /\ sweeps[w].at # "waits"
      BY <1>4, <2>1, <2>2 DEF BacksUp
    <2>4. \A t \in Seconds \ {sweeps[w].stamp} : copies'[t] = copies[t]
      BY <1>4, <1>a DEF BacksUp, FarcardsTypeOK
    <2> QED
      BY <1>a, <2>3, <2>4 DEF StampsInv
  <1>5. ASSUME NEW w \in Sweeps, OpensIni(w) PROVE StampsInv'
    BY <1>5, <1>b DEF OpensIni, Places
  <1>6. ASSUME NEW w \in Sweeps, WritesIni(w) PROVE StampsInv'
    <2>1. PICK at \in {"log", "restarts", "ends"} : Goes(w, at)
      BY <1>6 DEF WritesIni
    <2> QED
      BY <1>6, <2>1, <1>b DEF WritesIni, Places
  <1>7. ASSUME NEW w \in Sweeps, Terminates(w) \/ StartsFarcards(w) PROVE StampsInv'
    BY <1>7, <1>b DEF Terminates, StartsFarcards, Places
  <1>8. ASSUME NEW w \in Sweeps, NEW error \in BOOLEAN, ReadsLog(w, error) \/ LooksForProcess(w)
        PROVE  StampsInv'
    <2>1. PICK at \in {"restarts", "looks", "starts", "ends"} : Goes(w, at)
      BY <1>8 DEF ReadsLog, LooksForProcess
    <2> QED
      BY <1>8, <2>1, <1>b DEF ReadsLog, LooksForProcess, Places
  <1>9. ASSUME NEW w \in Sweeps, IsCut(w) PROVE StampsInv'
    BY <1>9, <1>b DEF IsCut, Places
  <1>10. CASE UNCHANGED farcardsVars
    BY <1>10, <1>a DEF farcardsVars, StampsInv
  <1> QED
    BY <1>1, <1>2, <1>3, <1>4, <1>5, <1>6, <1>7, <1>8, <1>9, <1>10
    DEF FarcardsNext, ProcessHost, CheckAndHealHost

\* A step after which the file is whole, or was opened by a thread that had copied it.
LEMMA CopiesStay ==
  ASSUME FarcardsTypeOK, CopiesInv, NEW w \in Sweeps, NEW at \in Places, Goes(w, at),
         at \notin {"reads", "copies"}, at \in {"opens", "writes"} => Empties(w),
         UNCHANGED <<copies, shared>>, ini' = Gone => ini = Gone \/ Empties(w)
  PROVE  CopiesInv'
  <1>1. sweeps'[w] = [sweeps[w] EXCEPT !.at = at] /\ sweeps[w] \in Passes
        /\ \A v \in Sweeps \ {w} : sweeps'[v] = sweeps[v]
    BY OneGoes DEF FarcardsTypeOK
  <1>2. sweeps'[w].stamp = sweeps[w].stamp /\ sweeps'[w].at = at
    BY <1>1 DEF Passes
  <1>3. \A v \in Sweeps : sweeps'[v].stamp = sweeps[v].stamp
    BY <1>1, <1>2
  <1>4. \A v \in Sweeps :
          sweeps'[v].at \in {"reads", "copies"} => sweeps[v].at \in {"reads", "copies"}
    BY <1>1, <1>2
  <1>5. ini' = Gone \/ (\E v \in Sweeps : Empties(v)')
          => ini = Gone \/ (\E v \in Sweeps : Empties(v))
    BY <1>1, <1>2 DEF Empties
  <1> QED
    BY <1>3, <1>4, <1>5 DEF CopiesInv

\* While seconds are not shared, every step leaves a whole copy behind an empty file.
LEMMA CopiesKept ==
  SweepsInv /\ FarcardsTypeOK' /\ [FarcardsNext]_farcardsVars => CopiesInv'
  <1> SUFFICES ASSUME SweepsInv, FarcardsTypeOK', [FarcardsNext]_farcardsVars PROVE CopiesInv'
    OBVIOUS
  <1>a. FarcardsTypeOK /\ StampsInv /\ CopiesInv
    BY DEF SweepsInv
  <1>1. CASE SecondPasses
    BY <1>1, <1>a DEF SecondPasses, CopiesInv, Empties
  <1>2. ASSUME NEW w \in Sweeps, NEW order \in Updates \cup Heals, Connects(w, order)
        PROVE  CopiesInv'
    <2> SUFFICES ASSUME ~shared' PROVE CopiesInv'
      BY DEF CopiesInv
    <2>1. ~shared /\ \A v \in Sweeps : sweeps[v].stamp # second
      BY <1>2 DEF Connects
    <2>2. /\ sweeps'[w].stamp = second /\ sweeps'[w].at = "reads" /\ second \in Seconds
          /\ \A v \in Sweeps \ {w} : sweeps'[v] = sweeps[v]
      BY <1>2, <1>a, OneConnects DEF FarcardsTypeOK
    <2>3. copies[second] = NoCopy
      BY <2>1, <2>2, <1>a DEF StampsInv
    <2>4. UNCHANGED <<copies, ini>>
      BY <1>2 DEF Connects
    <2>5. \A u, v \in Sweeps :
            u # v /\ sweeps'[u].stamp = sweeps'[v].stamp => sweeps'[u].stamp = 0
      BY <2>1, <2>2, <1>a DEF CopiesInv
    <2>6. \A v \in Sweeps :
            sweeps'[v].at \in {"reads", "copies"} => copies'[sweeps'[v].stamp] = NoCopy
      BY <2>1, <2>2, <2>3, <2>4, <1>a DEF CopiesInv
    <2>7. (ini' = Gone \/ \E v \in Sweeps : Empties(v)') => \E t \in Seconds : copies'[t] \in Urls
      BY <2>1, <2>2, <2>4, <1>a DEF CopiesInv, Empties
    <2> QED
      BY <2>5, <2>6, <2>7 DEF CopiesInv
  <1>3. ASSUME NEW w \in Sweeps, ReadsIni(w) PROVE CopiesInv'
    <2>1. /\ sweeps'[w].stamp = sweeps[w].stamp /\ sweeps'[w].at \in {"ends", "copies", "log"}
          /\ sweeps[w].at = "reads" /\ UNCHANGED <<copies, ini, shared>>
          /\ \A v \in Sweeps \ {w} : sweeps'[v] = sweeps[v]
      BY <1>3, <1>a, OneReads DEF ReadsIni
    <2>2. \A v \in Sweeps : /\ sweeps'[v].stamp = sweeps[v].stamp
                            /\ sweeps'[v].at \in {"reads", "copies"}
                                 => sweeps[v].at \in {"reads", "copies"}
                            /\ Empties(v)' => Empties(v)
      BY <2>1 DEF Empties
    <2> QED
      BY <2>1, <2>2, <1>a DEF CopiesInv
  <1>4. ASSUME NEW w \in Sweeps, BacksUp(w) PROVE CopiesInv'
    <2> DEFINE t0 == sweeps[w].stamp
    <2> SUFFICES ASSUME ~shared' PROVE CopiesInv'
      BY DEF CopiesInv
    <2>1. sweeps'[w] = [sweeps[w] EXCEPT !.at = "opens"] /\ sweeps[w] \in Passes
          /\ \A v \in Sweeps \ {w} : sweeps'[v] = sweeps[v]
      BY <1>4, <1>a, OneGoes DEF BacksUp, Places, FarcardsTypeOK
    <2>2. sweeps'[w].stamp = t0 /\ sweeps'[w].at = "opens"
      BY <2>1 DEF Passes
    <2>3. ~shared /\ ini' = ini /\ sweeps[w].at = "copies" /\ t0 \in Seconds
      BY <1>4, <1>a DEF BacksUp, StampsInv
    <2>4. copies[t0] = NoCopy
      BY <2>3, <1>a DEF CopiesInv
    <2>5. copies'[t0] = ini /\ \A t \in Seconds \ {t0} : copies'[t] = copies[t]
      BY <1>4, <1>a, <2>3 DEF BacksUp, FarcardsTypeOK
    <2>6. \A v \in Sweeps : sweeps'[v].stamp = sweeps[v].stamp
      BY <2>1, <2>2
    <2>7. \A u, v \in Sweeps :
            u # v /\ sweeps'[u].stamp = sweeps'[v].stamp => sweeps'[u].stamp = 0
      BY <2>3, <2>6, <1>a DEF CopiesInv
    <2>8. ASSUME NEW v \in Sweeps, sweeps'[v].at \in {"reads", "copies"}
          PROVE  copies'[sweeps'[v].stamp] = NoCopy
      <3>1. v # w /\ sweeps'[v] = sweeps[v]
        BY <2>1, <2>2, <2>8
      <3>2. sweeps[v].stamp # t0
        BY <3>1, <2>3, <1>a DEF CopiesInv, Seconds
      <3>3. sweeps[v].stamp \in Seconds
        BY <3>1, <2>8, <1>a DEF StampsInv
      <3> QED
        BY <3>1, <3>2, <3>3, <2>3, <2>5, <2>8, <1>a DEF CopiesInv
    <2>9. \E t \in Seconds : copies'[t] \in Urls
      <3>1. CASE ini = Gone
        <4>1. PICK t \in Seconds : copies[t] \in Urls
          BY <3>1, <2>3, <1>a DEF CopiesInv
        <4>2. t # t0
          BY <4>1, <2>4, FarcardsAssumption
        <4> QED
          BY <4>1, <4>2, <2>5
      <3>2. CASE ini # Gone
        BY <3>2, <2>3, <2>5, <1>a DEF FarcardsTypeOK, Files
      <3> QED
        BY <3>1, <3>2
    <2> QED
      BY <2>7, <2>8, <2>9 DEF CopiesInv
  <1>5. ASSUME NEW w \in Sweeps, OpensIni(w) PROVE CopiesInv'
    BY <1>5, <1>a, CopiesStay DEF OpensIni, Places, Empties
  <1>6. ASSUME NEW w \in Sweeps, WritesIni(w) PROVE CopiesInv'
    <2>1. PICK at \in {"log", "restarts", "ends"} : Goes(w, at)
      BY <1>6 DEF WritesIni
    <2> QED
      BY <1>6, <1>a, <2>1, CopiesStay DEF WritesIni, Places, Empties
  <1>7. ASSUME NEW w \in Sweeps, Terminates(w) \/ StartsFarcards(w) PROVE CopiesInv'
    BY <1>7, <1>a, CopiesStay DEF Terminates, StartsFarcards, Places
  <1>8. ASSUME NEW w \in Sweeps, NEW error \in BOOLEAN, ReadsLog(w, error) \/ LooksForProcess(w)
        PROVE  CopiesInv'
    <2>1. PICK at \in {"restarts", "looks", "starts", "ends"} : Goes(w, at)
      BY <1>8 DEF ReadsLog, LooksForProcess
    <2> QED
      BY <1>8, <1>a, <2>1, CopiesStay DEF ReadsLog, LooksForProcess, Places
  <1>9. ASSUME NEW w \in Sweeps, IsCut(w) PROVE CopiesInv'
    BY <1>9, <1>a, CopiesStay DEF IsCut, Places
  <1>10. CASE UNCHANGED farcardsVars
    BY <1>10, <1>a DEF farcardsVars, CopiesInv, Empties
  <1> QED
    BY <1>1, <1>2, <1>3, <1>4, <1>5, <1>6, <1>7, <1>8, <1>9, <1>10
    DEF FarcardsNext, ProcessHost, CheckAndHealHost

-----------------------------------------------------------------------------

\* Where a thread ends up, and what it knows, after it goes on.
LEMMA GoesOn ==
  ASSUME FarcardsTypeOK, NEW w \in Sweeps, NEW at \in Places, Goes(w, at)
  PROVE  /\ sweeps'[w].at = at /\ sweeps'[w].fix = sweeps[w].fix
         /\ \A v \in Sweeps \ {w} : sweeps'[v] = sweeps[v]
  <1>1. sweeps'[w] = [sweeps[w] EXCEPT !.at = at] /\ sweeps[w] \in Passes
    BY OneGoes DEF FarcardsTypeOK
  <1> QED
    BY <1>1, OneGoes DEF Passes

\* Who owed a restart still owes it, has made it, or is noted; who writes, owes one.
LEMMA CurrentKept ==
  SweepsInv /\ FarcardsTypeOK' /\ [FarcardsNext]_farcardsVars => CurrentInv'
  <1> SUFFICES ASSUME SweepsInv, FarcardsTypeOK', [FarcardsNext]_farcardsVars PROVE CurrentInv'
    OBVIOUS
  <1>a. FarcardsTypeOK /\ CurrentInv
    BY DEF SweepsInv
  <1>1. CASE SecondPasses
    BY <1>1, <1>a DEF SecondPasses, CurrentInv, OwesRestart
  <1>2. ASSUME NEW w \in Sweeps, NEW order \in Updates \cup Heals, Connects(w, order)
        PROVE  CurrentInv'
    <2>1. /\ sweeps'[w].at = "reads" /\ sweeps[w].at = "waits"
          /\ UNCHANGED <<ini, farcards, unread>>
          /\ \A v \in Sweeps \ {w} : sweeps'[v] = sweeps[v]
      BY <1>2, <1>a, OneConnects DEF Connects
    <2> QED
      BY <2>1, <1>a DEF CurrentInv, OwesRestart
  <1>3. ASSUME NEW w \in Sweeps, ReadsIni(w) PROVE CurrentInv'
    <2>1. /\ sweeps'[w].at \in {"ends", "copies", "log"} /\ sweeps[w].at = "reads"
          /\ sweeps'[w].at = "copies" => sweeps'[w].fix
          /\ sweeps'[w].at = "log" => ~sweeps'[w].fix
          /\ UNCHANGED <<ini, farcards, unread>>
          /\ \A v \in Sweeps \ {w} : sweeps'[v] = sweeps[v]
      BY <1>3, <1>a, OneReads DEF ReadsIni
    <2> QED
      BY <2>1, <1>a DEF CurrentInv, OwesRestart
  <1>4. ASSUME NEW w \in Sweeps, BacksUp(w) PROVE CurrentInv'
    <2>1. /\ sweeps'[w].at = "opens" /\ sweeps'[w].fix = sweeps[w].fix /\ sweeps[w].at = "copies"
          /\ UNCHANGED <<ini, farcards, unread>>
          /\ \A v \in Sweeps \ {w} : sweeps'[v] = sweeps[v]
      BY <1>4, <1>a, GoesOn DEF BacksUp, Places
    <2> QED
      BY <2>1, <1>a DEF CurrentInv, OwesRestart
  <1>5. ASSUME NEW w \in Sweeps, OpensIni(w) PROVE CurrentInv'
    <2>1. /\ sweeps'[w].at = "writes" /\ sweeps'[w].fix = sweeps[w].fix /\ sweeps[w].at = "opens"
          /\ \A v \in Sweeps \ {w} : sweeps'[v] = sweeps[v]
      BY <1>5, <1>a, GoesOn DEF OpensIni, Places
    <2> QED
      BY <2>1, <1>a DEF CurrentInv, OwesRestart
  <1>6. ASSUME NEW w \in Sweeps, WritesIni(w) PROVE CurrentInv'
    <2>1. PICK at \in {"log", "restarts", "ends"} :
            Goes(w, at) /\ (at = "ends" => ~sweeps[w].order.restart)
      BY <1>6 DEF WritesIni
    <2>2. /\ sweeps'[w].at = at /\ sweeps'[w].fix = sweeps[w].fix /\ sweeps[w].fix
          /\ \A v \in Sweeps \ {w} : sweeps'[v] = sweeps[v]
      BY <1>6, <2>1, <1>a, GoesOn DEF WritesIni, Places, CurrentInv
    <2>3. ~unread' => at # "ends"
      BY <1>6, <2>1 DEF WritesIni
    <2> QED
      BY <2>1, <2>2, <2>3, <1>a DEF CurrentInv, OwesRestart
  <1>7. ASSUME NEW w \in Sweeps, Terminates(w) PROVE CurrentInv'
    <2>1. /\ sweeps'[w].at = "starts" /\ farcards' = {}
          /\ \A v \in Sweeps \ {w} : sweeps'[v] = sweeps[v]
      BY <1>7, <1>a, GoesOn DEF Terminates, Places
    <2> QED
      BY <2>1, <1>a DEF CurrentInv
  <1>8. ASSUME NEW w \in Sweeps, StartsFarcards(w) PROVE CurrentInv'
    <2>1. /\ sweeps'[w].at = "ends" /\ sweeps[w].at = "starts"
          /\ farcards' \subseteq farcards \cup {ini} /\ UNCHANGED <<ini, unread>>
          /\ \A v \in Sweeps \ {w} : sweeps'[v] = sweeps[v]
      BY <1>8, <1>a, GoesOn DEF StartsFarcards, Places
    <2> QED
      BY <2>1, <1>a DEF CurrentInv, OwesRestart
  <1>9. ASSUME NEW w \in Sweeps, NEW error \in BOOLEAN, ReadsLog(w, error) PROVE CurrentInv'
    <2>1. PICK at \in {"restarts", "looks"} : Goes(w, at) /\ (at = "looks" => ~sweeps[w].fix)
      BY <1>9 DEF ReadsLog, MustRestart
    <2>2. /\ sweeps'[w].at = at /\ sweeps[w].at = "log" /\ UNCHANGED <<ini, farcards, unread>>
          /\ \A v \in Sweeps \ {w} : sweeps'[v] = sweeps[v]
      BY <1>9, <2>1, <1>a, GoesOn DEF ReadsLog, Places
    <2> QED
      BY <2>1, <2>2, <1>a DEF CurrentInv, OwesRestart
  <1>10. ASSUME NEW w \in Sweeps, LooksForProcess(w) PROVE CurrentInv'
    <2>1. /\ sweeps'[w].at \in {"starts", "ends"} /\ sweeps[w].at = "looks"
          /\ UNCHANGED <<ini, farcards, unread>>
          /\ \A v \in Sweeps \ {w} : sweeps'[v] = sweeps[v]
      BY <1>10, <1>a, GoesOn DEF LooksForProcess, Places
    <2> QED
      BY <2>1, <1>a DEF CurrentInv, OwesRestart
  <1>11. ASSUME NEW w \in Sweeps, IsCut(w) PROVE CurrentInv'
    <2>1. /\ sweeps'[w].at = "ends" /\ UNCHANGED <<ini, farcards>>
          /\ unread' = (unread \/ sweeps[w].at \notin {"reads", "copies", "opens"})
          /\ \A v \in Sweeps \ {w} : sweeps'[v] = sweeps[v]
      BY <1>11, <1>a, GoesOn DEF IsCut, Places
    <2> QED
      BY <2>1, <1>a DEF CurrentInv, OwesRestart
  <1>12. CASE UNCHANGED farcardsVars
    BY <1>12, <1>a DEF farcardsVars, CurrentInv, OwesRestart
  <1> QED
    BY <1>1, <1>2, <1>3, <1>4, <1>5, <1>6, <1>7, <1>8, <1>9, <1>10, <1>11, <1>12
    DEF FarcardsNext, ProcessHost, CheckAndHealHost

-----------------------------------------------------------------------------

\* The invariant of the sweeps holds throughout.
LEMMA SweepsAlways == FarcardsSpec => []SweepsInv
  <1>1. SweepsInv /\ [FarcardsNext]_farcardsVars => SweepsInv'
    BY TypesKept, StampsKept, CopiesKept, CurrentKept DEF SweepsInv
  <1> QED
    BY <1>1, SweepsStart, PTL DEF FarcardsSpec

\* Whatever the threads that come to a desk, wherever they are cut off: with no shared second
\* there is a whole FARCARDS.INI or a copy of one, and, once no thread is there, each
\* Farcards.exe has read the file as it is, unless one wrote and ended without a restart.
THEOREM SweepsHold == FarcardsSpec => []FarcardsHold
  <1>1. SweepsInv => NothingLost
    BY DEF SweepsInv, CopiesInv, NothingLost
  <1>2. SweepsInv => FarcardsCurrent
    BY DEF SweepsInv, CurrentInv, OwesRestart, FarcardsCurrent
  <1> QED
    BY <1>1, <1>2, SweepsAlways, PTL DEF FarcardsHold

-----------------------------------------------------------------------------
(* The scripts that look after GuestScreen: CashierUpkeep.                 *)

\* A thread that goes on stays a thread of its script, and the others where they are.
LEMMA VisitGoes ==
  ASSUME UpkeepTypeOK, NEW v \in Visits, visits[v].at # "away", NEW at \in Spots, Proceeds(v, at)
  PROVE  /\ visits' \in [Visits -> {Away} \cup Stays]
         /\ visits[v] \in Stays /\ visits'[v] \in Stays
         /\ visits'[v].at = at /\ visits'[v].script = visits[v].script
         /\ visits'[v].needs = visits[v].needs /\ visits'[v].seen = visits[v].seen
         /\ \A u \in Visits \ {v} : visits'[u] = visits[u]
  <1> DEFINE e == [visits[v] EXCEPT !.at = at]
  <1>1. visits \in [Visits -> {Away} \cup Stays]
    BY DEF UpkeepTypeOK
  <1>2. visits[v] \in Stays
    BY <1>1 DEF Away
  <1>3. e \in Stays /\ e.at = at /\ e.script = visits[v].script
        /\ e.needs = visits[v].needs /\ e.seen = visits[v].seen
    BY <1>2 DEF Stays
  <1>4. visits' = [visits EXCEPT ![v] = e]
    BY DEF Proceeds
  <1> HIDE DEF e
  <1>5. visits'[v] = e /\ \A u \in Visits \ {v} : visits'[u] = visits[u]
    BY <1>1, <1>4
  <1>6. visits' \in [Visits -> {Away} \cup Stays]
    BY <1>1, <1>3, <1>4
  <1> QED
    BY <1>2, <1>3, <1>5, <1>6

-----------------------------------------------------------------------------
(* The invariant.                                                          *)

\* A copy is there only while a thread works on it or it is known to be left; gs.db and a whole
\* copy are what was published last.
CopyInv ==
  /\ temp # NoFile => left \/ \E v \in Visits : InCopy(v)
  /\ ~spoilt => gsdb = published /\ (temp \in Nat => temp = published)

\* A script that has not yet ended and restarts GuestScreen whenever a program is missing.
Restarter(v) == visits[v] # Away /\ visits[v].script \in {"fix", "audit", "rollout"}
Remedy(v) == visits[v] # Away /\ visits[v].script = "remediate"

Watched == Desk("Watcher") \in apps

\* The thread still looks for the Watcher, or will start it.
Owes(v) ==
  \/ Restarter(v) /\ visits[v].at # "away"
  \/ /\ Remedy(v)
     /\ \/ visits[v].at \in {"inspects", "rekills"}
        \/ visits[v].at \in {"rescreen", "rewatcher"} /\ Desk("Watcher") \notin visits[v].seen

\* Where a thread has been, the Watcher is at the desk, or a thread still owes it.
DeskInv ==
  ~excused =>
    /\ \A v \in Visits : visits[v] # Away => visits[v].script # "update"
    /\ \A v \in Visits : visits[v].at = "rekills" => visits[v].needs = loggedOn
    /\ loggedOn /\ (\E v \in Visits : visits[v] # Away) => Watched \/ \E v \in Visits : Owes(v)

UpkeepInv == UpkeepTypeOK /\ CopyInv /\ DeskInv

\* Nobody has come, and nothing has been copied.
LEMMA UpkeepStarts == UpkeepInit => UpkeepInv
  <1> SUFFICES ASSUME UpkeepInit PROVE UpkeepInv
    OBVIOUS
  <1> USE UpkeepAssumption DEF UpkeepInit
  <1>1. visits \in [Visits -> {Away} \cup Stays]
    OBVIOUS
  <1>2. apps \subseteq Apps
    BY DEF Apps, Desk
  <1>a. gsdb \in Scenes /\ temp \in Scenes \cup {NoFile}
    BY DEF Scenes
  <1>b. published \in 0..MaxScenes /\ lapses \in 0..MaxLapses
    OBVIOUS
  <1>c. loggedOn \in BOOLEAN /\ version \in {"old", "new"} /\ runtime \in BOOLEAN
        /\ setups \subseteq {"runtime", "screen"}
        /\ spoilt \in BOOLEAN /\ left \in BOOLEAN /\ excused \in BOOLEAN
    OBVIOUS
  <1>3. UpkeepTypeOK
    BY <1>1, <1>2, <1>a, <1>b, <1>c DEF UpkeepTypeOK
  <1>4. CopyInv
    BY DEF CopyInv
  <1>5. DeskInv
    BY DEF DeskInv, Away
  <1> QED
    BY <1>3, <1>4, <1>5 DEF UpkeepInv

-----------------------------------------------------------------------------
(* Steps of one thread.                                                    *)

\* Only v goes on.
Others(v) == \A u \in Visits \ {v} : visits'[u] = visits[u]

\* What a thread that works on no copy leaves alone.
LEMMA SceneStays ==
  ASSUME CopyInv, NEW v \in Visits, ~InCopy(v), Others(v),
         UNCHANGED <<gsdb, published, temp, spoilt, left>>
  PROVE  CopyInv'
  <1>1. \A u \in Visits : InCopy(u) => InCopy(u)'
    BY DEF Others, InCopy
  <1> QED
    BY <1>1 DEF CopyInv

\* A thread that owes the Watcher, or takes it away, owes it afterwards, or it is there.
LEMMA DeskStays ==
  ASSUME DeskInv, NEW v \in Visits, visits[v] # Away, visits'[v] # Away, Others(v),
         visits'[v].script = visits[v].script, loggedOn' = loggedOn,
         ~excused' => ~excused,
         ~excused' => (visits'[v].at = "rekills" => visits'[v].needs = loggedOn),
         ~excused' /\ loggedOn /\ (Watched \/ Owes(v)) => Watched' \/ Owes(v)'
  PROVE  DeskInv'
  <1> SUFFICES ASSUME ~excused' PROVE DeskInv'
    BY DEF DeskInv
  <1>1. ~excused
    OBVIOUS
  <1>2. \A u \in Visits : visits'[u] # Away => visits'[u].script # "update"
    BY <1>1 DEF DeskInv, Others
  <1>3. \A u \in Visits : visits'[u].at = "rekills" => visits'[u].needs = loggedOn'
    BY <1>1 DEF DeskInv, Others
  <1>4. ASSUME loggedOn' PROVE Watched' \/ \E u \in Visits : Owes(u)'
    <2>1. \A u \in Visits \ {v} : Owes(u) => Owes(u)'
      BY DEF Others, Owes, Restarter, Remedy
    <2>2. loggedOn
      BY <1>4
    <2>3. Watched \/ \E u \in Visits : Owes(u)
      BY <1>1, <2>2 DEF DeskInv
    <2> QED
      BY <2>1, <2>2, <2>3
  <1> QED
    BY <1>2, <1>3, <1>4 DEF DeskInv

\* A script that restarts owes the Watcher at whatever it is, until it goes.
LEMMA RestarterOwes ==
  ASSUME DeskInv, NEW v \in Visits, Restarter(v), visits[v].at # "rekills",
         visits'[v] \in Stays, Others(v), visits'[v].script = visits[v].script,
         visits'[v].at # "rekills", loggedOn' = loggedOn, ~excused' => ~excused,
         ~excused' /\ loggedOn /\ visits'[v].at = "away" => Watched'
  PROVE  DeskInv'
  <1>1. visits'[v] # Away
    BY DEF Stays, Away
  <1>2. Restarter(v)'
    BY <1>1 DEF Restarter
  <1>3. visits[v] # Away
    BY DEF Restarter
  <1>4. ~excused' /\ loggedOn => Watched' \/ Owes(v)'
    BY <1>2 DEF Owes
  <1> QED
    BY <1>1, <1>3, <1>4, DeskStays

\* Nothing is asked of the desk any more.
LEMMA DeskExcused == excused' => DeskInv'
  BY DEF DeskInv

\* What is terminated is gone, but for a GuestScreen.
LEMMA KilledTyped == apps' \in AfterKill => apps' \subseteq Apps
  <1>1. ASSUME apps' \in AfterKill, NEW a \in apps' PROVE a \in Apps
    <2>1. PICK s \in {"desk", "hidden"} : a = <<"GuestScreen", s>>
      BY <1>1 DEF AfterKill
    <2> QED
      BY <2>1 DEF Apps, Programs
  <1> QED
    BY <1>1

\* The lapses stay within their bound.
LEMMA LapsesTyped == UpkeepTypeOK /\ (Lapses \/ lapses' = lapses) => lapses' \in 0..MaxLapses
  BY UpkeepAssumption DEF UpkeepTypeOK, Lapses

-----------------------------------------------------------------------------
(* The steps that the scripts share.                                       *)

\* A thread of its own script, which keeps the invariant up to here.
Thread(v) == UpkeepInv /\ visits[v] # Away /\ visits[v].at # "away"

\* The types after a step that touches what runs, is installed and is published at most.
LEMMA TypesStay ==
  ASSUME UpkeepTypeOK, visits' \in [Visits -> {Away} \cup Stays], apps' \subseteq Apps,
         temp' \in Scenes \cup {NoFile}, gsdb' \in Scenes, Lapses \/ lapses' = lapses,
         spoilt' \in BOOLEAN, left' \in BOOLEAN, excused' \in BOOLEAN,
         setups' \subseteq {"runtime", "screen"},
         UNCHANGED <<loggedOn, version, runtime, published>>
  PROVE  UpkeepTypeOK'
  BY LapsesTyped DEF UpkeepTypeOK

\* A restarter that works on no copy before and goes on, or ends with the Watcher at the desk.
LEMMA RestarterGoes ==
  ASSUME NEW v \in Visits, Thread(v), Restarter(v), ~InCopy(v), visits[v].at # "rekills",
         NEW at \in Spots \ {"rekills"}, Proceeds(v, at), apps' \subseteq Apps,
         setups' \subseteq {"runtime", "screen"}, Lapses \/ lapses' = lapses,
         UNCHANGED <<loggedOn, version, runtime, gsdb, published, temp, spoilt, left>>,
         excused' \in {excused, TRUE},
         at = "away" => excused' \/ (loggedOn => Watched')
  PROVE  UpkeepInv'
  <1>1. UpkeepTypeOK /\ CopyInv /\ DeskInv
    BY DEF Thread, UpkeepInv
  <1>2. /\ visits' \in [Visits -> {Away} \cup Stays]
        /\ visits'[v] \in Stays /\ visits'[v].at = at /\ visits'[v].script = visits[v].script
        /\ \A u \in Visits \ {v} : visits'[u] = visits[u]
    BY <1>1, VisitGoes DEF Thread
  <1>3. excused' \in BOOLEAN /\ (~excused' => ~excused) /\ spoilt' \in BOOLEAN /\ left' \in BOOLEAN
        /\ temp' \in Scenes \cup {NoFile} /\ gsdb' \in Scenes
    BY <1>1 DEF UpkeepTypeOK
  <1>4. UpkeepTypeOK'
    BY <1>1, <1>2, <1>3, TypesStay
  <1>5. Others(v)
    BY <1>2 DEF Others
  <1>6. CopyInv'
    BY <1>1, <1>5, SceneStays
  <1>7. DeskInv'
    BY <1>1, <1>2, <1>3, <1>5, RestarterOwes
  <1> QED
    BY <1>4, <1>6, <1>7 DEF UpkeepInv

\* The three restarters terminate and start the programs, and end with the Watcher started.
LEMMA RestartsKeep ==
  ASSUME NEW v \in Visits, Thread(v), Restarter(v),
         StopsApps(v) \/ RestartsAtDesk(v) \/ (\E always \in BOOLEAN : Looks(v, always))
  PROVE  UpkeepInv'
  <1>a. /\ UpkeepTypeOK /\ excused' \in {excused, TRUE}
        /\ setups' = setups /\ setups \subseteq {"runtime", "screen"}
    BY DEF Thread, UpkeepInv, UpkeepTypeOK, StopsApps, RestartsAtDesk, Kills, StartsAtDesk, Looks,
           Carried, cashierVars
  <1>b. apps \subseteq Apps /\ \A p \in Programs : apps \cup {Desk(p)} \subseteq Apps
    BY <1>a DEF UpkeepTypeOK, Apps, Desk
  <1>1. CASE StopsApps(v)
    <2>1. apps' \subseteq Apps
      BY <1>1, <1>b, KilledTyped DEF StopsApps
    <2> QED
      BY <1>1, <1>a, <2>1, RestarterGoes DEF StopsApps, IsAt, InCopy, CopySteps, Spots, Carried
  <1>2. CASE Kills(v)
    <2>1. apps' \subseteq Apps
      BY <1>2, <1>b, KilledTyped DEF Kills
    <2> QED
      BY <1>2, <1>a, <2>1, RestarterGoes DEF Kills, IsAt, InCopy, CopySteps, Spots, Carried
  <1>3. CASE StartsAtDesk(v, "screen", "GuestScreen", "watcher")
    <2>1. apps' \subseteq Apps
      BY <1>3, <1>b DEF StartsAtDesk, StartedAtDesk, Programs
    <2> QED
      BY <1>3, <1>a, <2>1, RestarterGoes DEF StartsAtDesk, IsAt, InCopy, CopySteps, Spots, Carried
  <1>4. CASE StartsAtDesk(v, "watcher", "Watcher", "away")
    <2>1. apps' \subseteq Apps /\ (excused' \/ (loggedOn => Watched'))
      BY <1>4, <1>b DEF StartsAtDesk, StartedAtDesk, Programs, Watched
    <2> QED
      BY <1>4, <1>a, <2>1, RestarterGoes DEF StartsAtDesk, IsAt, InCopy, CopySteps, Spots, Carried
  <1>5. ASSUME NEW always \in BOOLEAN, Looks(v, always) PROVE UpkeepInv'
    <2>1. PICK at \in {"kills", "away"} :
            Proceeds(v, at) /\ (at = "away" => excused' \/ AtDesk = Programs)
      BY <1>5 DEF Looks
    <2>2. apps' = apps
      BY <1>5 DEF Looks, cashierVars
    <2>3. AtDesk = Programs => Watched'
      BY <2>2 DEF AtDesk, Programs, Watched
    <2> QED
      BY <1>5, <1>a, <1>b, <2>1, <2>2, <2>3, RestarterGoes
      DEF Looks, IsAt, InCopy, CopySteps, Spots, Carried, cashierVars
  <1> QED
    BY <1>1, <1>2, <1>3, <1>4, <1>5 DEF RestartsAtDesk

\* The first look at the cashier: what it needs is recorded.
LEMMA InspectsKeep ==
  ASSUME NEW v \in Visits, Thread(v), NEW needs \in BOOLEAN,
         NEW needed \in {"stops", "installs", "copies"}, NEW otherwise \in {"stops", "copies"},
         Restarter(v) \/ visits[v].script = "update",
         Inspects(v, needs, needed, otherwise)
  PROVE  UpkeepInv'
  <1> DEFINE at == IF needs THEN needed ELSE otherwise
             e == [visits[v] EXCEPT !.at = at, !.needs = needs]
  <1>1. UpkeepTypeOK /\ CopyInv /\ DeskInv
    BY DEF Thread, UpkeepInv
  <1>2. visits \in [Visits -> {Away} \cup Stays] /\ visits[v] \in Stays
    BY <1>1 DEF Thread, UpkeepTypeOK
  <1>3. at \in {"stops", "installs", "copies"}
    OBVIOUS
  <1> HIDE DEF at
  <1>4. e \in Stays /\ e.at = at /\ e.script = visits[v].script
    BY <1>2, <1>3 DEF Stays, Spots
  <1>5. visits' = [visits EXCEPT ![v] = e]
    BY DEF Inspects, at
  <1> HIDE DEF e
  <1>6. visits'[v] = e /\ Others(v) /\ visits' \in [Visits -> {Away} \cup Stays]
    BY <1>2, <1>4, <1>5 DEF Others
  <1>7. UNCHANGED <<cashierVars, temp, lapses, spoilt, left, excused>>
    BY DEF Inspects
  <1>8. UpkeepTypeOK'
    BY <1>1, <1>6, <1>7, TypesStay DEF UpkeepTypeOK, cashierVars
  <1>9. CopyInv'
    BY <1>1, <1>6, <1>7, SceneStays DEF Inspects, IsAt, InCopy, CopySteps, cashierVars
  <1>10. CASE Restarter(v)
    <2>1. DeskInv'
      BY <1>1, <1>3, <1>4, <1>6, <1>7, <1>10, RestarterOwes DEF Inspects, IsAt, cashierVars
    <2> QED
      BY <1>8, <1>9, <2>1 DEF UpkeepInv
  <1>11. CASE visits[v].script = "update"
    <2>1. excused'
      BY <1>1, <1>7, <1>11 DEF DeskInv, Thread
    <2> QED
      BY <1>8, <1>9, <2>1, DeskExcused DEF UpkeepInv
  <1> QED
    BY <1>10, <1>11

\* The installers of a restarter.
LEMMA InstallsKeep ==
  ASSUME NEW v \in Visits, Thread(v), Restarter(v),
         NEW new \in SUBSET {"runtime", "screen"}, Installs(v, new, "copies")
  PROVE  UpkeepInv'
  <1>1. UpkeepTypeOK
    BY DEF Thread, UpkeepInv
  <1>2. setups' \subseteq {"runtime", "screen"} /\ apps' \subseteq Apps
    BY <1>1 DEF Installs, UpkeepTypeOK
  <1> QED
    BY <1>2, RestarterGoes DEF Installs, IsAt, InCopy, CopySteps, Spots

\* update_all_guestscreen.py is excused at the desk, and works on no copy.
LEMMA UpdateKeeps ==
  ASSUME NEW v \in Visits, Thread(v), visits[v].script = "update", UpdateKassa(v)
  PROVE  UpkeepInv'
  <1>1. UpkeepTypeOK /\ CopyInv /\ DeskInv
    BY DEF Thread, UpkeepInv
  <1>2. excused
    BY <1>1 DEF DeskInv, Thread
  <1>a. ASSUME NEW at \in Spots, Proceeds(v, at), ~InCopy(v), apps' \subseteq Apps,
               setups' \subseteq {"runtime", "screen"}, Lapses \/ lapses' = lapses,
               UNCHANGED <<loggedOn, version, runtime, gsdb, published>>,
               UNCHANGED <<temp, spoilt, left, excused>>
        PROVE  UpkeepInv'
    <2>1. visits' \in [Visits -> {Away} \cup Stays] /\ Others(v)
      BY <1>1, <1>a, VisitGoes DEF Thread, Others
    <2>2. UpkeepTypeOK'
      BY <1>1, <1>a, <2>1, TypesStay DEF UpkeepTypeOK
    <2>3. CopyInv'
      BY <1>1, <1>a, <2>1, SceneStays
    <2> QED
      BY <1>2, <1>a, <2>2, <2>3, DeskExcused DEF UpkeepInv
  <1>b. /\ apps \subseteq Apps /\ setups \subseteq {"runtime", "screen"}
        /\ \A p \in Programs : Hidden(p) \in Apps
    BY <1>1 DEF UpkeepTypeOK, Apps, Hidden
  <1>3. CASE Inspects(v, TRUE, "stops", "stops")
    BY <1>3, InspectsKeep
  <1>4. CASE UpdateStops(v)
    BY <1>4, <1>a, <1>b DEF UpdateStops, IsAt, InCopy, CopySteps, Spots
  <1>5. CASE Installs(v, {"runtime", "screen"}, "waits")
    BY <1>5, <1>a, <1>b DEF Installs, IsAt, InCopy, CopySteps, Spots
  <1>6. CASE UpdateWaits(v)
    BY <1>6, <1>a, <1>b DEF UpdateWaits, IsAt, InCopy, CopySteps, Spots
  <1>7. CASE UpdateStarts(v)
    <2>1. apps' \subseteq Apps
      BY <1>7, <1>b DEF UpdateStarts, StartsHidden, Programs
    <2> QED
      BY <1>7, <1>a, <1>b, <2>1 DEF UpdateStarts, IsAt, InCopy, CopySteps, Spots
  <1> QED
    BY <1>3, <1>4, <1>5, <1>6, <1>7 DEF UpdateKassa

-----------------------------------------------------------------------------
(* The copy of gs.db.                                                      *)

\* A restarter's step on the copy.
LEMMA CopyKeeps ==
  ASSUME NEW v \in Visits, Thread(v), Restarter(v), FixesSettings(v)
  PROVE  UpkeepInv'
  <1>1. UpkeepTypeOK /\ CopyInv /\ DeskInv
    BY DEF Thread, UpkeepInv
  <1>2. PICK at \in {"copied", "edits", "edited", "removes", "looks"} : Proceeds(v, at)
    BY DEF FixesSettings, CopiesScene, FindsCopy, EditsCopy, CopiesBack, RemovesCopy
  <1>3. /\ visits' \in [Visits -> {Away} \cup Stays]
        /\ visits'[v] \in Stays /\ visits'[v].at = at /\ visits'[v].script = visits[v].script
        /\ Others(v)
    BY <1>1, <1>2, VisitGoes DEF Thread, Others, Spots, CopySteps
  <1>4. /\ UNCHANGED <<loggedOn, apps, version, runtime, setups, published, excused>>
        /\ Lapses \/ lapses' = lapses
    BY DEF FixesSettings, CopiesScene, FindsCopy, EditsCopy, CopiesBack, RemovesCopy, cashierVars
  <1>5. visits[v].at \in {"copies", "copied", "edits", "edited", "removes"}
    BY DEF FixesSettings, CopiesScene, FindsCopy, EditsCopy, CopiesBack, RemovesCopy, IsAt
  <1>6. DeskInv'
    BY <1>1, <1>3, <1>4, <1>5, RestarterOwes
  <1>7. gsdb' \in Scenes /\ temp' \in Scenes \cup {NoFile}
    BY <1>1 DEF FixesSettings, CopiesScene, FindsCopy, EditsCopy, CopiesBack, RemovesCopy,
                UpkeepTypeOK, Scenes, cashierVars
  <1>8. spoilt' \in BOOLEAN /\ left' \in BOOLEAN
    BY <1>1 DEF FixesSettings, CopiesScene, FindsCopy, EditsCopy, CopiesBack, RemovesCopy,
                UpkeepTypeOK
  <1>9. UpkeepTypeOK'
    BY <1>1, <1>3, <1>4, <1>7, <1>8, TypesStay DEF UpkeepTypeOK
  <1>a. \A u \in Visits \ {v} : InCopy(u) => InCopy(u)'
    BY <1>3 DEF Others, InCopy
  <1>b. gsdb \in Scenes /\ temp \in Scenes \cup {NoFile} /\ published \in Nat
    BY <1>1 DEF UpkeepTypeOK
  <1>c. InCopy(v)' <=> at # "looks"
    BY <1>3 DEF InCopy, CopySteps
  <1>d. \A b \in {"copied", "edits", "edited", "removes", "looks"} : Proceeds(v, b) => b = at
    BY <1>1, <1>3, VisitGoes DEF Thread, Spots, CopySteps
  <1>10. temp' # NoFile => left' \/ \E u \in Visits : InCopy(u)'
    <2>1. CASE at # "looks"
      BY <2>1, <1>c
    <2>2. CASE CopiesScene(v)
      BY <2>2, <1>c, <1>d DEF CopiesScene
    <2>3. CASE FindsCopy(v)
      BY <2>3, <1>c, <1>d DEF FindsCopy
    <2>4. CASE EditsCopy(v)
      BY <2>4, <1>c, <1>d DEF EditsCopy
    <2>5. CASE CopiesBack(v)
      BY <2>5, <1>c, <1>d DEF CopiesBack
    <2>6. CASE RemovesCopy(v)
      BY <2>6, <1>c, <1>d DEF RemovesCopy
    <2> QED
      BY <2>1, <2>2, <2>3, <2>4, <2>5, <2>6 DEF FixesSettings
  <1>11. ~spoilt' => gsdb' = published' /\ (temp' \in Nat => temp' = published')
    <2>1. CASE CopiesScene(v)
      BY <2>1, <1>1, <1>b, UpkeepAssumption DEF CopiesScene, CopyInv, cashierVars
    <2>2. CASE FindsCopy(v) \/ RemovesCopy(v)
      BY <2>2, <1>1, UpkeepAssumption DEF FindsCopy, RemovesCopy, CopyInv, cashierVars
    <2>3. CASE EditsCopy(v)
      BY <2>3, <1>1, UpkeepAssumption DEF EditsCopy, CopyInv, cashierVars
    <2>4. CASE CopiesBack(v)
      <3>1. ASSUME temp # NoFile, gsdb' = temp, ~spoilt',
                   spoilt' = (spoilt \/ temp \in {Blank, Torn})
            PROVE  gsdb' = published /\ (temp \in Nat => temp = published)
        <4>1. ~spoilt /\ temp \in Nat
          BY <3>1, <1>1, <1>b DEF Scenes, UpkeepTypeOK
        <4> QED
          BY <3>1, <4>1, <1>1 DEF CopyInv
      <3>2. ASSUME gsdb' = gsdb, spoilt' = spoilt, ~spoilt'
            PROVE  gsdb' = published /\ (temp \in Nat => temp = published)
        BY <3>2, <1>1 DEF CopyInv
      <3>3. temp' = temp /\ published' = published
        BY <2>4 DEF CopiesBack
      <3> QED
        BY <2>4, <3>1, <3>2, <3>3 DEF CopiesBack
    <2> QED
      BY <2>1, <2>2, <2>3, <2>4 DEF FixesSettings
  <1>12. CopyInv'
    BY <1>10, <1>11 DEF CopyInv
  <1> QED
    BY <1>6, <1>9, <1>12 DEF UpkeepInv

-----------------------------------------------------------------------------
(* remediate_guestscreen.py.                                               *)

\* A remedy's thread, whose record becomes e, and which still owes the Watcher if it did.
LEMMA RemedyGoes ==
  ASSUME NEW v \in Visits, Thread(v), Remedy(v), ~InCopy(v),
         NEW e \in Stays, visits' = [visits EXCEPT ![v] = e], e.script = "remediate",
         apps' \subseteq Apps, Lapses \/ lapses' = lapses, excused' \in {excused, TRUE},
         UNCHANGED <<loggedOn, version, runtime, setups, gsdb, published, temp, spoilt, left>>,
         ~excused' => (e.at = "rekills" => e.needs = loggedOn),
         ~excused' /\ loggedOn /\ (Watched \/ Owes(v)) => Watched' \/ Owes(v)'
  PROVE  UpkeepInv'
  <1>1. UpkeepTypeOK /\ CopyInv /\ DeskInv
    BY DEF Thread, UpkeepInv
  <1>2. visits \in [Visits -> {Away} \cup Stays]
    BY <1>1 DEF UpkeepTypeOK
  <1>3. visits'[v] = e /\ Others(v) /\ visits' \in [Visits -> {Away} \cup Stays]
    BY <1>2 DEF Others
  <1>4. visits'[v] # Away /\ visits[v] # Away
    BY <1>3 DEF Stays, Away, Remedy
  <1>5. UpkeepTypeOK'
    BY <1>1, <1>3, TypesStay DEF UpkeepTypeOK
  <1>6. CopyInv'
    BY <1>1, <1>3, SceneStays
  <1>a. visits'[v].script = visits[v].script
    BY <1>3 DEF Remedy
  <1>b. ~excused' => ~excused
    OBVIOUS
  <1>c. ~excused' => (visits'[v].at = "rekills" => visits'[v].needs = loggedOn)
    BY <1>3
  <1>7. DeskInv'
    BY <1>1, <1>3, <1>4, <1>a, <1>b, <1>c, DeskStays
  <1> QED
    BY <1>5, <1>6, <1>7 DEF UpkeepInv

\* What the remedy has listed decides what it starts; what it has not seen it starts.
LEMMA RemedyKeeps ==
  ASSUME NEW v \in Visits, Thread(v), Remedy(v), RemediateCashier(v)
  PROVE  UpkeepInv'
  <1>1. UpkeepTypeOK /\ DeskInv /\ visits[v] \in Stays
    BY DEF Thread, UpkeepInv, UpkeepTypeOK
  <1>2. apps \subseteq Apps /\ loggedOn \in BOOLEAN /\ \A p \in Programs : Desk(p) \in Apps
    BY <1>1 DEF UpkeepTypeOK, Apps, Desk
  <1>3. visits[v].script = "remediate"
    BY DEF Remedy
  <1>4. CASE Lists(v)
    <2>1. ~InCopy(v) /\ visits[v].at = "inspects" /\ apps' = apps
      BY <1>4 DEF Lists, IsAt, InCopy, CopySteps, cashierVars
    <2>2. CASE Proceeds(v, "away") /\ Lapses
      <3> DEFINE e == [visits[v] EXCEPT !.at = "away"]
      <3>1. e \in Stays /\ e.at = "away" /\ e.script = "remediate"
        BY <1>1, <1>3 DEF Stays, Spots
      <3>2. visits' = [visits EXCEPT ![v] = e]
        BY <2>2 DEF Proceeds
      <3>a. lapses' # lapses
        BY <1>1, <2>2, UpkeepAssumption DEF Lapses, UpkeepTypeOK
      <3>3. excused' = TRUE
        BY <1>4, <3>a DEF Lists
      <3> QED
        BY <1>2, <1>4, <2>1, <2>2, <3>1, <3>2, <3>3, RemedyGoes DEF Lists, cashierVars
    <2>3. CASE /\ visits' = [visits EXCEPT ![v] =
                    [@ EXCEPT !.at = "rekills", !.needs = loggedOn, !.seen = apps]]
               /\ UNCHANGED lapses
      <3> DEFINE e == [visits[v] EXCEPT !.at = "rekills", !.needs = loggedOn, !.seen = apps]
      <3>1. /\ e \in Stays /\ e.at = "rekills" /\ e.script = "remediate" /\ e.needs = loggedOn
        BY <1>1, <1>2, <1>3 DEF Stays, Spots
      <3>2. visits' = [visits EXCEPT ![v] = e]
        BY <2>3
      <3> HIDE DEF e
      <3>3. visits'[v] = e
        BY <1>1, <3>2 DEF UpkeepTypeOK
      <3>4. Owes(v)'
        BY <3>1, <3>3 DEF Owes, Remedy, Away, Stays
      <3>5. excused' \in {excused, TRUE}
        BY <1>1, <1>4 DEF Lists, UpkeepTypeOK
      <3> QED
        BY <1>2, <1>4, <2>1, <2>3, <3>1, <3>2, <3>4, <3>5, RemedyGoes DEF Lists, cashierVars
    <2> QED
      BY <1>4, <2>2, <2>3 DEF Lists
  <1>5. CASE KillsHidden(v)
    <2>1. PICK seen \in {apps', {}} :
            visits' = [visits EXCEPT ![v].at = IF visits[v].needs THEN "rescreen" ELSE "away",
                                   ![v].seen = seen]
      BY <1>5 DEF KillsHidden
    <2>2. /\ ~InCopy(v) /\ visits[v].at = "rekills"
          /\ apps' \in {apps, apps \ {Hidden(p) : p \in Programs}}
          /\ UNCHANGED <<loggedOn, version, runtime, setups, gsdb, published, temp, lapses, spoilt,
                         left, excused>>
      BY <1>5 DEF KillsHidden, IsAt, InCopy, CopySteps
    <2>3. Desk("Watcher") \notin {Hidden(p) : p \in Programs}
      BY DEF Desk, Hidden
    <2>4. apps' \subseteq Apps /\ (Watched => Watched')
      BY <1>2, <2>2, <2>3 DEF Watched
    <2> DEFINE at == IF visits[v].needs THEN "rescreen" ELSE "away"
               e == [visits[v] EXCEPT !.at = at, !.seen = seen]
    <2>5. at \in {"rescreen", "away"} /\ (visits[v].needs => at = "rescreen")
      OBVIOUS
    <2>6. visits' = [visits EXCEPT ![v] = e]
      BY <2>1
    <2> HIDE DEF at
    <2>7. e \in Stays /\ e.at = at /\ e.script = "remediate" /\ e.seen = seen
      BY <1>1, <1>3, <2>4, <2>5 DEF Stays, Spots
    <2> HIDE DEF e
    <2>8. visits'[v] = e
      BY <1>1, <2>6 DEF UpkeepTypeOK
    <2>9. ASSUME ~excused, loggedOn PROVE Watched' \/ Owes(v)'
      <3>1. at = "rescreen"
        BY <1>1, <2>2, <2>5, <2>9 DEF DeskInv
      <3>2. seen = {} \/ seen = apps'
        OBVIOUS
      <3>3. Watched' \/ Desk("Watcher") \notin seen
        BY <3>2 DEF Watched
      <3>4. Remedy(v)'
        BY <2>7, <2>8 DEF Remedy, Away, Stays
      <3> QED
        BY <3>1, <3>3, <3>4, <2>7, <2>8 DEF Owes
    <2> QED
      BY <2>2, <2>4, <2>5, <2>6, <2>7, <2>9, RemedyGoes
  <1>6. ASSUME NEW from \in {"rescreen", "rewatcher"}, NEW to \in {"rewatcher", "away"},
               NEW program \in Programs, Relaunches(v, from, program, to),
               to = "away" => program = "Watcher"
        PROVE  UpkeepInv'
    <2>1. Proceeds(v, to) /\ visits[v].at = from
      BY <1>6 DEF Relaunches, StartsAtDesk, IsAt
    <2>2. ~InCopy(v)
      BY <2>1 DEF InCopy, CopySteps
    <2> DEFINE e == [visits[v] EXCEPT !.at = to]
    <2>3. e \in Stays /\ e.at = to /\ e.script = "remediate" /\ e.seen = visits[v].seen
      BY <1>1, <1>3 DEF Stays, Spots
    <2>4. visits' = [visits EXCEPT ![v] = e]
      BY <2>1 DEF Proceeds
    <2> HIDE DEF e
    <2>5. visits'[v] = e
      BY <1>1, <2>4 DEF UpkeepTypeOK
    <2>6. /\ apps' \in {apps, apps \cup {Desk(program)}}
          /\ Lapses \/ lapses' = lapses
          /\ UNCHANGED <<loggedOn, version, runtime, setups, gsdb, published, temp, spoilt, left>>
          /\ excused' \in {excused, TRUE}
      BY <1>6 DEF Relaunches, StartsAtDesk, StartedAtDesk, Carried, cashierVars
    <2>7. apps' \subseteq Apps /\ (Watched => Watched')
      BY <1>2, <2>6 DEF Watched
    <2>8. ASSUME ~excused', loggedOn, Owes(v) PROVE Watched' \/ Owes(v)'
      <3>1. Desk("Watcher") \notin visits[v].seen
        BY <2>1, <2>8, <1>3 DEF Owes, Restarter
      <3>2. CASE to = "away"
        BY <1>6, <2>8, <3>1, <3>2 DEF Relaunches, StartsAtDesk, StartedAtDesk, Carried, Watched
      <3>3. CASE to = "rewatcher"
        BY <2>3, <2>5, <3>1, <3>3 DEF Owes, Remedy, Away, Stays
      <3> QED
        BY <3>2, <3>3
    <2> QED
      BY <2>2, <2>3, <2>4, <2>6, <2>7, <2>8, RemedyGoes
  <1> QED
    BY <1>4, <1>5, <1>6 DEF RemediateCashier, Programs

-----------------------------------------------------------------------------
(* The cashier, the threads that come and go, and the whole.               *)

\* What befalls the cashier between the scripts' steps.
LEMMA CashierKeeps ==
  ASSUME UpkeepInv,
         \/ PublishesScene \/ LogsOn
         \/ \E s \in {"desk", "hidden"} : ScreenEnds(s) \/ WatcherStarts(s)
         \/ \E setup \in {"runtime", "screen"} : SetupEnds(setup)
  PROVE  UpkeepInv'
  <1>1. UpkeepTypeOK /\ CopyInv /\ DeskInv
    BY DEF UpkeepInv
  <1>2. CASE PublishesScene
    <2>1. UpkeepTypeOK'
      BY <1>1, <1>2, UpkeepAssumption DEF PublishesScene, UpkeepTypeOK, Scenes
    <2>2. \A v \in Visits : InCopy(v)' = InCopy(v)
      BY <1>2 DEF PublishesScene, InCopy
    <2>3. temp # NoFile => spoilt'
      BY <1>1, <1>2 DEF PublishesScene, CopyInv
    <2>4. CopyInv'
      BY <1>1, <1>2, <2>2, <2>3, UpkeepAssumption DEF PublishesScene, CopyInv
    <2>5. DeskInv'
      BY <1>1, <1>2 DEF PublishesScene, DeskInv, Watched, Owes, Restarter, Remedy
    <2> QED
      BY <2>1, <2>4, <2>5 DEF UpkeepInv
  <1>3. CASE LogsOn
    <2>1. {Desk(p) : p \in Programs} \subseteq Apps
      BY DEF Apps, Desk
    <2>2. UpkeepTypeOK'
      BY <1>1, <1>3, <2>1 DEF LogsOn, UpkeepTypeOK
    <2>3. CopyInv'
      BY <1>1, <1>3 DEF LogsOn, CopyInv, InCopy
    <2> QED
      BY <1>3, <2>2, <2>3, DeskExcused DEF LogsOn, UpkeepInv
  <1>4. ASSUME NEW s \in {"desk", "hidden"}, ScreenEnds(s) \/ WatcherStarts(s)
        PROVE  UpkeepInv'
    <2>1. <<"GuestScreen", s>> \in Apps /\ <<"GuestScreen", s>> # Desk("Watcher")
      BY DEF Apps, Programs, Desk
    <2>2. apps' \in {apps \cup {<<"GuestScreen", s>>}, apps \ {<<"GuestScreen", s>>}}
      BY <1>4 DEF ScreenEnds, WatcherStarts
    <2>3. UNCHANGED <<loggedOn, version, runtime, setups, gsdb, published, temp, visits, lapses,
                      spoilt, left, excused>>
      BY <1>4 DEF ScreenEnds, WatcherStarts
    <2>4. apps' \subseteq Apps /\ Watched' = Watched
      BY <1>1, <2>1, <2>2 DEF UpkeepTypeOK, Watched
    <2>5. UpkeepTypeOK'
      BY <1>1, <2>3, <2>4 DEF UpkeepTypeOK
    <2>6. CopyInv'
      BY <1>1, <2>3 DEF CopyInv, InCopy
    <2>7. DeskInv'
      BY <1>1, <2>3, <2>4 DEF DeskInv, Owes, Restarter, Remedy
    <2> QED
      BY <2>5, <2>6, <2>7 DEF UpkeepInv
  <1>5. ASSUME NEW setup \in {"runtime", "screen"}, SetupEnds(setup) PROVE UpkeepInv'
    <2>1. runtime' \in BOOLEAN /\ version' \in {"old", "new"} /\ setups' \subseteq setups
      BY <1>1, <1>5 DEF SetupEnds, UpkeepTypeOK
    <2>2. UNCHANGED <<loggedOn, apps, gsdb, published, temp, visits, lapses, spoilt, left, excused>>
      BY <1>5 DEF SetupEnds
    <2>3. UpkeepTypeOK'
      BY <1>1, <2>1, <2>2 DEF UpkeepTypeOK
    <2>4. CopyInv'
      BY <1>1, <2>2 DEF CopyInv, InCopy
    <2>5. DeskInv'
      BY <1>1, <2>2 DEF DeskInv, Watched, Owes, Restarter, Remedy
    <2> QED
      BY <2>3, <2>4, <2>5 DEF UpkeepInv
  <1> QED
    BY <1>2, <1>3, <1>4, <1>5

\* A thread that comes owes the Watcher, unless it is of update_all_guestscreen.py.
LEMMA ComesKeeps ==
  ASSUME UpkeepInv, NEW v \in Visits, NEW script \in Scripts, Comes(v, script)
  PROVE  UpkeepInv'
  <1> DEFINE e == [script |-> script, at |-> "inspects", needs |-> FALSE, seen |-> {}]
  <1>1. UpkeepTypeOK /\ CopyInv /\ DeskInv
    BY DEF UpkeepInv
  <1>2. e \in Stays /\ e # Away /\ e.at = "inspects" /\ e.script = script
    BY DEF Stays, Spots, Away
  <1>3. visits[v] = Away /\ visits' = [visits EXCEPT ![v] = e]
    BY DEF Comes
  <1> HIDE DEF e
  <1>4. visits'[v] = e /\ Others(v) /\ visits' \in [Visits -> {Away} \cup Stays]
    BY <1>1, <1>2, <1>3 DEF UpkeepTypeOK, Others
  <1>5. UNCHANGED <<cashierVars, temp, lapses, spoilt, left>>
    BY DEF Comes
  <1>6. excused' \in BOOLEAN /\ (~excused' => ~excused /\ script # "update")
    BY <1>1 DEF Comes, UpkeepTypeOK
  <1>7. UpkeepTypeOK'
    BY <1>1, <1>4, <1>5, <1>6, TypesStay DEF UpkeepTypeOK, cashierVars
  <1>8. ~InCopy(v)
    BY <1>3 DEF InCopy, CopySteps, Away
  <1>9. CopyInv'
    BY <1>1, <1>4, <1>5, <1>8, SceneStays DEF cashierVars
  <1>10. script # "update" => Owes(v)'
    BY <1>2, <1>4 DEF Owes, Restarter, Remedy, Scripts
  <1>11. DeskInv'
    BY <1>1, <1>2, <1>4, <1>5, <1>6, <1>10 DEF DeskInv, Others, cashierVars
  <1> QED
    BY <1>7, <1>9, <1>11 DEF UpkeepInv

\* A thread that is cut off while it works on a copy leaves it behind.
LEMMA CutKeeps ==
  ASSUME UpkeepInv, NEW v \in Visits, IsCutOff(v)
  PROVE  UpkeepInv'
  <1>1. UpkeepTypeOK /\ CopyInv
    BY DEF UpkeepInv
  <1>2. visits' \in [Visits -> {Away} \cup Stays] /\ Others(v)
    BY <1>1, VisitGoes DEF IsCutOff, Spots, Others
  <1>3. UNCHANGED <<cashierVars, temp, spoilt>> /\ Lapses /\ excused' = TRUE
    BY DEF IsCutOff
  <1>4. left' = (left \/ (temp # NoFile /\ InCopy(v)))
    BY DEF IsCutOff
  <1>5. UpkeepTypeOK'
    BY <1>1, <1>2, <1>3, <1>4, TypesStay DEF UpkeepTypeOK, cashierVars
  <1>6. CopyInv'
    BY <1>1, <1>2, <1>3, <1>4 DEF CopyInv, Others, InCopy, cashierVars
  <1> QED
    BY <1>3, <1>5, <1>6, DeskExcused DEF UpkeepInv

\* Every step keeps the invariant.
LEMMA UpkeepStep == UpkeepInv /\ [UpkeepNext]_upkeepVars => UpkeepInv'
  <1> SUFFICES ASSUME UpkeepInv, [UpkeepNext]_upkeepVars PROVE UpkeepInv'
    OBVIOUS
  <1>1. ASSUME NEW v \in Visits, Serves(v, "fix"), CheckAndFixInstalls(v) \/ CheckAndFixShows(v)
        PROVE  UpkeepInv'
    <2>1. Thread(v) /\ Restarter(v)
      BY <1>1 DEF Serves, Thread, Restarter
    <2>2. visits[v].needs \in BOOLEAN
      BY <2>1 DEF Thread, UpkeepInv, UpkeepTypeOK, Stays
    <2> QED
      BY <1>1, <2>1, <2>2, InspectsKeep, InstallsKeep, RestartsKeep, CopyKeeps
      DEF CheckAndFixInstalls, CheckAndFixShows
  <1>2. ASSUME NEW v \in Visits, Serves(v, "audit"), FixAndAuditInstalls(v) \/ FixAndAuditShows(v)
        PROVE  UpkeepInv'
    <2>1. Thread(v) /\ Restarter(v)
      BY <1>2 DEF Serves, Thread, Restarter
    <2>2. visits[v].needs \in BOOLEAN /\ (~runtime \/ version = "old") \in BOOLEAN
      BY <2>1 DEF Thread, UpkeepInv, UpkeepTypeOK, Stays
    <2>3. {"runtime"} \cup (IF version = "old" THEN {"screen"} ELSE {})
            \in SUBSET {"runtime", "screen"}
      OBVIOUS
    <2> QED
      BY <1>2, <2>1, <2>2, <2>3, InspectsKeep, InstallsKeep, RestartsKeep, CopyKeeps
      DEF FixAndAuditInstalls, FixAndAuditShows
  <1>3. ASSUME NEW v \in Visits, Serves(v, "rollout"), RolloutInstalls(v) \/ RolloutShows(v)
        PROVE  UpkeepInv'
    <2>1. Thread(v) /\ Restarter(v)
      BY <1>3 DEF Serves, Thread, Restarter
    <2>2. (~runtime) \in BOOLEAN
      OBVIOUS
    <2> QED
      BY <1>3, <2>1, <2>2, InspectsKeep, InstallsKeep, RestartsKeep, CopyKeeps
      DEF RolloutInstalls, RolloutShows
  <1>4. ASSUME NEW v \in Visits, Serves(v, "update"), UpdateKassa(v) PROVE UpkeepInv'
    BY <1>4, UpdateKeeps DEF Serves, Thread
  <1>5. ASSUME NEW v \in Visits, Serves(v, "remediate"), RemediateCashier(v) PROVE UpkeepInv'
    BY <1>5, RemedyKeeps DEF Serves, Thread, Remedy
  <1>6. CASE UNCHANGED upkeepVars
    BY <1>6 DEF upkeepVars, UpkeepInv, UpkeepTypeOK, CopyInv, DeskInv, InCopy, Watched, Owes,
                Restarter, Remedy
  <1> QED
    BY <1>1, <1>2, <1>3, <1>4, <1>5, <1>6, CashierKeeps, ComesKeeps, CutKeeps DEF UpkeepNext

\* Whatever threads come to a cashier and whatever is not carried out: gs.db is as last published,
\* unless a script worked on a copy meanwhile, left one behind, or broke off writing it; and the
\* Watcher is at the desk once all have gone.
THEOREM UpkeepLeavesCashier == UpkeepSpec => []UpkeepHolds
  <1>1. UpkeepInv => UpkeepHolds
    <2> SUFFICES ASSUME UpkeepInv PROVE UpkeepHolds
      OBVIOUS
    <2>1. SceneSurvives
      BY DEF UpkeepInv, CopyInv, SceneSurvives
    <2>2. ASSUME \A v \in Visits : visits[v].at = "away" PROVE \A v \in Visits : ~Owes(v)
      BY <2>2 DEF Owes
    <2>3. DeskIsWatched
      BY <2>2 DEF UpkeepInv, DeskInv, DeskIsWatched, Watched
    <2> QED
      BY <2>1, <2>3 DEF UpkeepHolds
  <1> QED
    BY <1>1, UpkeepStarts, UpkeepStep, PTL DEF UpkeepSpec
=============================================================================
