----------------------------- MODULE FetchProofs -----------------------------
(***************************************************************************)
(* Proofs about Fetch, for every set of scenes, of tags and of days.       *)
(*                                                                         *)
(* First the calendar: the program's conversion of a date is the rule of   *)
(* the calendar.  Then the types; what is staged (StagedInv); and that an  *)
(* honest update arrives, for which an undisturbed worker holds the files  *)
(* of the one build that is listed (PageInv, QuietInv).                    *)
(*                                                                         *)
(* Leaves about dates name SMT: Zenon cannot print numbers of their size.  *)
(***************************************************************************)
EXTENDS FetchProps, TLAPS

-----------------------------------------------------------------------------
(* Dates.                                                                  *)

\* A year adds a leap day or none.
LEMMA LeapStep ==
  ASSUME NEW y \in Nat \ {0}
  PROVE  Leaps(y) \in Int /\ Leaps(y - 1) \in Int /\ Leaps(y) - Leaps(y - 1) \in {0, 1}
BY SMT DEF Leaps

\* The leap days of a year, by its era of 400 years (days_from_civil).
LEMMA Era ==
  ASSUME NEW y \in Nat, NEW era \in Nat, NEW yoe \in Nat, era = y \div 400, yoe = y - era * 400
  PROVE  Leaps(y) = 97 * era + yoe \div 4 - yoe \div 100
BY SMT DEF Leaps

\* days_from_civil gives every date from the year 1 on the day that the rule of
\* the calendar gives it (manifest.rs, days_from_civil).
THEOREM Calendar ==
  ASSUME NEW y \in Nat \ {0}, NEW m \in 1 .. 12, NEW d \in 1 .. 31
  PROVE  days_from_civil(y, m, d) = UnixDay(<<y, m, d>>)
<1> DEFINE year == IF m <= 2 THEN y - 1 ELSE y
           era == year \div 400
           yoe == year - era * 400
           mp == IF m > 2 THEN m - 3 ELSE m + 9
<1>1. year \in Nat
  BY SMT
<1>2. era \in Nat /\ yoe \in Nat
  BY <1>1, SMT
<1>3. Leaps(year) = 97 * era + yoe \div 4 - yoe \div 100
  <2> HIDE DEF year
  <2> QED BY <1>1, <1>2, Era, SMT
<1>4. days_from_civil(y, m, d) = 365 * year + Leaps(year) + (153 * mp + 2) \div 5 + d - 1 - 719468
  <2>1. days_from_civil(y, m, d)
          = era * 146097 + (yoe * 365 + yoe \div 4 - yoe \div 100 + (153 * mp + 2) \div 5 + d - 1) - 719468
    BY <1>1, SMT DEF days_from_civil
  <2> HIDE DEF era, mp, year
  <2>2. (153 * mp + 2) \div 5 \in Int /\ yoe \div 4 \in Int /\ yoe \div 100 \in Int
    BY <1>2, SMT DEF mp
  <2>3. era \in Int /\ year \in Int
    BY <1>1, <1>2, SMT
  <2> QED BY <2>1, <2>2, <2>3, <1>3, SMT
<1>5. UnixDay(<<y, m, d>>)
        = 365 * (y - 1970) + Leaps(y - 1) - Leaps(1969) + DaysBefore(y, m) + d - 1
  BY SMT DEF UnixDay
<1>6. Leaps(1969) = 477
  BY SMT DEF Leaps
<1>7. (153 * mp + 2) \div 5 \in Int
  BY SMT
<1>8. CASE m <= 2
  <2>1. DaysBefore(y, m) = (153 * mp + 2) \div 5 - 306
    BY <1>8, SMT DEF DaysBefore
  <2>2. year = y - 1
    BY <1>8, SMT
  <2> HIDE DEF mp, year
  <2> QED BY <1>4, <1>5, <1>6, <1>7, <2>1, <2>2, LeapStep, SMT
<1>9. CASE m > 2
  <2>1. DaysBefore(y, m) = (153 * mp + 2) \div 5 + 59 + Leaps(y) - Leaps(y - 1)
    <3>1. <<0, 31, 59, 90, 120, 151, 181, 212, 243, 273, 304, 334>>[m] = (153 * mp + 2) \div 5 + 59
      BY <1>9, SMT
    <3>2. DaysBefore(y, m) = (153 * mp + 2) \div 5 + 59 + (IF Leaps(y) # Leaps(y - 1) THEN 1 ELSE 0)
      <4> HIDE DEF mp
      <4> QED BY <1>9, <3>1, SMT DEF DaysBefore, IsLeap
    <3>3. /\ Leaps(y) \in Int /\ Leaps(y - 1) \in Int
          /\ Leaps(y) = Leaps(y - 1) \/ Leaps(y) = Leaps(y - 1) + 1
      BY LeapStep, SMT
    <3> HIDE DEF mp
    <3>4. CASE Leaps(y) = Leaps(y - 1)
      BY <1>7, <3>2, <3>3, <3>4, SMT
    <3>5. CASE Leaps(y) = Leaps(y - 1) + 1
      <4>1. Leaps(y) # Leaps(y - 1)
        BY <3>3, <3>5, SMT
      <4> QED BY <1>7, <3>2, <3>3, <3>5, <4>1, SMT
    <3> QED BY <3>3, <3>4, <3>5, SMT
  <2>2. year = y
    BY <1>9, SMT
  <2>3. Leaps(y) \in Int /\ Leaps(y - 1) \in Int
    BY LeapStep, SMT
  <2> HIDE DEF mp, year
  <2>4. days_from_civil(y, m, d) = 365 * y + Leaps(y) + (153 * mp + 2) \div 5 + d - 1 - 719468
    BY <1>4, <2>2, SMT
  <2>5. UnixDay(<<y, m, d>>)
          = 365 * (y - 1970) + Leaps(y - 1) - 477
              + ((153 * mp + 2) \div 5 + 59 + Leaps(y) - Leaps(y - 1)) + d - 1
    BY <1>5, <1>6, <2>1, SMT
  <2> QED BY <1>7, <2>3, <2>4, <2>5, SMT
<1> QED BY <1>8, <1>9

\* The same of a date as a triple.
LEMMA DateOf ==
  ASSUME NEW date \in Date
  PROVE  days_from_civil(date[1], date[2], date[3]) = UnixDay(date)
<1>1. date[1] \in Nat \ {0} /\ date[2] \in 1 .. 12 /\ date[3] \in 1 .. 31
      /\ date = <<date[1], date[2], date[3]>>
  BY SMT DEF Date
<1>2. days_from_civil(date[1], date[2], date[3]) = UnixDay(<<date[1], date[2], date[3]>>)
  BY <1>1, Calendar
<1> QED BY <1>1, <1>2, Zenon

-----------------------------------------------------------------------------
(* Types.                                                                  *)

\* What is assumed of the constants, for the scene at hand.
LEMMA SceneType ==
  ASSUME scene \in Scenes
  PROVE  /\ scene \in [tags : Seq(Nat), names : SUBSET Names, first : Date, year : Nat \ {0},
                       days : SUBSET Nat, run : Nat, applied : Nat, minimum : Nat, hops : Nat,
                       archive : BOOLEAN, faults : BOOLEAN]
         /\ Names \ Sidecars \subseteq scene.names
         /\ MAX_REDIRECTS \in Nat /\ VALID_DAYS \in Nat
         /\ Versions \subseteq Nat
<1>1. /\ scene \in [tags : Seq(Nat), names : SUBSET Names, first : Date, year : Nat \ {0},
                    days : SUBSET Nat, run : Nat, applied : Nat, minimum : Nat, hops : Nat,
                    archive : BOOLEAN, faults : BOOLEAN]
      /\ Names \ Sidecars \subseteq scene.names
      /\ MAX_REDIRECTS \in Nat /\ VALID_DAYS \in Nat
  BY FetchAssumption, Zenon
<1>2. scene.tags \in Seq(Nat)
  BY <1>1
<1>3. Versions \subseteq Nat
  BY <1>2 DEF Versions
<1> QED BY <1>1, <1>3

\* An element of a sequence is in its set.
LEMMA ElementInSeq ==
  ASSUME NEW S, NEW s \in Seq(S), NEW i \in 1 .. Len(s)
  PROVE  s[i] \in S
OBVIOUS

\* The day of a date is a number.
LEMMA UnixDayInt ==
  ASSUME NEW date \in Date
  PROVE  UnixDay(date) \in Int
<1>1. date[1] \in Nat \ {0} /\ date[2] \in 1 .. 12 /\ date[3] \in 1 .. 31
  BY SMT DEF Date
<1>2. Leaps(date[1] - 1) \in Int /\ Leaps(1969) \in Int
  BY <1>1, SMT DEF Leaps
<1>3. DaysBefore(date[1], date[2]) \in Int
  <2>1. <<0, 31, 59, 90, 120, 151, 181, 212, 243, 273, 304, 334>>[date[2]] \in Int
    BY <1>1, SMT
  <2> QED BY <2>1, SMT DEF DaysBefore
<1> QED BY <1>1, <1>2, <1>3, SMT DEF UnixDay

\* A worker that fails keeps its type.
LEMMA FailType ==
  ASSUME TypeOK, Fail, UNCHANGED <<scene, ci>>
  PROVE  WorkerTypeOK' /\ dir' \in {Absent, Broken, 0} \cup Builds'
<1>1. w' \in [pc : Busy \cup {"idle", "offered", "staged", "upToDate", "failed"},
              hops : 0 .. MAX_REDIRECTS, version : {0} \cup Versions, names : SUBSET Names,
              body : [Names -> {0, Broken} \cup Builds], day : Int]
  <2>1. 0 \in 0 .. MAX_REDIRECTS
    BY SceneType DEF TypeOK
  <2> QED BY <2>1 DEF TypeOK, WorkerTypeOK, Fail
<1>2. Builds' = Builds /\ Versions' = Versions
  BY DEF Builds, Versions
<1>3. dir' \in {Absent, Broken, 0} \cup Builds
  BY DEF TypeOK, Fail
<1>4. w'.pc = "failed"
  BY DEF TypeOK, WorkerTypeOK, Fail
<1> QED BY <1>1, <1>2, <1>3, <1>4 DEF WorkerTypeOK

\* The types hold at first,
LEMMA InitType == Init => TypeOK
<1> SUFFICES ASSUME Init PROVE TypeOK
  OBVIOUS
<1>1. clock \in Int
  BY SceneType, UnixDayInt DEF Init
<1>2. CiTypeOK
  BY DEF Init, CiTypeOK
<1>3. SiteTypeOK
  BY DEF Init, SiteTypeOK, Nothing
<1>4. WorkerTypeOK
  BY SceneType DEF Init, WorkerTypeOK, Idle, Nothing, Names, Sidecars
<1> QED BY <1>1, <1>2, <1>3, <1>4 DEF Init, TypeOK

\* and every step keeps them.
LEMMA NextType ==
  ASSUME TypeOK, [Next]_vars
  PROVE  TypeOK'
<1> USE DEF TypeOK
<1>1. CASE UNCHANGED vars
  BY <1>1 DEF vars, CiTypeOK, SiteTypeOK, WorkerTypeOK, Builds, Versions
<1>2. CASE Tick
  <2>1. clock' \in Int
    BY <1>2, SceneType DEF Tick
  <2>2. quiet' \in BOOLEAN
    BY <1>2 DEF Tick
  <2> QED
    BY <1>2, <2>1, <2>2 DEF Tick, CiTypeOK, SiteTypeOK, WorkerTypeOK, Builds, Versions
<1>3. CASE Release
  <2>1. PICK date \in Dates :
          ci' = [builds |-> Append(ci.builds, [version |-> scene.tags[Len(ci.builds) + 1],
                                               until |-> date]),
                 todo |-> scene.names]
    BY <1>3 DEF Release
  <2>2. scene.tags \in Seq(Nat) /\ scene.names \subseteq Names /\ scene.year \in Nat \ {0}
    BY SceneType
  <2>3. date \in Date
    BY <2>2, SMT DEF Dates, Date
  <2>4. Len(ci.builds) + 1 \in DOMAIN scene.tags
    BY <1>3, <2>2 DEF Release, CiTypeOK
  <2>5. scene.tags[Len(ci.builds) + 1] \in Versions
    BY <2>4 DEF Versions
  <2>6. ci'.builds \in Seq([version : Versions, until : Date]) /\ Len(ci'.builds) = Len(ci.builds) + 1
    BY <2>1, <2>3, <2>5 DEF CiTypeOK
  <2>7. Builds \subseteq Builds' /\ ci'.builds # <<>> /\ Versions' = Versions
    BY <1>3, <2>6 DEF Release, Builds, Versions, CiTypeOK
  <2>8. CiTypeOK'
    BY <2>1, <2>2, <2>6, <2>7 DEF CiTypeOK
  <2>9. SiteTypeOK' /\ WorkerTypeOK' /\ dir' \in {Absent, Broken, 0} \cup Builds'
    <3>1. UNCHANGED <<site, w, dir>>
      BY <1>3 DEF Release
    <3> HIDE DEF Release
    <3> QED BY <2>7, <3>1 DEF SiteTypeOK, WorkerTypeOK
  <2> QED BY <1>3, <2>8, <2>9 DEF Release
<1>4. ASSUME NEW n \in Names, Upload(n) PROVE TypeOK'
  <2>1. UNCHANGED <<scene, clock, w, dir>> /\ ci'.builds = ci.builds
    BY <1>4 DEF Upload, CiTypeOK
  <2>2. Builds' = Builds /\ Versions' = Versions
    BY <2>1 DEF Builds, Versions
  <2>3. CiTypeOK'
    BY <1>4, <2>2 DEF Upload, CiTypeOK
  <2>4. Len(ci.builds) \in Builds
    BY <1>4 DEF Upload, CiTypeOK, Builds
  <2>5. site' \in [files : [Versions -> [Names -> {0} \cup Builds]], listed : SUBSET Versions]
    BY <1>4, <2>4 DEF Upload, SiteTypeOK
  <2>6. quiet' \in BOOLEAN
    BY <1>4 DEF Upload
  <2> QED BY <2>1, <2>2, <2>3, <2>5, <2>6 DEF SiteTypeOK, WorkerTypeOK
<1>5. CASE Publish
  <2>1. UNCHANGED <<scene, clock, ci, w, dir>> /\ quiet' \in BOOLEAN
    BY <1>5 DEF Publish
  <2>2. Builds' = Builds /\ Versions' = Versions
    BY <2>1 DEF Builds, Versions
  <2>3. Built.version \in Versions
    <3>1. ci.builds \in Seq([version : Versions, until : Date]) /\ ci.builds # <<>>
      BY <1>5 DEF Publish, CiTypeOK
    <3>2. Len(ci.builds) \in 1 .. Len(ci.builds)
      BY <3>1
    <3>3. ci.builds[Len(ci.builds)] \in [version : Versions, until : Date]
      BY <3>1, <3>2, ElementInSeq
    <3> QED BY <3>3 DEF Built
  <2>4. site' \in [files : [Versions -> [Names -> {0} \cup Builds]], listed : SUBSET Versions]
    BY <1>5, <2>3 DEF Publish, SiteTypeOK
  <2> QED BY <2>1, <2>2, <2>4 DEF SiteTypeOK, WorkerTypeOK, CiTypeOK
<1>6. CASE Withdraw
  <2>1. UNCHANGED <<scene, clock, ci, w, dir>> /\ quiet' \in BOOLEAN
    BY <1>6 DEF Withdraw
  <2>2. Builds' = Builds /\ Versions' = Versions
    BY <2>1 DEF Builds, Versions
  <2>3. Nothing \in [Names -> {0} \cup Builds]
    BY DEF Nothing
  <2>4. site' \in [files : [Versions -> [Names -> {0} \cup Builds]], listed : SUBSET Versions]
    BY <1>6, <2>3 DEF Withdraw, SiteTypeOK
  <2> QED BY <2>1, <2>2, <2>4 DEF SiteTypeOK, WorkerTypeOK, CiTypeOK
<1>7. ASSUME UNCHANGED <<scene, clock, ci, site>>, quiet' \in BOOLEAN,
             w' \in [pc : Busy \cup {"idle", "offered", "staged", "upToDate", "failed"},
                     hops : 0 .. MAX_REDIRECTS, version : {0} \cup Versions, names : SUBSET Names,
                     body : [Names -> {0, Broken} \cup Builds], day : Int],
             w'.pc \notin {"idle", "list", "failed"} => w'.version \in Versions,
             dir' \in {Absent, Broken, 0} \cup Builds
      PROVE  TypeOK'
  <2>1. Builds' = Builds /\ Versions' = Versions
    BY <1>7 DEF Builds, Versions
  <2> QED BY <1>7, <2>1 DEF SiteTypeOK, WorkerTypeOK, CiTypeOK
<1>8. ASSUME UNCHANGED <<scene, clock, ci, site>>, quiet' \in BOOLEAN, Fail
      PROVE  TypeOK'
  <2>1. Builds' = Builds /\ Versions' = Versions
    BY <1>8 DEF Builds, Versions
  <2> QED BY <1>7, <1>8, <2>1, FailType DEF WorkerTypeOK
<1>9. MAX_REDIRECTS \in Nat /\ 0 \in 0 .. MAX_REDIRECTS
  BY SceneType
<1>10. CASE Check
  <2>1. w' = [Idle EXCEPT !.pc = "list"] /\ dir' = Absent
    BY <1>10 DEF Check
  <2>3. quiet' \in BOOLEAN
    BY <1>10, Zenon DEF Check, Honest, HonestFor
  <2>2. w' \in [pc : Busy, hops : 0 .. MAX_REDIRECTS, version : {0} \cup Versions,
                names : SUBSET Names, body : [Names -> {0, Broken} \cup Builds], day : Int]
    BY <1>9, <2>1 DEF Idle, Nothing, Busy
  <2> QED BY <1>7, <1>10, <2>1, <2>2, <2>3 DEF Check, Idle
<1>11. CASE Start
  BY <1>7, <1>11 DEF Start, WorkerTypeOK, Busy, Names
<1>12. CASE List
  <2>1. CASE Fail
    BY <1>8, <1>12, <2>1 DEF List
  <2>2. CASE ~Fail
    <3>1. PICK v \in site.listed :
            /\ w' = [w EXCEPT !.pc = "json", !.hops = 0, !.version = v, !.names = Listed(v)]
            /\ UNCHANGED dir
      BY <1>12, <2>2 DEF List
    <3>2. v \in Versions /\ Listed(v) \subseteq Names
      BY DEF SiteTypeOK, Listed
    <3>3. w' \in [pc : Busy \cup {"idle", "offered", "staged", "upToDate", "failed"},
                  hops : 0 .. MAX_REDIRECTS, version : {0} \cup Versions, names : SUBSET Names,
                  body : [Names -> {0, Broken} \cup Builds], day : Int]
      BY <1>9, <3>1, <3>2 DEF WorkerTypeOK, Busy, Names
    <3>4. w'.version \in Versions
      BY <3>1, <3>2 DEF WorkerTypeOK
    <3> QED BY <1>7, <1>12, <3>1, <3>3, <3>4 DEF List
  <2> QED BY <2>1, <2>2
<1>13. ASSUME NEW n \in Names, Fetch(n) PROVE TypeOK'
  <2>1. UNCHANGED <<scene, clock, ci, site>> /\ w.pc = n
    BY <1>13 DEF Fetch
  <2>2. PICK b \in Body(n) :
          /\ IF b = 0 THEN Fail
             ELSE /\ w' = [w EXCEPT !.pc = After(n), !.hops = 0, !.body[n] = b]
                  /\ UNCHANGED dir
          /\ quiet' = (quiet /\ b # Broken)
    BY <1>13 DEF Fetch
  <2>3. CASE b = 0
    BY <1>8, <2>1, <2>2, <2>3
  <2>4. CASE b # 0
    <3>1. b \in {0, Broken} \cup Builds
      BY <2>1 DEF Body, SiteTypeOK, WorkerTypeOK, Names, Sidecars
    <3>2. After(n) \in Busy
      BY DEF After, Busy, Names, Sidecars
    <3>3. w.version \in Versions
      BY <2>1 DEF WorkerTypeOK, Names, Sidecars
    <3>4. w' = [w EXCEPT !.pc = After(n), !.hops = 0, !.body[n] = b] /\ UNCHANGED dir
      BY <2>2, <2>4
    <3>5. w' \in [pc : Busy \cup {"idle", "offered", "staged", "upToDate", "failed"},
                  hops : 0 .. MAX_REDIRECTS, version : {0} \cup Versions, names : SUBSET Names,
                  body : [Names -> {0, Broken} \cup Builds], day : Int]
      BY <1>9, <3>1, <3>2, <3>4 DEF WorkerTypeOK
    <3>6. w'.version \in Versions
      BY <3>3, <3>4 DEF WorkerTypeOK
    <3> QED BY <1>7, <2>1, <2>2, <3>4, <3>5, <3>6
  <2> QED BY <2>3, <2>4
<1>14. CASE Redirected
  <2>1. CASE w.hops = MAX_REDIRECTS
    BY <1>8, <1>14, <2>1 DEF Redirected
  <2>2. CASE w.hops # MAX_REDIRECTS
    <3>1. w.hops + 1 \in 0 .. MAX_REDIRECTS
      BY <1>9, <2>2 DEF WorkerTypeOK
    <3> QED BY <1>7, <1>14, <2>2, <3>1 DEF Redirected, WorkerTypeOK
  <2> QED BY <2>1, <2>2
<1>15. CASE Refused
  BY <1>8, <1>15 DEF Refused
<1>16. CASE Resolve
  <2>1. PICK unreadable \in BOOLEAN :
          LET manifest == ci.builds[w.body["json"]]
              newer == manifest.version > scene.run
              refused == \/ ~is_fresh(manifest, unreadable)
                         \/ scene.run < scene.minimum
                         \/ manifest.version <= scene.applied
              verdict == IF ~Signed("json", "jsonSig") \/ (newer /\ refused) THEN "failed"
                         ELSE IF newer /\ scene.archive THEN "offered" ELSE "upToDate"
          IN w' = [w EXCEPT !.pc = verdict, !.day = clock] /\ quiet' = (quiet /\ ~unreadable)
    BY <1>16 DEF Resolve
  <2>2. PICK verdict \in {"failed", "offered", "upToDate"} :
          w' = [w EXCEPT !.pc = verdict, !.day = clock]
    BY <2>1
  <2>3. quiet' \in BOOLEAN
    BY <2>1
  <2> QED BY <1>7, <1>16, <2>2, <2>3 DEF Resolve, WorkerTypeOK
<1>17. CASE Verify
  <2>1. CASE Fail
    BY <1>8, <1>17, <2>1 DEF Verify
  <2>2. CASE ~Fail
    BY <1>7, <1>17, <2>2 DEF Verify, WorkerTypeOK, Busy
  <2> QED BY <2>1, <2>2
<1>18. CASE Extract
  <2>1. CASE dir = Broken
    BY <1>7, <1>18, <2>1 DEF Extract, WorkerTypeOK, Names
  <2>2. CASE dir # Broken
    BY <1>7, <1>18, <2>2 DEF Extract, WorkerTypeOK
  <2> QED BY <2>1, <2>2
<1> QED
  BY <1>1, <1>2, <1>3, <1>4, <1>5, <1>6, <1>10, <1>11, <1>12, <1>13, <1>14, <1>15, <1>16, <1>17,
     <1>18 DEF Next, Worker

\* The worker, the page, the workflow and the staging directory keep their types.
THEOREM TypeCorrect == Spec => []TypeOK
<1>1. Init => TypeOK
  BY InitType
<1>2. TypeOK /\ [Next]_vars => TypeOK'
  BY NextType
<1> QED BY <1>1, <1>2, PTL DEF Spec

-----------------------------------------------------------------------------
(* What is staged.                                                         *)

InTime(b) == w.day <= UnixDay(ci.builds[b].until)
InPolicy(b) ==
  /\ ci.builds[b].version > scene.run /\ ci.builds[b].version > scene.applied
  /\ scene.minimum <= scene.run /\ InTime(b)

\* the strengthening of StagedWasOffered that is inductive
StagedInv ==
  /\ w.pc \in Offered => w.body["json"] \in Builds /\ InPolicy(w.body["json"])
  /\ w.pc \in {"extract", "staged"} => w.body["artifact"] = w.body["json"]
  /\ dir \in Builds => w.pc = "staged"
  /\ w.pc = "staged" => dir = w.body["json"]

\* The builds made so far stay as they are.
LEMMA BuildsStay ==
  ASSUME TypeOK, [Next]_vars
  PROVE  /\ Builds \subseteq Builds'
         /\ \A b \in Builds : ci'.builds[b] = ci.builds[b]
         /\ scene' = scene
<1>1. CASE Release
  <2>1. PICK date \in Dates :
          ci' = [builds |-> Append(ci.builds, [version |-> scene.tags[Len(ci.builds) + 1],
                                               until |-> date]),
                 todo |-> scene.names]
    BY <1>1 DEF Release
  <2>2. ci.builds \in Seq([version : Versions, until : Date])
    BY DEF TypeOK, CiTypeOK
  <2> DEFINE new == [version |-> scene.tags[Len(ci.builds) + 1], until |-> date]
  <2>3. ci'.builds = Append(ci.builds, new)
    BY <2>1
  <2> HIDE DEF new
  <2>4. /\ Len(ci'.builds) = Len(ci.builds) + 1 /\ Len(ci.builds) \in Nat
        /\ \A b \in 1 .. Len(ci.builds) : ci'.builds[b] = ci.builds[b]
    BY <2>2, <2>3
  <2> QED BY <1>1, <2>4 DEF Builds, Release
<1>2. CASE \E n \in Names : Upload(n)
  <2>1. ci'.builds = ci.builds /\ scene' = scene
    BY <1>2 DEF Upload, TypeOK, CiTypeOK
  <2> QED BY <2>1 DEF Builds
<1>3. CASE UNCHANGED vars \/ Tick \/ Publish \/ Withdraw \/ Check \/ Start \/ Worker
  <2>1. UNCHANGED <<scene, ci>>
    BY <1>3 DEF vars, Tick, Publish, Withdraw, Check, Start, Worker, List, Fetch, Redirected,
       Refused, Resolve, Verify, Extract
  <2> QED BY <2>1 DEF Builds
<1> QED BY <1>1, <1>2, <1>3 DEF Next

\* A step that leaves the worker and its directory alone keeps the invariant.
LEMMA StagedEnv ==
  ASSUME TypeOK, StagedInv, [Next]_vars, UNCHANGED <<w, dir>>
  PROVE  StagedInv'
<1>1. /\ Builds \subseteq Builds' /\ scene' = scene
      /\ \A b \in Builds : ci'.builds[b] = ci.builds[b]
  BY BuildsStay
<1>2. w.pc \in Offered => w.body["json"] \in Builds' /\ InPolicy(w.body["json"])'
  BY <1>1 DEF StagedInv, InPolicy, InTime
<1>3. dir \in Builds' => dir \in Builds
  <2>1. dir \in {Absent, Broken, 0} \cup Builds
    BY DEF TypeOK
  <2> QED BY <2>1 DEF Builds, Absent, Broken
<1> QED BY <1>2, <1>3 DEF StagedInv, InPolicy, InTime

\* So does a worker that fails.
LEMMA StagedFail ==
  ASSUME TypeOK, StagedInv, Fail, UNCHANGED <<scene, clock, ci, site>>, w.pc \in Busy
  PROVE  StagedInv'
<1>1. w'.pc = "failed" /\ Builds' = Builds
  BY DEF TypeOK, WorkerTypeOK, Fail, Builds
<1>2. dir \notin Builds
  BY DEF StagedInv, Busy, Names, Sidecars
<1>3. dir' \in {Absent, dir}
  BY DEF Fail
<1>4. dir' \notin Builds
  BY <1>2, <1>3 DEF Absent, Builds
<1> QED BY <1>1, <1>4 DEF StagedInv, Offered, Downloading, Sidecars

\* Every step keeps what the offer and the staging directory promise.
LEMMA StagedNext ==
  ASSUME TypeOK, StagedInv, [Next]_vars
  PROVE  StagedInv'
<1> USE DEF Offered, Downloading, Sidecars, Names
<1>1. CASE UNCHANGED vars \/ Tick \/ Release \/ (\E n \in Names : Upload(n)) \/ Publish \/ Withdraw
  <2>1. UNCHANGED <<w, dir>>
    BY <1>1 DEF vars, Tick, Release, Upload, Publish, Withdraw
  <2> QED BY <2>1, StagedEnv
<1>2. CASE Check
  BY <1>2 DEF Check, Idle, StagedInv, Builds, Absent
<1>3. CASE Start
  <2>1. Builds' = Builds /\ 0 \notin Builds
    BY <1>3 DEF Start, Builds
  <2> QED BY <1>3, <2>1 DEF Start, StagedInv, InPolicy, InTime, TypeOK, WorkerTypeOK
<1>4. CASE List
  <2>1. CASE Fail
    BY <1>4, <2>1, StagedFail DEF List, Busy
  <2>2. CASE ~Fail
    <3>1. w'.pc = "json" /\ UNCHANGED <<dir, ci>> /\ w.pc = "list"
      BY <1>4, <2>2 DEF List, TypeOK, WorkerTypeOK
    <3> QED BY <3>1 DEF StagedInv, Builds
  <2> QED BY <2>1, <2>2
<1>5. ASSUME NEW n \in Names, Fetch(n) PROVE StagedInv'
  <2>1. UNCHANGED <<scene, clock, ci, site>> /\ w.pc = n /\ Builds' = Builds
    BY <1>5 DEF Fetch, Builds
  <2>2. CASE Fail
    BY <2>1, <2>2, StagedFail DEF Busy
  <2>3. CASE ~Fail
    <3>1. PICK b \in Body(n) : w' = [w EXCEPT !.pc = After(n), !.hops = 0, !.body[n] = b]
      BY <1>5, <2>3 DEF Fetch
    <3>2. UNCHANGED dir
      BY <1>5, <2>3 DEF Fetch
    <3>3. w'.pc = After(n) /\ w'.day = w.day
      BY <3>1 DEF TypeOK, WorkerTypeOK
    <3>4. CASE n \in {"json", "jsonSig"}
      <4>1. w'.pc \in {"jsonSig", "resolve"}
        BY <3>3, <3>4 DEF After
      <4> QED BY <2>1, <3>2, <3>4, <4>1 DEF StagedInv
    <3>5. CASE n \in {"artifact", "minisig", "sha"}
      <4>1. w'.pc \in {"minisig", "sha", "verify"}
        BY <3>3, <3>5 DEF After
      <4>2. w'.body["json"] = w.body["json"]
        BY <3>1, <3>5 DEF TypeOK, WorkerTypeOK
      <4> QED BY <2>1, <3>2, <3>3, <3>5, <4>1, <4>2 DEF StagedInv, InPolicy, InTime
    <3> QED BY <3>4, <3>5
  <2> QED BY <2>2, <2>3
<1>6. CASE Redirected
  <2>1. UNCHANGED <<scene, clock, ci, site>> /\ w.pc \in Busy
    BY <1>6 DEF Redirected, Requests, Busy
  <2>2. CASE Fail
    BY <2>1, <2>2, StagedFail
  <2>3. CASE ~Fail
    <3>1. w'.pc = w.pc /\ w'.body = w.body /\ w'.day = w.day /\ dir' = dir /\ Builds' = Builds
      BY <1>6, <2>1, <2>3 DEF Redirected, TypeOK, WorkerTypeOK, Builds
    <3> QED BY <2>1, <3>1 DEF StagedInv, InPolicy, InTime
  <2> QED BY <2>2, <2>3
<1>7. CASE Refused
  BY <1>7, StagedFail DEF Refused, Busy, Requests
<1>8. CASE Resolve
  <2>1. UNCHANGED <<scene, clock, ci, dir>> /\ w.pc = "resolve" /\ Builds' = Builds
    BY <1>8 DEF Resolve, Builds
  <2>2. PICK unreadable \in BOOLEAN :
          LET manifest == ci.builds[w.body["json"]]
              newer == manifest.version > scene.run
              refused == \/ ~is_fresh(manifest, unreadable)
                         \/ scene.run < scene.minimum
                         \/ manifest.version <= scene.applied
              verdict == IF ~Signed("json", "jsonSig") \/ (newer /\ refused) THEN "failed"
                         ELSE IF newer /\ scene.archive THEN "offered" ELSE "upToDate"
          IN w' = [w EXCEPT !.pc = verdict, !.day = clock]
    BY <1>8 DEF Resolve
  <2>3. w'.body = w.body /\ w'.day = clock /\ w'.pc \in {"failed", "upToDate", "offered"}
    BY <2>2 DEF TypeOK, WorkerTypeOK
  <2>4. CASE w'.pc = "offered"
    <3> DEFINE b == w.body["json"]
    <3>1. /\ Signed("json", "jsonSig") /\ ci.builds[b].version > scene.run
          /\ is_fresh(ci.builds[b], unreadable) /\ ~(scene.run < scene.minimum)
          /\ ~(ci.builds[b].version <= scene.applied)
      BY <2>2, <2>4 DEF TypeOK, WorkerTypeOK
    <3>2. b \in Builds
      BY <3>1 DEF Signed, TypeOK, WorkerTypeOK, Broken
    <3>3. ci.builds[b] \in [version : Versions, until : Date]
      BY <3>2, ElementInSeq DEF TypeOK, CiTypeOK, Builds
    <3>4. clock <= UnixDay(ci.builds[b].until)
      <4> DEFINE d == ci.builds[b].until
      <4>1. days_from_civil(d[1], d[2], d[3]) = UnixDay(d)
        BY <3>3, DateOf
      <4> QED BY <3>1, <4>1, Zenon DEF is_fresh
    <3>5. ci.builds[b].version \in Nat /\ scene.applied \in Nat /\ scene.run \in Nat
          /\ scene.minimum \in Nat
      BY <3>3, SceneType DEF TypeOK
    <3>6. InPolicy(b)'
      BY <2>1, <2>3, <3>1, <3>4, <3>5 DEF InPolicy, InTime
    <3> QED BY <2>1, <2>3, <2>4, <3>2, <3>6 DEF StagedInv
  <2>5. CASE w'.pc # "offered"
    BY <2>1, <2>3, <2>5 DEF StagedInv
  <2> QED BY <2>4, <2>5
<1>9. CASE Verify
  <2>1. CASE Fail
    BY <1>9, <2>1, StagedFail DEF Verify, Busy
  <2>2. CASE ~Fail
    <3>1. /\ w.body["artifact"] = w.body["json"] /\ w.pc = "verify"
          /\ w' = [w EXCEPT !.pc = "extract"] /\ UNCHANGED <<scene, ci, dir>>
      BY <1>9, <2>2 DEF Verify
    <3>2. w'.pc = "extract" /\ w'.body = w.body /\ w'.day = w.day /\ Builds' = Builds
      BY <3>1 DEF TypeOK, WorkerTypeOK, Builds
    <3> QED BY <3>1, <3>2 DEF StagedInv, InPolicy, InTime
  <2> QED BY <2>1, <2>2
<1>10. CASE Extract
  <2>1. UNCHANGED <<scene, ci>> /\ w.pc = "extract" /\ Builds' = Builds
    BY <1>10 DEF Extract, Builds
  <2>2. CASE dir = Broken
    <3>1. w'.pc = "staged" /\ w'.body = w.body /\ w'.day = w.day /\ dir' = w.body["artifact"]
      BY <1>10, <2>2 DEF Extract, TypeOK, WorkerTypeOK
    <3> QED BY <2>1, <3>1 DEF StagedInv, InPolicy, InTime
  <2>3. CASE dir # Broken
    <3>1. w' = w /\ dir' = Broken /\ Broken \notin Builds
      BY <1>10, <2>3 DEF Extract, Broken, Builds
    <3> QED BY <2>1, <3>1 DEF StagedInv, InPolicy, InTime
  <2> QED BY <2>2, <2>3
<1> QED
  BY <1>1, <1>2, <1>3, <1>4, <1>5, <1>6, <1>7, <1>8, <1>9, <1>10 DEF Next, Worker

\* What is staged is the artifact that the verified manifest of the offer named,
\* and the offer was in time and in policy (resolve_tier1_update,
\* download_verify_extract).
THEOREM OnlyOfferedStaged == Spec => []StagedWasOffered
<1>1. Init => StagedInv
  BY DEF Init, Idle, StagedInv, Offered, Downloading, Sidecars, Builds, Absent
<1>2. TypeOK /\ StagedInv /\ [Next]_vars => StagedInv'
  BY StagedNext
<1>3. StagedInv => StagedWasOffered
  BY DEF StagedInv, StagedWasOffered, InPolicy, InTime
<1> QED BY <1>1, <1>2, <1>3, TypeCorrect, PTL DEF Spec

-----------------------------------------------------------------------------
(* An honest update arrives.                                               *)

\* what the release of a version lists was built for that version
PageInv ==
  /\ ci.todo \subseteq scene.names
  /\ \A v \in Versions, n \in Names :
       site.files[v][n] # 0 =>
         n \in scene.names /\ ci.builds[site.files[v][n]].version = v

\* the files a worker at pc has fetched
Held(pc) ==
  {n \in Names :
     \/ n = "json" /\ pc \notin {"list", "json"}
     \/ n = "jsonSig" /\ pc \notin {"list", "json", "jsonSig"}
     \/ n = "artifact" /\ pc \in {"minisig", "sha", "verify", "extract", "staged"}
     \/ n = "minisig" /\ pc \in {"sha", "verify", "extract", "staged"}
     \/ n = "sha" /\ pc \in {"verify", "extract", "staged"}}

\* an undisturbed worker holds the files of one build, the one listed
QuietInv ==
  quiet =>
    /\ w.pc \notin {"idle", "failed", "upToDate"}
    /\ Honest
    /\ w.pc # "list" =>
         /\ w.names \subseteq scene.names
         /\ w.pc \in Sidecars => w.pc \in w.names
         /\ \A n \in Held(w.pc) :
              n \notin Sidecars \/ n \in w.names => w.body[n] = site.files[w.version]["json"]

\* Every step keeps a page made of builds for its version.
LEMMA PageNext ==
  ASSUME TypeOK, PageInv, [Next]_vars
  PROVE  PageInv'
<1>1. /\ \A b \in Builds : ci'.builds[b] = ci.builds[b]
      /\ scene' = scene /\ Versions' = Versions
  BY BuildsStay DEF Versions
<1>2. \A v \in Versions, n \in Names : site.files[v][n] \in {0} \cup Builds
  BY DEF TypeOK, SiteTypeOK
<1>3. CASE site' = site /\ ci'.todo \subseteq scene.names
  BY <1>1, <1>2, <1>3 DEF PageInv
<1>4. ASSUME NEW n \in Names, Upload(n) PROVE PageInv'
  <2> DEFINE v == Built.version
  <2>1. ci'.todo \subseteq ci.todo /\ ci'.builds = ci.builds /\ n \in scene.names
    BY <1>4 DEF Upload, TypeOK, CiTypeOK, PageInv
  <2>2. site'.files = [site.files EXCEPT ![v] = [site.files[v] EXCEPT ![n] =
                         IF site.files[v][n] = 0 THEN Len(ci.builds) ELSE 0]]
    BY <1>4 DEF Upload, TypeOK, SiteTypeOK
  <2>3. ci.builds[Len(ci.builds)].version = v
    BY DEF Built
  <2> HIDE DEF v
  <2>4. ASSUME NEW u \in Versions, NEW m \in Names, site'.files[u][m] # 0
        PROVE  m \in scene.names /\ ci.builds[site'.files[u][m]].version = u
    <3>1. CASE u = v /\ m = n
      BY <2>1, <2>2, <2>3, <2>4, <3>1 DEF TypeOK, SiteTypeOK
    <3>2. CASE ~(u = v /\ m = n)
      <4>1. site'.files[u][m] = site.files[u][m]
        BY <2>2, <3>2 DEF TypeOK, SiteTypeOK
      <4> QED BY <2>4, <4>1 DEF PageInv
    <3> QED BY <3>1, <3>2
  <2> QED BY <1>1, <2>1, <2>4 DEF PageInv
<1>5. CASE Withdraw
  <2>1. PICK v \in site.listed :
          site' = [files |-> [site.files EXCEPT ![v] = Nothing], listed |-> site.listed \ {v}]
    BY <1>5 DEF Withdraw
  <2>2. \A u \in Versions, n \in Names :
          site'.files[u][n] = 0 \/ site'.files[u][n] = site.files[u][n]
    BY <2>1 DEF TypeOK, SiteTypeOK, Nothing
  <2>3. ci' = ci
    BY <1>5 DEF Withdraw
  <2> QED BY <1>1, <2>2, <2>3 DEF PageInv
<1>6. CASE Publish
  <2>1. site'.files = site.files /\ ci' = ci
    BY <1>6 DEF Publish, TypeOK, SiteTypeOK
  <2> QED BY <1>1, <2>1 DEF PageInv
<1>7. CASE Release
  BY <1>3, <1>7 DEF Release
<1>8. CASE UNCHANGED vars \/ Tick \/ Check \/ Start \/ Worker
  <2>1. UNCHANGED <<ci, site>>
    BY <1>8 DEF vars, Tick, Check, Start, Worker, List, Fetch, Redirected, Refused, Resolve,
       Verify, Extract
  <2> QED BY <1>3, <2>1 DEF PageInv
<1> QED BY <1>4, <1>5, <1>6, <1>7, <1>8 DEF Next

\* A change of the page the worker is reading ends its quiet.
LEMMA QuietEnv ==
  ASSUME TypeOK, PageInv, QuietInv, quiet, quiet', UNCHANGED <<scene, w>>,
         Tick \/ Release \/ (\E n \in Names : Upload(n)) \/ Publish \/ Withdraw,
         w.pc # "list"
  PROVE  site'.files[w.version]["json"] = site.files[w.version]["json"]
<1>1. w.version \in Versions /\ HonestFor(w.version)
  BY DEF QuietInv, Honest, TypeOK, WorkerTypeOK
<1>2. Names \ Sidecars \subseteq scene.names /\ "json" \in scene.names
  BY SceneType DEF TypeOK, Names, Sidecars
<1>3. CASE Tick \/ Release
  BY <1>3 DEF Tick, Release
<1>4. CASE Publish
  BY <1>4 DEF Publish, TypeOK, SiteTypeOK
<1>5. HonestFor(w.version)' \/ Tick \/ Release \/ Publish
  BY DEF Upload, Withdraw, Honest
<1>6. CASE HonestFor(w.version)' /\ Withdraw
  <2>1. site'.files[w.version]["json"] # 0
    BY <1>6 DEF HonestFor
  <2>2. PICK v \in site.listed :
          site' = [files |-> [site.files EXCEPT ![v] = Nothing], listed |-> site.listed \ {v}]
    BY <1>6 DEF Withdraw
  <2> QED BY <1>1, <2>1, <2>2 DEF TypeOK, SiteTypeOK, Nothing, Names
<1>7. ASSUME NEW n \in Names, Upload(n), HonestFor(w.version)'
      PROVE  site'.files[w.version]["json"] = site.files[w.version]["json"]
  <2> DEFINE v == Built.version
             here == site.files[v][n]
  <2>1. n \in scene.names
    BY <1>7 DEF Upload, PageInv
  <2>2. site'.files = [site.files EXCEPT ![v] = [site.files[v] EXCEPT ![n] =
                         IF here = 0 THEN Len(ci.builds) ELSE 0]]
    BY <1>7 DEF Upload, TypeOK, SiteTypeOK
  <2>3. site.files[w.version][n] = site.files[w.version]["json"] /\ site.files[w.version]["json"] # 0
    BY <1>1, <2>1 DEF HonestFor
  <2>4. site'.files[w.version][n] = site'.files[w.version]["json"]
        /\ site'.files[w.version]["json"] # 0
    BY <1>7, <2>1 DEF HonestFor
  <2>5. v # w.version
    <3>1. SUFFICES ASSUME v = w.version PROVE FALSE
      OBVIOUS
    <3>2. here # 0
      BY <2>3, <3>1
    <3>3. site'.files[w.version][n] = 0
      BY <1>1, <2>2, <3>1, <3>2 DEF TypeOK, SiteTypeOK
    <3> QED BY <2>4, <3>3
  <2> QED BY <1>1, <2>2, <2>5 DEF TypeOK, SiteTypeOK
<1> QED BY <1>3, <1>4, <1>5, <1>6, <1>7

\* Every step keeps an undisturbed worker on its way.
LEMMA QuietNext ==
  ASSUME TypeOK, PageInv, QuietInv, [Next]_vars
  PROVE  QuietInv'
<1> SUFFICES ASSUME quiet' PROVE QuietInv'
  BY DEF QuietInv
<1> USE DEF Sidecars
<1> DEFINE B == site.files[w.version]["json"]
<1>1. Versions' = Versions /\ scene' = scene
  BY BuildsStay DEF Versions
<1>2. /\ "json" \in scene.names /\ "jsonSig" \in scene.names /\ "artifact" \in scene.names
      /\ scene.names \subseteq Names
  BY SceneType DEF TypeOK, Names
<1>3. CASE UNCHANGED vars
  BY <1>3 DEF vars, QuietInv, Honest, HonestFor, IsLatest
<1>4. CASE Tick \/ Release \/ (\E n \in Names : Upload(n)) \/ Publish \/ Withdraw
  <2>1. quiet /\ UNCHANGED w
    BY <1>4 DEF Tick, Release, Upload, Publish, Withdraw
  <2>2. Honest'
    <3>1. CASE Release
      <4>1. UNCHANGED <<scene, clock, site, w>> /\ \A b \in Builds : ci'.builds[b] = ci.builds[b]
        BY <3>1, BuildsStay DEF Release
      <4>2. \A v \in Versions : HonestFor(v) => HonestFor(v)'
        <5> SUFFICES ASSUME NEW v \in Versions, HonestFor(v) PROVE HonestFor(v)'
          OBVIOUS
        <5>1. site.files[v]["json"] \in Builds
          BY <1>2 DEF HonestFor, TypeOK, SiteTypeOK
        <5> QED BY <4>1, <5>1 DEF HonestFor
      <4>3. w.pc # "list" => w.version \in Versions
        BY <2>1 DEF QuietInv, TypeOK, WorkerTypeOK
      <4>4. site.listed \subseteq Versions
        BY DEF TypeOK, SiteTypeOK
      <4> QED BY <2>1, <4>1, <4>2, <4>3, <4>4 DEF QuietInv, Honest, IsLatest
    <3>2. CASE ~Release
      BY <1>4, <3>2 DEF Tick, Upload, Publish, Withdraw
    <3> QED BY <3>1, <3>2
  <2>3. w.pc # "list" => site'.files[w.version]["json"] = B
    BY <1>1, <1>4, <2>1, QuietEnv
  <2> QED BY <1>1, <2>1, <2>2, <2>3 DEF QuietInv
<1>5. CASE Check
  BY <1>5 DEF Check, QuietInv, Idle
<1>6. CASE List
  <2>1. quiet /\ w.pc = "list" /\ UNCHANGED <<clock, ci, site>>
    BY <1>6 DEF List
  <2>2. PICK u \in site.listed : IsLatest(u) /\ HonestFor(u)
    BY <2>1 DEF QuietInv, Honest
  <2>3. u \in Versions /\ site.listed \subseteq Nat /\ {"json", "jsonSig"} \subseteq Listed(u)
    BY <1>2, <2>2, SceneType DEF TypeOK, SiteTypeOK, HonestFor, Listed
  <2>4. PICK v \in site.listed :
          /\ IsLatest(v)
          /\ w' = [w EXCEPT !.pc = "json", !.hops = 0, !.version = v, !.names = Listed(v)]
    BY <1>6, <2>2, <2>3 DEF List
  <2>5. u = v
    BY <2>2, <2>3, <2>4 DEF IsLatest
  <2>6. w'.pc = "json" /\ w'.version = u /\ w'.names = Listed(u)
    BY <2>4, <2>5 DEF TypeOK, WorkerTypeOK
  <2>7. HonestFor(u)'
    BY <1>1, <2>1, <2>2, <2>6 DEF HonestFor
  <2>8. Listed(u) \subseteq scene.names
    BY <2>3 DEF Listed, PageInv
  <2>9. Held("json") = {}
    BY DEF Held, Names
  <2> QED BY <1>1, <2>6, <2>7, <2>8, <2>9 DEF QuietInv, Honest
<1>7. ASSUME quiet, w.pc # "list", UNCHANGED <<clock, ci, site>>, w'.pc # "list",
             w'.version = w.version, w'.names = w.names,
             w'.pc \in {"json", "jsonSig", "resolve"} => w.pc \in {"json", "jsonSig", "resolve"}
      PROVE  Honest'
  BY <1>1, <1>7 DEF QuietInv, Honest, HonestFor
<1>8. ASSUME NEW n \in Names, Fetch(n) PROVE QuietInv'
  <2>1. quiet /\ w.pc = n /\ UNCHANGED <<clock, ci, site>>
    BY <1>8 DEF Fetch
  <2>2. PICK b \in Body(n) :
          /\ IF b = 0 THEN Fail
             ELSE /\ w' = [w EXCEPT !.pc = After(n), !.hops = 0, !.body[n] = b]
                  /\ UNCHANGED dir
          /\ b # Broken
    BY <1>8 DEF Fetch
  <2>3. HonestFor(w.version) /\ n # "list"
    BY <2>1 DEF QuietInv, Honest, Names
  <2>4. n \in scene.names
    BY <1>2, <2>1, <2>3 DEF QuietInv, Names
  <2>5. b = B /\ B # 0
    BY <2>2, <2>3, <2>4 DEF Body, HonestFor
  <2>6. w' = [w EXCEPT !.pc = After(n), !.hops = 0, !.body[n] = b]
    BY <2>2, <2>5
  <2>7. /\ w'.pc = After(n) /\ w'.version = w.version /\ w'.names = w.names
        /\ w'.body[n] = B /\ \A m \in Names \ {n} : w'.body[m] = w.body[m]
    BY <2>5, <2>6 DEF TypeOK, WorkerTypeOK
  <2>8. After(n) \notin {"list", "idle", "failed", "upToDate"}
        /\ (After(n) \in Sidecars => After(n) \in w.names)
        /\ (After(n) \in {"json", "jsonSig", "resolve"} => n \in {"json", "jsonSig"})
    BY DEF After, Names
  <2>9. Honest'
    BY <1>7, <2>1, <2>3, <2>7, <2>8
  <2>10. ASSUME NEW m \in Held(After(n)), m \notin Sidecars \/ m \in w.names
         PROVE  m = n \/ m \in Held(n)
    BY <2>10 DEF Held, After, Names
  <2>11. Held(After(n)) \subseteq Names
    BY DEF Held
  <2>12. \A m \in Held(After(n)) : m \notin Sidecars \/ m \in w.names => w'.body[m] = B
    BY <2>1, <2>3, <2>7, <2>10, <2>11 DEF QuietInv
  <2> QED BY <1>1, <2>1, <2>3, <2>7, <2>8, <2>9, <2>12 DEF QuietInv
<1>9. CASE Redirected
  <2>1. quiet /\ w.pc \in Requests /\ w.hops < scene.hops /\ UNCHANGED <<clock, ci, site>>
    BY <1>9 DEF Redirected
  <2>2. scene.hops <= MAX_REDIRECTS
    BY <2>1 DEF QuietInv, Honest, HonestFor
  <2>3. w.hops # MAX_REDIRECTS
    BY <2>1, <2>2, SceneType DEF TypeOK, WorkerTypeOK
  <2>4. w' = [w EXCEPT !.hops = @ + 1]
    BY <1>9, <2>3 DEF Redirected
  <2>5. w'.pc = w.pc /\ w'.version = w.version /\ w'.names = w.names /\ w'.body = w.body
    BY <2>4 DEF TypeOK, WorkerTypeOK
  <2> QED BY <1>1, <2>1, <2>5 DEF QuietInv, Honest, HonestFor, IsLatest
<1>10. CASE Refused
  BY <1>10 DEF Refused
<1>11. CASE Resolve
  <2>1. quiet /\ w.pc = "resolve" /\ UNCHANGED <<clock, ci, site>>
    BY <1>11 DEF Resolve
  <2>2. w' = [w EXCEPT !.pc = "offered", !.day = clock]
    <3>1. w.body["json"] = B /\ w.body["jsonSig"] = B
      <4>1. {"json", "jsonSig"} \subseteq Held("resolve")
        BY DEF Held, Names
      <4> QED BY <2>1, <4>1 DEF QuietInv
    <3>2. w.version \in Versions /\ HonestFor(w.version)
      BY <2>1 DEF QuietInv, Honest, TypeOK, WorkerTypeOK
    <3>3. B \in Builds /\ B # 0
      BY <3>2 DEF HonestFor, TypeOK, SiteTypeOK, Names
    <3>4. Signed("json", "jsonSig")
      BY <3>1, <3>3 DEF Signed, Builds
    <3> DEFINE d == ci.builds[B].until
    <3>5. ci.builds[B] \in [version : Versions, until : Date]
      BY <3>3, ElementInSeq DEF TypeOK, CiTypeOK, Builds
    <3>6. ci.builds[B].version = w.version
      BY <3>2, <3>3 DEF PageInv, Names
    <3>7. is_fresh(ci.builds[B], FALSE)
      <4>1. days_from_civil(d[1], d[2], d[3]) = UnixDay(d)
        BY <3>5, DateOf
      <4>2. clock <= UnixDay(d)
        BY <2>1, <3>2 DEF HonestFor
      <4> QED BY <4>1, <4>2, Zenon DEF is_fresh
    <3>8. w.version \in Nat /\ scene.run \in Nat /\ scene.applied \in Nat /\ scene.minimum \in Nat
      BY <3>2, SceneType DEF TypeOK
    <3>9. /\ w.version > scene.run /\ ~(w.version <= scene.applied)
          /\ ~(scene.run < scene.minimum) /\ scene.archive
      BY <3>2, <3>8 DEF HonestFor
    <3>10. PICK unreadable \in BOOLEAN :
          LET manifest == ci.builds[w.body["json"]]
              newer == manifest.version > scene.run
              refused == \/ ~is_fresh(manifest, unreadable)
                         \/ scene.run < scene.minimum
                         \/ manifest.version <= scene.applied
              verdict == IF ~Signed("json", "jsonSig") \/ (newer /\ refused) THEN "failed"
                         ELSE IF newer /\ scene.archive THEN "offered" ELSE "upToDate"
          IN w' = [w EXCEPT !.pc = verdict, !.day = clock] /\ quiet' = (quiet /\ ~unreadable)
      BY <1>11 DEF Resolve
    <3>11. unreadable = FALSE
      BY <3>10
    <3> HIDE DEF B
    <3> QED BY <3>1, <3>4, <3>6, <3>7, <3>9, <3>10, <3>11
  <2>3. w'.pc = "offered" /\ w'.version = w.version /\ w'.names = w.names /\ w'.body = w.body
    BY <2>2 DEF TypeOK, WorkerTypeOK
  <2>4. Held("offered") = Held("resolve")
    BY DEF Held
  <2>5. Honest'
    BY <1>7, <2>1, <2>3
  <2> QED BY <1>1, <2>1, <2>3, <2>4, <2>5 DEF QuietInv
<1>12. CASE Start
  <2>1. quiet /\ w.pc = "offered" /\ UNCHANGED <<clock, ci, site>> /\ w' = [w EXCEPT !.pc = "artifact"]
    BY <1>12 DEF Start
  <2>2. w'.pc = "artifact" /\ w'.version = w.version /\ w'.names = w.names /\ w'.body = w.body
    BY <2>1 DEF TypeOK, WorkerTypeOK
  <2>3. Held("artifact") = Held("offered")
    BY DEF Held
  <2>4. Honest'
    BY <1>7, <2>1, <2>2
  <2> QED BY <1>1, <2>1, <2>2, <2>3, <2>4 DEF QuietInv
<1>13. CASE Verify
  <2>1. quiet /\ w.pc = "verify" /\ UNCHANGED <<clock, ci, site>>
    BY <1>13 DEF Verify
  <2>2. /\ w.body["json"] = B /\ w.body["artifact"] = B
        /\ "sha" \in w.names => w.body["sha"] = B
        /\ "minisig" \in w.names => w.body["minisig"] = B
    <3>1. {"json", "artifact", "sha", "minisig"} \subseteq Held("verify")
      BY DEF Held, Names
    <3> QED BY <2>1, <3>1 DEF QuietInv
  <2>3. w' = [w EXCEPT !.pc = "extract"]
    BY <1>13, <2>2 DEF Verify, Fits
  <2>4. w'.pc = "extract" /\ w'.version = w.version /\ w'.names = w.names /\ w'.body = w.body
    BY <2>3 DEF TypeOK, WorkerTypeOK
  <2>5. Held("extract") = Held("verify")
    BY DEF Held
  <2>6. Honest'
    BY <1>7, <2>1, <2>4
  <2> QED BY <1>1, <2>1, <2>4, <2>5, <2>6 DEF QuietInv
<1>14. CASE Extract
  <2>1. quiet /\ w.pc = "extract" /\ UNCHANGED <<clock, ci, site>>
    BY <1>14 DEF Extract
  <2>2. CASE w' = w
    BY <1>1, <2>1, <2>2 DEF QuietInv, Honest, HonestFor
  <2>3. CASE w' # w
    <3>1. w'.pc = "staged" /\ w'.version = w.version /\ w'.names = w.names /\ w'.body = w.body
      BY <1>14, <2>3 DEF Extract, TypeOK, WorkerTypeOK
    <3>2. Held("staged") = Held("extract")
      BY DEF Held
    <3>3. Honest'
      BY <1>7, <2>1, <3>1
    <3> QED BY <1>1, <2>1, <3>1, <3>2, <3>3 DEF QuietInv
  <2> QED BY <2>2, <2>3
<1> QED
  BY <1>3, <1>4, <1>5, <1>6, <1>8, <1>9, <1>10, <1>11, <1>12, <1>13, <1>14 DEF Next, Worker

\* No gate of the check or of the download refuses an honest update that nothing
\* disturbs (check_for_update, download_verify_extract).
THEOREM HonestArrives == Spec => []HonestUpdateArrives
<1>1. Init => PageInv /\ QuietInv
  BY DEF Init, PageInv, QuietInv, Nothing
<1>2. TypeOK /\ PageInv /\ QuietInv /\ [Next]_vars => PageInv' /\ QuietInv'
  BY PageNext, QuietNext
<1>3. QuietInv => HonestUpdateArrives
  BY DEF QuietInv, HonestUpdateArrives
<1> QED BY <1>1, <1>2, <1>3, TypeCorrect, PTL DEF Spec

=============================================================================
