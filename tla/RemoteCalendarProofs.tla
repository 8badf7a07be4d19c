------------------------- MODULE RemoteCalendarProofs -------------------------
(***************************************************************************)
(* Proofs about RemoteCalendar: its inductive invariant IInv, that neither *)
(* tag ever gets ahead of the content cache but for the windows of         *)
(* "masked", and that a fetch that succeeds tells the truth.               *)
(***************************************************************************)
EXTENDS RemoteCalendarInv, OperationQueueProofs

USE DEF serverVars, tagVars, cacheVars, factVars, writeVars

(***************************************************************************)
(* Types.                                                                  *)
(***************************************************************************)
LEMMA Versions ==
    ASSUME ServerTyped
    PROVE  \A h \in Hrefs : /\ changed[h] \in 1..seq
                            /\ there[h] => Version(h) = changed[h]
                            /\ ~there[h] => Version(h) = 0
BY DEF ServerTyped, Version

LEMMA Larger ==
    ASSUME NEW n \in Nat, NEW m \in Nat, n <= m
    PROVE  /\ Upto(n) \subseteq Upto(m) /\ CurType(n) \subseteq CurType(m)
           /\ JobType(n) \subseteq JobType(m) /\ DirectType(n) \subseteq DirectType(m)
           /\ LateType(n) \subseteq LateType(m) /\ StrayType(n) \subseteq StrayType(m)
<1>1. 0..n \subseteq 0..m /\ Upto(n) \subseteq Upto(m) /\ Etags(n) \subseteq Etags(m)
  BY DEF Upto, Etags
<1>2. CurType(n) \subseteq CurType(m)
  BY <1>1 DEF CurType
<1>3. JobType(n) \subseteq JobType(m) /\ DirectType(n) \subseteq DirectType(m)
  BY <1>1 DEF JobType, DirectType
<1>4. LateType(n) \subseteq LateType(m)
  BY <1>3 DEF LateType
<1>5. StrayType(n) \subseteq StrayType(m)
  BY <1>1 DEF StrayType
<1>. QED
  BY <1>1, <1>2, <1>3, <1>4, <1>5

What == {"foreign", "troubles", "cancels", "restarts", "discoveries", "direct"}
LEMMA Spent ==
    ASSUME budget \in BudgetType, NEW what \in What, Spend(what) \/ UNCHANGED budget
    PROVE  budget' \in BudgetType /\ budget'.tasks = budget.tasks
BY DEF BudgetType, Spend, What

(* What every operation is stays what it is.                               *)
LEMMA SameTasks ==
    ASSUME budget'.tasks = budget.tasks
    PROVE  \A op : IsFetch(op)' = IsFetch(op) /\ Task(op)' = Task(op)
BY DEF IsFetch, Task

LEMMA NoneIsNoTask ==
    ASSUME budget \in BudgetType
    PROVE  \A op : Task(op) # "none" => op \in Ops
BY DEF Task, BudgetType

(***************************************************************************)
(* What a fetch relies on, when something else moves.                      *)
(***************************************************************************)
LEMMA ReadKept ==
    ASSUME ReadInv, ServerTyped,
           UNCHANGED <<seq, changed, there, cached, pendingCtag, cur, omitted, masked>>,
           ctag' \in {0, ctag}, token' \in {0, token}, ctag \in Nat, cur.at \in Nat
    PROVE  ReadInv'
<1>1. \A h \in Hrefs : changed[h] >= 1 /\ changed[h] \in Nat /\ Version(h)' = Version(h)
  BY DEF ServerTyped, Version
<1>2. TagsBehindCache'
  BY <1>1 DEF ReadInv, TagsBehindCache
<1>3. CompareSound'
  BY <1>1 DEF ReadInv, CompareSound, InStep, Nothing
<1>4. TimesSound' /\ GotSound' /\ RestSound'
  BY <1>1 DEF ReadInv, TimesSound, GotSound, RestSound, Reading
<1>5. ListSound' /\ ResultSound'
  BY <1>1 DEF ReadInv, ListSound, ResultSound
<1>. QED
  BY <1>2, <1>3, <1>4, <1>5 DEF ReadInv

LEMMA ReadIdle == ASSUME TagsBehindCache', cur' = Idle PROVE ReadInv'
BY DEF ReadInv, CompareSound, TimesSound, GotSound, RestSound, ListSound, ResultSound, Reading, Idle

(* An item that changes is newer than every tag and every answer so far.   *)
LEMMA ReadChanged ==
    ASSUME ReadInv, Typed, NEW x \in Hrefs, NEW present \in BOOLEAN, Change(x, present),
           UNCHANGED <<cached, ctag, token, pendingCtag, cur, omitted>>
    PROVE  ReadInv'
<1>1. /\ seq \in Nat /\ changed'[x] = seq + 1 /\ x \in Hrefs
      /\ \A h \in Hrefs : /\ changed[h] \in Nat
                          /\ h # x => changed'[h] = changed[h] /\ Version(h)' = Version(h)
                                      /\ there'[h] = there[h] /\ (h \in masked' <=> h \in masked)
  BY DEF Change, Typed, ServerTyped, Version
<1>2. /\ ctag \in 0..seq /\ token \in 0..seq /\ pendingCtag \in 0..seq
      /\ cur.stored \in 0..seq /\ cur.from \in 0..seq /\ cur.at \in 0..seq /\ cur.since \in 0..seq
  BY DEF Typed, CacheTyped, FetchTyped, CurType
<1>3. TagsBehindCache'
  BY <1>1, <1>2 DEF ReadInv, TagsBehindCache
<1>4. CompareSound'
  BY <1>1, <1>2 DEF ReadInv, CompareSound, InStep, Nothing
<1>5. TimesSound'
  BY <1>1 DEF ReadInv, TimesSound, Reading
<1>6. GotSound'
  BY <1>1, <1>2 DEF ReadInv, GotSound, Reading
<1>7. RestSound'
  BY <1>1, <1>2 DEF ReadInv, RestSound, Reading
<1>8. ListSound' /\ ResultSound'
  BY <1>1, <1>2 DEF ReadInv, ListSound, ResultSound
<1>. QED
  BY <1>3, <1>4, <1>5, <1>6, <1>7, <1>8 DEF ReadInv

(* The answer of a write puts its item in step, masks it, or is older than *)
(* what the server has, with no tag as new and no fetch under way.         *)
LEMMA ReadNoted ==
    ASSUME ReadInv, Typed, NEW x \in Hrefs,
           UNCHANGED <<seq, changed, there, pendingCtag, cur, omitted>>,
           ctag' \in {0, ctag}, token' \in {0, token}, masked \subseteq masked',
           \A h \in Hrefs : h # x => cached'[h] = cached[h],
           x \notin masked' =>
              \/ cached'[x] = Version(x)
              \/ cached'[x] = cached[x]
              \/ cur.phase = "idle" /\ ctag' < changed[x] /\ token' < changed[x]
    PROVE  ReadInv'
<1>1. \A h \in Hrefs : changed[h] >= 1 /\ changed[h] \in Nat /\ Version(h)' = Version(h)
  BY DEF Typed, ServerTyped, Version
<1>2. ctag \in Nat /\ token \in Nat /\ cur.at \in Nat
  BY DEF Typed, ServerTyped, CacheTyped, FetchTyped, CurType
<1>3. TagsBehindCache'
  BY <1>1, <1>2 DEF ReadInv, TagsBehindCache
<1>4. CompareSound'
  BY <1>1 DEF ReadInv, CompareSound, InStep, Nothing
<1>5. TimesSound'
  BY <1>2 DEF ReadInv, TimesSound, Reading
<1>6. GotSound'
  BY <1>1 DEF ReadInv, GotSound, Reading
<1>7. RestSound'
  BY <1>1, <1>2 DEF ReadInv, RestSound, Reading
<1>8. ListSound' /\ ResultSound'
  BY <1>1 DEF ReadInv, ListSound, ResultSound
<1>. QED
  BY <1>3, <1>4, <1>5, <1>6, <1>7, <1>8 DEF ReadInv

(***************************************************************************)
(* What a fetch relies on, at its own steps.                               *)
(***************************************************************************)
(* It asks for the ctag, a probe, a listing or a report.                   *)
LEMMA Asks ==
    ASSUME ReadInv, Typed, UNCHANGED <<seq, changed, there, cached, masked>>,
           ctag' \in {0, ctag}, token' \in {0, token},
           cur'.phase \in {"ctag", "probe", "list", "report"}, cur'.got = Nothing,
           cur'.phase = "ctag" => cur'.stored = ctag,
           cur'.phase = "report" => cur'.from = token
    PROVE  ReadInv'
<1>1. \A h \in Hrefs : changed[h] >= 1 /\ changed[h] \in Nat /\ Version(h)' = Version(h)
  BY DEF Typed, ServerTyped, Version
<1>2. TagsBehindCache'
  BY <1>1 DEF ReadInv, TagsBehindCache
<1>3. CompareSound'
  BY <1>1 DEF ReadInv, TagsBehindCache, CompareSound, InStep, Nothing
<1>. QED
  BY <1>2, <1>3 DEF ReadInv, TimesSound, GotSound, RestSound, ListSound, ResultSound, Reading

(* It ends, or asks for a token.                                           *)
LEMMA Finishes ==
    ASSUME TagsBehindCache', cur' = Idle \/ (cur'.phase = "token" /\ ResultSound')
    PROVE  ReadInv'
<1>1. CASE cur' = Idle
  BY <1>1, ReadIdle
<1>2. CASE cur'.phase = "token" /\ ResultSound'
  BY <1>2 DEF ReadInv, CompareSound, TimesSound, GotSound, RestSound, ListSound, Reading
<1>. QED
  BY <1>1, <1>2

LEMMA AfterListingCur ==
    ASSUME NEW op, NEW result, AfterListing(op, result), cur \in CurType(seq)
    PROVE  \/ /\ cur' = Idle /\ reported' = result /\ End(op, "succeeded")
           \/ /\ cur' = [cur EXCEPT !.phase = "token", !.result = result]
              /\ cur'.phase = "token" /\ cur'.result = result /\ cur'.since = cur.since
              /\ UNCHANGED <<reported, opVars>>
BY DEF AfterListing, Goes, Succeeds, CurType

LEMMA FetchBeginsRead ==
    ASSUME ReadInv, Typed, NEW op, FetchBegins(op) PROVE ReadInv'
<1>1. /\ UNCHANGED <<seq, changed, there, cached, masked, ctag, token>>
      /\ \/ cur' = [[Idle EXCEPT !.since = seq] EXCEPT !.phase = "list"]
         \/ cur' = [[Idle EXCEPT !.since = seq] EXCEPT !.phase = "ctag", !.stored = ctag]
  BY DEF FetchBegins
<1>2. /\ cur'.phase \in {"ctag", "list"} /\ cur'.got = Nothing
      /\ cur'.phase = "ctag" => cur'.stored = ctag
  BY <1>1 DEF Idle
<1>. QED
  BY <1>1, <1>2, Asks

LEMMA ListingOrReport ==
    ASSUME ReadInv, Typed, cur.phase \in {"ctag", "probe", "report"}, NEW fresh,
           UNCHANGED <<seq, changed, there, cached, masked>>,
           ctag' \in {0, ctag}, token' \in {0, token}, ToListing(fresh, cur) \/ ToReport(fresh, cur)
    PROVE  ReadInv'
<1>1. cur \in CurType(seq) /\ cur.got = Nothing
  BY DEF Typed, FetchTyped, ReadInv, CompareSound
<1>2. /\ cur'.phase \in {"list", "report"} /\ cur'.got = Nothing
      /\ cur'.phase = "report" => cur'.from = token
  BY <1>1 DEF ToListing, ToReport, Goes, CurType
<1>. QED
  BY <1>2, Asks

LEMMA CtagAnsweredRead ==
    ASSUME ReadInv, Typed, NEW op, CtagAnswered(op) PROVE ReadInv'
<1>1. /\ cur.phase = "ctag" /\ cur \in CurType(seq) /\ cur.got = Nothing
      /\ UNCHANGED <<seq, changed, there, cached, masked>>
  BY DEF CtagAnswered, InPhase, Typed, FetchTyped, ReadInv, CompareSound
<1>2. PICK failed \in BOOLEAN :
        LET fresh == IF failed THEN 0 ELSE seq
            match == fresh # 0 /\ fresh = cur.stored
            known == IF match THEN 0 ELSE token
        IN IF match /\ cached # Nothing
           THEN Succeeds(op, cached) /\ UNCHANGED tagVars
           ELSE /\ IF match THEN ClearTags ELSE UNCHANGED tagVars
                /\ IF ~probed /\ known # 0
                   THEN Goes([cur EXCEPT !.phase = "probe", !.fresh = fresh])
                   ELSE IF supports /\ known # 0 THEN ToReport(fresh, cur)
                   ELSE ToListing(fresh, cur)
  BY DEF CtagAnswered
<1>. DEFINE fresh == IF failed THEN 0 ELSE seq
<1>3. ctag' \in {0, ctag} /\ token' \in {0, token}
  BY <1>2 DEF ClearTags
<1>4. CASE cur' = Idle
  <2>1. TagsBehindCache'
    <3>1. \A h \in Hrefs : changed[h] >= 1 /\ changed[h] \in Nat /\ Version(h)' = Version(h)
      BY <1>1 DEF Typed, ServerTyped, Version
    <3>. QED
      BY <3>1, <1>1, <1>3 DEF ReadInv, TagsBehindCache
  <2>. QED
    BY <2>1, <1>4, ReadIdle
<1>5. CASE cur' = [cur EXCEPT !.phase = "probe", !.fresh = fresh]
  <2>1. cur'.phase = "probe" /\ cur'.got = Nothing
    BY <1>1, <1>5 DEF CurType
  <2>. QED
    BY <1>1, <1>3, <2>1, Asks
<1>6. CASE ToListing(fresh, cur) \/ ToReport(fresh, cur)
  BY <1>1, <1>3, <1>6, ListingOrReport
<1>. QED
  BY <1>2, <1>4, <1>5, <1>6 DEF Succeeds, Goes

LEMMA ProbeAnsweredRead ==
    ASSUME ReadInv, Typed, NEW op, ProbeAnswered(op) PROVE ReadInv'
<1>1. /\ cur.phase = "probe" /\ UNCHANGED <<seq, changed, there, cached, masked, ctag, token>>
      /\ ToListing(cur.fresh, cur) \/ ToReport(cur.fresh, cur)
  BY DEF ProbeAnswered, InPhase
<1>. QED
  BY <1>1, ListingOrReport

LEMMA ReportRefusedRead ==
    ASSUME ReadInv, Typed, NEW op, ReportRefused(op) PROVE ReadInv'
<1>1. /\ cur.phase = "report" /\ UNCHANGED <<seq, changed, there, cached, masked, ctag>>
      /\ token' \in {0, token} /\ ToListing(cur.fresh, cur)
  BY DEF ReportRefused, InPhase
<1>. QED
  BY <1>1, ListingOrReport

LEMMA FetchFailsRead ==
    ASSUME ReadInv, Typed, NEW op, FetchFails(op) PROVE ReadInv'
<1>1. cur' = Idle /\ UNCHANGED <<seq, changed, there, cached, masked, ctag, token>>
  BY DEF FetchFails, Fails
<1>2. TagsBehindCache'
  BY <1>1 DEF ReadInv, TagsBehindCache, Version
<1>. QED
  BY <1>1, <1>2, ReadIdle

(* What a fetch that succeeds with this step says.                         *)
TellsTheTruth ==
    \A h \in Hrefs \ (masked' \union omitted') :
        changed[h] <= cur.since => reported'[h] = Version(h)

LEMMA Serves ==
    ASSUME NEW op, NEW result, AfterListing(op, result), cur \in CurType(seq), TagsBehindCache',
           UNCHANGED <<changed, there>>,
           \A h \in Hrefs \ (masked' \union omitted') :
              changed[h] <= cur.since => result[h] = Version(h)
    PROVE  ReadInv' /\ (cur' = Idle => TellsTheTruth)
<1>1. CASE cur' = Idle /\ reported' = result
  BY <1>1, Finishes DEF TellsTheTruth
<1>2. CASE /\ cur'.phase = "token" /\ cur'.result = result /\ cur'.since = cur.since
           /\ UNCHANGED <<reported, opVars>>
  <2>1. ResultSound' /\ cur' # Idle
    BY <1>2 DEF ResultSound, Version, Idle
  <2>. QED
    BY <1>2, <2>1, Finishes
<1>. QED
  BY <1>1, <1>2, AfterListingCur

(* An item whose etag is the listed one is in the cache as it is listed;   *)
(* one that is not listed is in the cache only as an orphan.               *)
LEMMA Listed ==
    ASSUME Typed, EtagSound, NEW h \in Hrefs
    PROVE  /\ there[h] /\ etagCache[h] = Version(h) => cached[h] = Version(h)
           /\ ~there[h] /\ etagCache[h] = 0 /\ h \notin Orphans => cached[h] = Version(h)
<1>1. changed[h] \in Nat /\ changed[h] >= 1 /\ etagCache[h] \in {0, -1, cached[h]}
  BY DEF Typed, ServerTyped, EtagSound, Bare
<1>. QED
  BY <1>1 DEF Version, Orphans

LEMMA ListAnsweredRead ==
    ASSUME ReadInv, Typed, EtagSound, NEW op, ListAnswered(op)
    PROVE  ReadInv' /\ (cur' = Idle => TellsTheTruth)
<1>. DEFINE gone == {h \in Hrefs : etagCache[h] # 0 /\ ~there[h]}
            dirty == {h \in Hrefs : there[h] /\ etagCache[h] # Version(h)}
            served == FromCache(Server)
<1>1. /\ cur.phase = "list" /\ cur \in CurType(seq) /\ cur.got = Nothing /\ seq \in Nat
      /\ UNCHANGED <<seq, changed, there, omitted>> /\ masked' = masked \union Orphans
      /\ cached' = Dropped(cached, gone)
  BY DEF ListAnswered, InPhase, Typed, FetchTyped, ReadInv, CompareSound, Erase, ServerTyped
<1>2. \A h \in Hrefs : /\ changed[h] \in 1..seq /\ Version(h)' = Version(h)
                       /\ there[h] => Version(h) = changed[h] /\ h \notin gone
                       /\ ~there[h] => Version(h) = 0
  BY <1>1, Versions DEF Typed, Version
<1>3. \A h \in Hrefs : cached'[h] = IF h \in gone THEN 0 ELSE cached[h]
  BY <1>1 DEF Dropped
<1>4. \A h \in Hrefs \ masked' : h \notin dirty => cached'[h] = Version(h)
  BY <1>1, <1>2, <1>3, Listed
<1>5. CASE dirty # {}
  <2>1. /\ cur' = [cur EXCEPT !.phase = "get", !.list = Server, !.at = seq,
                              !.asked = dirty, !.want = dirty]
        /\ UNCHANGED <<ctag, token, pendingCtag, reported, opVars>>
    BY <1>5 DEF ListAnswered, Goes
  <2>2. /\ cur'.phase = "get" /\ cur'.list = Server /\ cur'.at = seq /\ cur'.asked = dirty
        /\ cur'.want = dirty /\ cur'.got = Nothing /\ cur'.since = cur.since
        /\ cur'.fresh = cur.fresh /\ cur'.since <= seq /\ cur'.fresh <= seq
    BY <1>1, <2>1 DEF CurType
  <2>3. TagsBehindCache'
    BY <1>1, <1>2, <1>3, <2>1 DEF ReadInv, TagsBehindCache
  <2>4. TimesSound'
    BY <2>1, <2>2 DEF TimesSound, Typed, CacheTyped
  <2>5. GotSound'
    BY <1>1, <1>2, <2>2 DEF GotSound, Nothing
  <2>6. RestSound'
    BY <1>1, <1>2, <1>4, <2>2 DEF RestSound, Nothing
  <2>7. ListSound'
    BY <1>1, <1>2, <2>2 DEF ListSound, Server
  <2>8. CompareSound' /\ ResultSound'
    BY <2>2 DEF CompareSound, ResultSound
  <2>9. cur' # Idle
    BY <2>2 DEF Idle
  <2>. QED
    BY <2>3, <2>4, <2>5, <2>6, <2>7, <2>8, <2>9 DEF ReadInv
<1>6. CASE dirty = {}
  <2>1. AfterListing(op, served)
    BY <1>6 DEF ListAnswered
  <2>2. TagsBehindCache'
    BY <1>1, <1>2, <1>4, <1>6 DEF TagsBehindCache
  <2>3. \A h \in Hrefs : served[h] = Version(h)
    BY <1>2, <1>6, Listed DEF FromCache, Server
  <2>. QED
    BY <1>1, <2>1, <2>2, <2>3, Serves
<1>. QED
  BY <1>5, <1>6

LEMMA TokenAnsweredRead ==
    ASSUME ReadInv, Typed, NEW op, TokenAnswered(op)
    PROVE  ReadInv' /\ TellsTheTruth
<1>1. /\ cur.phase = "token" /\ cur' = Idle /\ reported' = cur.result
      /\ UNCHANGED <<seq, changed, there, cached, ctag, omitted>>
      /\ (token' = token /\ masked' = masked) \/ TakeToken
  BY DEF TokenAnswered, InPhase, Succeeds
<1>2. masked \subseteq masked'
  BY <1>1 DEF TakeToken
<1>3. TagsBehindCache'
  <2>1. CASE token' = token /\ masked' = masked
    BY <1>1, <2>1 DEF ReadInv, TagsBehindCache, Version
  <2>2. CASE TakeToken
    BY <1>1, <2>2 DEF TakeToken, Unseen, TagsBehindCache, Version
  <2>. QED
    BY <1>1, <2>1, <2>2
<1>4. TellsTheTruth
  BY <1>1, <1>2 DEF ReadInv, ResultSound, TellsTheTruth
<1>. QED
  BY <1>1, <1>3, <1>4, ReadIdle

(* A batch of items is read: each is as the server has it now, but for     *)
(* those the server leaves out.                                            *)
LEMMA GotNow ==
    ASSUME ReadInv, Typed, Reading, NEW hs \in SUBSET cur.want, NEW left \in SUBSET hs,
           UNCHANGED <<changed, there>>, omitted' = omitted \union left
    PROVE  \A h \in Hrefs :
        /\ Got(hs, left)[h] # 0 => h \in cur.asked
        /\ changed[h] <= cur.at =>
              /\ h \in cur.asked => there[h]
              /\ Got(hs, left)[h] \in {0, Version(h)}
              /\ h \in (cur.asked \ (cur.want \ hs)) \ omitted' => Got(hs, left)[h] = Version(h)
        /\ h \notin masked /\ Got(hs, left)[h] \notin {0, Version(h)} => changed[h] > token
<1>1. /\ cur.want \subseteq cur.asked
      /\ \A h \in Hrefs : Got(hs, left)[h] = IF h \in hs \ left THEN Version(h) ELSE cur.got[h]
  BY DEF ReadInv, TimesSound, Got
<1>. QED
  BY <1>1 DEF ReadInv, GotSound, RestSound

LEMMA BatchAnsweredRead ==
    ASSUME ReadInv, Typed, Reading, NEW hs \in SUBSET cur.want, NEW left \in SUBSET hs,
           UNCHANGED <<seq, changed, there, pendingCtag, masked>>, omitted' = omitted \union left,
           BatchAnswered(hs, left)
    PROVE  ReadInv'
<1>1. PICK got : got = Got(hs, left)
  OBVIOUS
<1>2. /\ cur' = [cur EXCEPT !.want = @ \ hs, !.got = got]
      /\ UNCHANGED <<cached, ctag, token>> /\ cur \in CurType(seq)
  BY <1>1 DEF BatchAnswered, Goes, Typed, FetchTyped
<1>3. /\ cur'.phase = cur.phase /\ cur'.want = cur.want \ hs /\ cur'.got = got
      /\ cur'.asked = cur.asked /\ cur'.at = cur.at /\ cur'.since = cur.since
      /\ cur'.fresh = cur.fresh /\ cur'.list = cur.list
  BY <1>2 DEF CurType
<1>4. \A h \in Hrefs : Version(h)' = Version(h)
  BY DEF Version
<1>5. \A h \in Hrefs :
        /\ got[h] # 0 => h \in cur.asked
        /\ changed[h] <= cur.at =>
              /\ h \in cur.asked => there[h]
              /\ got[h] \in {0, Version(h)}
              /\ h \in (cur.asked \ (cur.want \ hs)) \ omitted' => got[h] = Version(h)
        /\ h \notin masked /\ got[h] \notin {0, Version(h)} => changed[h] > token
  BY <1>1, GotNow
<1>6. TagsBehindCache' /\ TimesSound'
  BY <1>2, <1>3, <1>4 DEF ReadInv, TagsBehindCache, TimesSound, Reading
<1>7. GotSound'
  BY <1>3, <1>4, <1>5 DEF GotSound
<1>8. RestSound'
  BY <1>2, <1>3, <1>4, <1>5 DEF ReadInv, RestSound, Reading
<1>9. ListSound' /\ CompareSound' /\ ResultSound'
  BY <1>3, <1>4 DEF ReadInv, ListSound, CompareSound, ResultSound, Reading
<1>. QED
  BY <1>6, <1>7, <1>8, <1>9 DEF ReadInv

(* processFetchedItems(): with every listed item materialised the pending  *)
(* ctag may be stored, for what changed since the listing is newer still.  *)
LEMMA ProcessFetchedItemsRead ==
    ASSUME ReadInv, Typed, NEW op, cur.phase = "get",
           NEW left \in SUBSET cur.want,
           UNCHANGED <<seq, changed, there, masked>>, omitted' = omitted \union left,
           ProcessFetchedItems(op, Got(cur.want, left))
    PROVE  ReadInv' /\ (cur' = Idle => TellsTheTruth)
<1>1. PICK got : got = Got(cur.want, left)
  OBVIOUS
<1>. DEFINE result == [h \in Hrefs |->
            IF cur.list[h] = 0 THEN 0
            ELSE IF got[h] # 0 THEN got[h] ELSE FromCache(cur.list)[h]]
<1>2. /\ cached' = Overlay(cached, got) /\ token' = token
      /\ ctag' = IF Complete(result) /\ pendingCtag # 0 THEN pendingCtag ELSE ctag
      /\ AfterListing(op, result) /\ cur \in CurType(seq)
  BY <1>1 DEF ProcessFetchedItems, CommitPending, Typed, FetchTyped
<1>3. \A h \in Hrefs :
        /\ got[h] # 0 => h \in cur.asked
        /\ changed[h] <= cur.at =>
              /\ h \in cur.asked => there[h]
              /\ got[h] \in {0, Version(h)}
              /\ h \in cur.asked \ omitted' => got[h] = Version(h)
        /\ h \notin masked /\ got[h] \notin {0, Version(h)} => changed[h] > token
  BY <1>1, GotNow DEF Reading
<1>4. \A h \in Hrefs :
        /\ Version(h)' = Version(h) /\ changed[h] \in Nat
        /\ there[h] => Version(h) = changed[h] /\ changed[h] # 0
        /\ ~there[h] => Version(h) = 0
        /\ cached'[h] = IF got[h] # 0 THEN got[h] ELSE cached[h]
        /\ result[h] = IF cur.list[h] = 0 THEN 0 ELSE IF got[h] # 0 THEN got[h]
                       ELSE IF cached[h] = cur.list[h] THEN cur.list[h] ELSE 0
        /\ changed[h] <= cur.at => cur.list[h] = Version(h)
        /\ h \in cur.asked => cur.list[h] # 0
  BY <1>2, Versions DEF Typed, ServerTyped, Version, Overlay, FromCache, ReadInv, ListSound
<1>5. \A h \in Hrefs \ masked :
        /\ changed[h] <= cur.at /\ h \notin cur.asked => cached[h] = Version(h)
        /\ changed[h] > cur.at => changed[h] > pendingCtag
        /\ changed[h] <= ctag \/ changed[h] <= token => cached[h] = Version(h)
  BY DEF ReadInv, RestSound, TagsBehindCache, Reading
<1>6. ctag <= cur.at /\ cur.since <= cur.at /\ ctag \in Nat /\ token \in Nat /\ pendingCtag \in Nat
      /\ cur.at \in Nat /\ cur.since \in Nat
  BY <1>2 DEF ReadInv, TimesSound, Reading, Typed, ServerTyped, CacheTyped, CurType
<1>7. TagsBehindCache'
  <2>1. SUFFICES ASSUME NEW h \in Hrefs \ masked, changed[h] <= ctag' \/ changed[h] <= token'
                 PROVE  cached'[h] = Version(h)
    BY <1>4 DEF TagsBehindCache
  <2>2. CASE changed[h] > cur.at
    <3>1. changed[h] <= token
      BY <1>2, <1>4, <1>5, <1>6, <2>1, <2>2
    <3>. QED
      BY <1>3, <1>4, <1>5, <3>1, <1>6
  <2>3. CASE changed[h] <= cur.at /\ h \notin cur.asked
    BY <1>3, <1>4, <1>5, <2>3
  <2>4. CASE changed[h] <= cur.at /\ h \in cur.asked
    <3>1. CASE got[h] # 0
      BY <1>3, <1>4, <2>4, <3>1
    <3>2. CASE got[h] = 0 /\ Complete(result)
      BY <1>4, <2>4, <3>2 DEF Complete
    <3>3. CASE got[h] = 0 /\ ~Complete(result)
      BY <1>2, <1>4, <1>5, <2>1, <3>3
    <3>. QED
      BY <3>1, <3>2, <3>3
  <2>. QED
    BY <1>4, <1>6, <2>2, <2>3, <2>4
<1>8. \A h \in Hrefs \ (masked' \union omitted') :
          changed[h] <= cur.since => result[h] = Version(h)
  <2>1. SUFFICES ASSUME NEW h \in Hrefs \ (masked \union omitted'), changed[h] <= cur.since
                 PROVE  result[h] = Version(h)
    OBVIOUS
  <2>2. changed[h] <= cur.at /\ cur.list[h] = Version(h)
    BY <1>4, <1>6, <2>1
  <2>3. CASE h \in cur.asked
    BY <1>3, <1>4, <2>1, <2>2, <2>3
  <2>4. CASE h \notin cur.asked
    BY <1>3, <1>4, <1>5, <2>1, <2>2, <2>4
  <2>. QED
    BY <2>3, <2>4
<1>. HIDE DEF result
<1>. QED
  BY <1>2, <1>7, <1>8, Serves

(* completeSyncCollectionFetch(): the token of the report is stored, for   *)
(* it names what was read, and nothing that was missed.                    *)
LEMMA CompleteDeltaRead ==
    ASSUME ReadInv, Typed, NEW op, cur.phase = "delta",
           NEW left \in SUBSET cur.want,
           UNCHANGED <<seq, changed, there, masked>>, omitted' = omitted \union left,
           CompleteDelta(op, Got(cur.want, left))
    PROVE  ReadInv' /\ TellsTheTruth
<1>1. PICK got : got = Got(cur.want, left)
  OBVIOUS
<1>2. /\ cached' = Overlay(cached, got) /\ cur' = Idle /\ reported' = cached'
      /\ IF \A h \in cur.asked : got[h] # 0
         THEN /\ token' = cur.at
              /\ ctag' \in {pendingCtag, cur.fresh, ctag}
         ELSE UNCHANGED <<ctag, token>>
      /\ cur \in CurType(seq)
  BY <1>1 DEF CompleteDelta, Succeeds, Typed, FetchTyped
<1>3. \A h \in Hrefs :
        /\ got[h] # 0 => h \in cur.asked
        /\ changed[h] <= cur.at =>
              /\ h \in cur.asked => there[h]
              /\ got[h] \in {0, Version(h)}
              /\ h \in cur.asked \ omitted' => got[h] = Version(h)
        /\ h \notin masked /\ got[h] \notin {0, Version(h)} => changed[h] > token
  BY <1>1, GotNow DEF Reading
<1>4. \A h \in Hrefs :
        /\ Version(h)' = Version(h) /\ changed[h] \in Nat
        /\ there[h] => Version(h) = changed[h] /\ changed[h] # 0
        /\ ~there[h] => Version(h) = 0
        /\ cached'[h] = IF got[h] # 0 THEN got[h] ELSE cached[h]
  BY <1>2, Versions DEF Typed, ServerTyped, Version, Overlay
<1>5. \A h \in Hrefs \ masked :
        /\ changed[h] <= cur.at /\ h \notin cur.asked => cached[h] = Version(h)
        /\ changed[h] > cur.at => changed[h] > pendingCtag
        /\ changed[h] <= ctag \/ changed[h] <= token => cached[h] = Version(h)
  BY DEF ReadInv, RestSound, TagsBehindCache, Reading
<1>6. /\ ctag <= cur.at /\ cur.since <= cur.at /\ cur.fresh <= cur.at
      /\ ctag \in Nat /\ token \in Nat /\ pendingCtag \in Nat
      /\ cur.at \in Nat /\ cur.since \in Nat /\ cur.fresh \in Nat
  BY <1>2 DEF ReadInv, TimesSound, Reading, Typed, ServerTyped, CacheTyped, CurType
<1>7. TagsBehindCache'
  <2>1. SUFFICES ASSUME NEW h \in Hrefs \ masked, changed[h] <= ctag' \/ changed[h] <= token'
                 PROVE  cached'[h] = Version(h)
    BY <1>4 DEF TagsBehindCache
  <2>2. CASE \A x \in cur.asked : got[x] # 0
    <3>1. changed[h] <= cur.at
      BY <1>2, <1>4, <1>5, <1>6, <2>1, <2>2
    <3>. QED
      BY <1>3, <1>4, <1>5, <2>2, <3>1
  <2>3. CASE ~\A x \in cur.asked : got[x] # 0
    <3>1. changed[h] <= ctag \/ changed[h] <= token
      BY <1>2, <2>1, <2>3
    <3>2. cached[h] = Version(h)
      BY <1>5, <3>1
    <3>3. got[h] \in {0, Version(h)}
      BY <1>3, <1>4, <1>6, <3>1
    <3>. QED
      BY <1>4, <3>2, <3>3
  <2>. QED
    BY <2>2, <2>3
<1>8. TellsTheTruth
  <2>1. SUFFICES ASSUME NEW h \in Hrefs \ (masked \union omitted'), changed[h] <= cur.since
                 PROVE  cached'[h] = Version(h)
    BY <1>2 DEF TellsTheTruth
  <2>2. changed[h] <= cur.at
    BY <1>4, <1>6, <2>1
  <2>. QED
    BY <1>3, <1>4, <1>5, <2>1, <2>2
<1>. QED
  BY <1>2, <1>7, <1>8, ReadIdle

LEMMA MultigetAnsweredRead ==
    ASSUME ReadInv, Typed, NEW op, MultigetAnswered(op)
    PROVE  ReadInv' /\ (cur' = Idle => TellsTheTruth)
<1>1. PICK hs, left :
        /\ hs \in SUBSET cur.want /\ left \in SUBSET hs
        /\ omitted' = omitted \union left
        /\ IF hs # cur.want THEN BatchAnswered(hs, left)
           ELSE IF cur.phase = "get" THEN ProcessFetchedItems(op, Got(hs, left))
           ELSE CompleteDelta(op, Got(hs, left))
  BY DEF MultigetAnswered
<1>2. /\ Reading /\ (cur.phase = "get" \/ cur.phase = "delta")
      /\ UNCHANGED <<seq, changed, there, pendingCtag, masked>>
  BY DEF MultigetAnswered, InPhase, Reading
<1>3. CASE hs # cur.want
  <2>1. /\ cur' = [cur EXCEPT !.want = @ \ hs, !.got = Got(hs, left)]
        /\ cur \in CurType(seq)
    BY <1>1, <1>3 DEF BatchAnswered, Goes, Typed, FetchTyped
  <2>2. cur'.phase = cur.phase
    BY <2>1 DEF CurType
  <2>3. cur' # Idle
    BY <1>2, <2>2 DEF Idle
  <2>. QED
    BY <1>1, <1>2, <1>3, <2>3, BatchAnsweredRead
<1>4. CASE hs = cur.want /\ cur.phase = "get"
  BY <1>1, <1>2, <1>4, ProcessFetchedItemsRead
<1>5. CASE hs = cur.want /\ cur.phase = "delta"
  BY <1>1, <1>2, <1>5, CompleteDeltaRead
<1>. QED
  BY <1>2, <1>3, <1>4, <1>5

(* A report is complete: what it does not list did not change since the    *)
(* token, when the cache was in step.                                      *)
LEMMA ReportAnsweredRead ==
    ASSUME ReadInv, Typed, NEW op, ReportAnswered(op)
    PROVE  ReadInv' /\ (cur' = Idle => TellsTheTruth)
<1>. DEFINE fresher == {h \in Hrefs : there[h] /\ changed[h] > cur.from}
<1>1. /\ cur.phase = "report" /\ cur \in CurType(seq) /\ cur.got = Nothing /\ seq \in Nat
      /\ UNCHANGED <<seq, changed, there, omitted, masked>>
      /\ cached' = Dropped(cached, Tombstones)
  BY DEF ReportAnswered, InPhase, Typed, FetchTyped, ReadInv, CompareSound, Erase, ServerTyped
<1>2. \A h \in Hrefs : /\ changed[h] \in 1..seq /\ Version(h)' = Version(h)
                       /\ there[h] => Version(h) = changed[h]
                       /\ ~there[h] => Version(h) = 0
  BY <1>1, Versions DEF Typed, Version
<1>3. \A h \in Hrefs : cached'[h] = IF ~there[h] /\ changed[h] > cur.from THEN 0 ELSE cached[h]
  BY <1>1 DEF Dropped, Tombstones
<1>4. cur.from \in Nat /\ cur.since <= seq /\ cur.fresh <= seq
  BY <1>1 DEF CurType
<1>5. \A h \in Hrefs \ masked : h \notin fresher => cached'[h] = Version(h)
  <2>1. ASSUME NEW h \in Hrefs \ masked, h \notin fresher PROVE cached'[h] = Version(h)
    <3>1. CASE changed[h] <= cur.from
      <4>1. cached[h] = Version(h)
        BY <1>1, <3>1 DEF ReadInv, CompareSound, InStep
      <4>. QED
        BY <1>2, <1>3, <1>4, <3>1, <4>1
    <3>2. CASE changed[h] > cur.from
      BY <1>2, <1>3, <2>1, <3>2
    <3>. QED
      BY <1>2, <1>4, <3>1, <3>2
  <2>. QED
    BY <2>1
<1>6. CASE fresher = {}
  <2>1. cur' = Idle /\ reported' = cached'
    BY <1>6 DEF ReportAnswered, Succeeds
  <2>2. TagsBehindCache'
    BY <1>1, <1>2, <1>5, <1>6 DEF TagsBehindCache
  <2>3. TellsTheTruth
    BY <1>1, <1>5, <1>6, <2>1 DEF TellsTheTruth
  <2>. QED
    BY <2>1, <2>2, <2>3, ReadIdle
<1>7. CASE fresher # {}
  <2>1. /\ cur' = [cur EXCEPT !.phase = "delta", !.at = seq, !.asked = fresher, !.want = fresher]
        /\ UNCHANGED <<ctag, token, pendingCtag, reported, opVars>>
    BY <1>7 DEF ReportAnswered, Goes
  <2>2. /\ cur'.phase = "delta" /\ cur'.at = seq /\ cur'.asked = fresher /\ cur'.want = fresher
        /\ cur'.got = Nothing /\ cur'.since = cur.since /\ cur'.fresh = cur.fresh
    BY <1>1, <2>1 DEF CurType
  <2>3. TagsBehindCache'
    BY <1>1, <1>2, <1>3, <2>1 DEF ReadInv, TagsBehindCache
  <2>4. TimesSound'
    BY <1>1, <1>4, <2>1, <2>2 DEF TimesSound, Typed, CacheTyped
  <2>5. GotSound'
    BY <1>1, <1>2, <2>2 DEF GotSound, Nothing
  <2>6. RestSound'
    BY <1>1, <1>2, <1>5, <2>2 DEF RestSound, Nothing
  <2>7. ListSound' /\ CompareSound' /\ ResultSound'
    BY <2>2 DEF ListSound, CompareSound, ResultSound
  <2>8. cur' # Idle
    BY <2>2 DEF Idle
  <2>. QED
    BY <2>3, <2>4, <2>5, <2>6, <2>7, <2>8 DEF ReadInv
<1>. QED
  BY <1>6, <1>7

(***************************************************************************)
(* What a fetch relies on, when an answer nobody waits for is used, when   *)
(* the calendars are discovered, and after a restart.                      *)
(***************************************************************************)
LEMMA StrayTokenRead ==
    ASSUME ReadInv, Typed, TakeToken,
           UNCHANGED <<seq, changed, there, cached, ctag, pendingCtag, cur, omitted>>
    PROVE  ReadInv'
<1>1. /\ masked \subseteq masked' /\ \A h \in Hrefs : Version(h)' = Version(h)
      /\ \A h \in Hrefs \ masked' :
            /\ cached[h] = Version(h)
            /\ Reading => cur.got[h] \in {0, Version(h)}
  BY DEF TakeToken, Unseen, Returning, Reading, Version
<1>2. TagsBehindCache' /\ CompareSound'
  BY <1>1 DEF TagsBehindCache, ReadInv, CompareSound, InStep, Nothing
<1>3. TimesSound' /\ GotSound'
  BY <1>1 DEF ReadInv, TimesSound, GotSound, Reading
<1>4. RestSound'
  BY <1>1 DEF ReadInv, RestSound, Reading
<1>5. ListSound' /\ ResultSound'
  BY <1>1 DEF ReadInv, ListSound, ResultSound
<1>. QED
  BY <1>2, <1>3, <1>4, <1>5 DEF ReadInv

LEMMA StagedRead ==
    ASSUME ReadInv, Typed, masked \subseteq masked',
           UNCHANGED <<seq, changed, there, cached, ctag, token, cur, omitted>>,
           Reading => \A h \in Hrefs \ masked' : changed[h] > cur.at => changed[h] > pendingCtag'
    PROVE  ReadInv'
<1>1. \A h \in Hrefs : Version(h)' = Version(h)
  BY DEF Version
<1>2. TagsBehindCache' /\ CompareSound'
  BY <1>1 DEF TagsBehindCache, ReadInv, CompareSound, InStep, Nothing
<1>3. TimesSound' /\ GotSound'
  BY <1>1 DEF ReadInv, TimesSound, GotSound, Reading
<1>4. RestSound'
  BY <1>1 DEF ReadInv, RestSound, Reading
<1>5. ListSound' /\ ResultSound'
  BY <1>1 DEF ReadInv, ListSound, ResultSound
<1>. QED
  BY <1>2, <1>3, <1>4, <1>5 DEF ReadInv

LEMMA DiscoveredRead == ASSUME ReadInv, Typed, Discovered PROVE ReadInv'
<1>1. /\ UNCHANGED <<seq, changed, there, cached, ctag, token, cur, omitted>>
      /\ masked' = masked \union
            (IF cur.phase \in {"get", "delta"} THEN {h \in Hrefs : changed[h] > cur.at} ELSE {})
  BY DEF Discovered
<1>. QED
  BY <1>1, StagedRead DEF Reading

LEMMA StrayAnsweredRead ==
    ASSUME ReadInv, Typed, StraySound, NEW r \in stray, StrayAnswered(r) PROVE ReadInv'
<1>1. UNCHANGED <<seq, changed, there, cached, ctag, cur, omitted>>
  BY DEF StrayAnswered
<1>2. CASE r.what = "token"
  BY <1>1, <1>2, StrayTokenRead DEF StrayAnswered
<1>3. CASE r.what # "token"
  <2>1. /\ UNCHANGED <<token, masked>> /\ pendingCtag' \in {pendingCtag, r.fresh}
    BY <1>3 DEF StrayAnswered, Stage
  <2>2. Reading => /\ r.fresh <= cur.since /\ cur.since <= cur.at
                   /\ r.fresh \in Nat /\ cur.since \in Nat /\ cur.at \in Nat
    BY DEF StraySound, Reading, ReadInv, TimesSound, Typed, ServerTyped, FetchTyped, CurType,
           StrayType
  <2>3. \A h \in Hrefs : changed[h] \in Nat
    BY DEF Typed, ServerTyped
  <2>4. Reading => \A h \in Hrefs \ masked : changed[h] > cur.at => changed[h] > pendingCtag'
    BY <2>1, <2>2, <2>3 DEF ReadInv, RestSound
  <2>. QED
    BY <1>1, <2>1, <2>4, StagedRead
<1>. QED
  BY <1>2, <1>3

LEMMA RestartRead == ASSUME ReadInv, Restart PROVE ReadInv'
<1>1. cur' = Idle /\ UNCHANGED <<changed, there, cached, ctag, token, masked>>
  BY DEF Restart
<1>2. TagsBehindCache'
  BY <1>1 DEF ReadInv, TagsBehindCache, Version
<1>. QED
  BY <1>1, <1>2, ReadIdle

(***************************************************************************)
(* The steps of a fetch: what they leave alone, and what they end.         *)
(***************************************************************************)
(* A fetch under way goes on, or ends with its operation.                  *)
GoesOn == cur'.phase # "idle" /\ cur'.since = cur.since /\ UNCHANGED <<reported, opVars>>
EndsBadly(op) == cur' = Idle /\ End(op, "failed") /\ UNCHANGED reported
EndsWell(op) == cur' = Idle /\ End(op, "succeeded")
FetchStep(op) ==
    /\ IsFetch(op) /\ Running(op) /\ cur.phase # "idle"
    /\ GoesOn \/ EndsBadly(op) \/ (EndsWell(op) /\ TellsTheTruth)

LEMMA ToGoesOn ==
    ASSUME Typed, NEW fresh, ToListing(fresh, cur) \/ ToReport(fresh, cur) PROVE GoesOn
<1>1. cur \in CurType(seq)
  BY DEF Typed, FetchTyped
<1>. QED
  BY <1>1 DEF ToListing, ToReport, Goes, GoesOn, CurType

LEMMA AfterListingEnds ==
    ASSUME Typed, NEW op, NEW result, AfterListing(op, result)
    PROVE  GoesOn \/ EndsWell(op)
<1>1. cur \in CurType(seq)
  BY DEF Typed, FetchTyped
<1>2. CASE cur' = Idle /\ End(op, "succeeded")
  BY <1>2 DEF EndsWell
<1>3. CASE cur'.phase = "token" /\ cur'.since = cur.since /\ UNCHANGED <<reported, opVars>>
  BY <1>3 DEF GoesOn
<1>. QED
  BY <1>1, <1>2, <1>3, AfterListingCur

LEMMA CtagAnsweredStep ==
    ASSUME ReadInv, Typed, NEW op, CtagAnswered(op) PROVE FetchStep(op)
<1>1. /\ IsFetch(op) /\ Running(op) /\ cur.phase = "ctag" /\ cur \in CurType(seq) /\ seq \in Nat
      /\ UNCHANGED <<changed, there, cached, masked>>
      /\ InStep(cur.stored)
  BY DEF CtagAnswered, InPhase, Typed, FetchTyped, ServerTyped, ReadInv, CompareSound
<1>2. PICK failed \in BOOLEAN :
        LET fresh == IF failed THEN 0 ELSE seq
            match == fresh # 0 /\ fresh = cur.stored
            known == IF match THEN 0 ELSE token
        IN IF match /\ cached # Nothing
           THEN Succeeds(op, cached)
           ELSE IF ~probed /\ known # 0
           THEN Goes([cur EXCEPT !.phase = "probe", !.fresh = fresh])
           ELSE ToReport(fresh, cur) \/ ToListing(fresh, cur)
  BY DEF CtagAnswered
<1>. DEFINE fresh == IF failed THEN 0 ELSE seq
<1>3. CASE Succeeds(op, cached) /\ seq = cur.stored
  <2>1. \A h \in Hrefs \ masked : cached[h] = Version(h)
    BY <1>1, <1>3 DEF InStep, Typed, ServerTyped
  <2>. QED
    BY <1>1, <1>3, <2>1 DEF Succeeds, FetchStep, EndsWell, TellsTheTruth
<1>4. CASE Goes([cur EXCEPT !.phase = "probe", !.fresh = fresh])
  <2>1. GoesOn
    BY <1>1, <1>4 DEF Goes, GoesOn, CurType
  <2>. QED
    BY <1>1, <2>1 DEF FetchStep
<1>5. CASE ToReport(fresh, cur) \/ ToListing(fresh, cur)
  BY <1>1, <1>5, ToGoesOn DEF FetchStep
<1>. QED
  BY <1>2, <1>3, <1>4, <1>5

LEMMA FetchSteps ==
    ASSUME ReadInv, Typed, EtagSound, NEW op, FetchTurn(op), ~FetchBegins(op)
    PROVE  FetchStep(op) /\ ReadInv'
<1>. USE DEF FetchStep
<1>1. cur \in CurType(seq)
  BY DEF Typed, FetchTyped
<1>2. CASE CtagAnswered(op)
  BY <1>2, CtagAnsweredRead, CtagAnsweredStep
<1>3. CASE ProbeAnswered(op)
  <2>1. ToReport(cur.fresh, cur) \/ ToListing(cur.fresh, cur)
    BY <1>3 DEF ProbeAnswered
  <2>. QED
    BY <1>3, <2>1, ToGoesOn, ProbeAnsweredRead DEF ProbeAnswered, InPhase
<1>4. CASE ListAnswered(op)
  <2>1. GoesOn \/ EndsWell(op)
    <3>1. CASE {h \in Hrefs : there[h] /\ etagCache[h] # Version(h)} # {}
      <4>1. \E l, t, a, w : cur' = [cur EXCEPT !.phase = "get", !.list = l, !.at = t,
                                                !.asked = a, !.want = w]
        BY <1>4, <3>1 DEF ListAnswered, Goes
      <4>2. cur'.phase = "get" /\ cur'.since = cur.since
        BY <1>1, <4>1 DEF CurType
      <4>. QED
        BY <1>4, <3>1, <4>2 DEF ListAnswered, Goes, GoesOn
    <3>2. CASE {h \in Hrefs : there[h] /\ etagCache[h] # Version(h)} = {}
      BY <1>4, <3>2, AfterListingEnds DEF ListAnswered
    <3>. QED
      BY <3>1, <3>2
  <2>. QED
    BY <1>4, <2>1, ListAnsweredRead DEF ListAnswered, InPhase, EndsWell
<1>5. CASE MultigetAnswered(op)
  <2>1. GoesOn \/ EndsWell(op)
    <3>1. PICK hs, left :
            IF hs # cur.want THEN BatchAnswered(hs, left)
            ELSE IF cur.phase = "get" THEN ProcessFetchedItems(op, Got(hs, left))
            ELSE CompleteDelta(op, Got(hs, left))
      BY <1>5 DEF MultigetAnswered
    <3>2. cur.phase # "idle"
      BY <1>5 DEF MultigetAnswered, InPhase
    <3>3. CASE BatchAnswered(hs, left)
      BY <1>1, <3>2, <3>3 DEF BatchAnswered, Goes, GoesOn, CurType
    <3>4. CASE ProcessFetchedItems(op, Got(hs, left))
      <4>1. \E result : AfterListing(op, result)
        BY <3>4 DEF ProcessFetchedItems
      <4>. QED
        BY <4>1, AfterListingEnds
    <3>5. CASE CompleteDelta(op, Got(hs, left))
      BY <3>5 DEF CompleteDelta, Succeeds, EndsWell
    <3>. QED
      BY <3>1, <3>3, <3>4, <3>5
  <2>. QED
    BY <1>5, <2>1, MultigetAnsweredRead DEF MultigetAnswered, InPhase, EndsWell
<1>6. CASE TokenAnswered(op)
  BY <1>6, TokenAnsweredRead DEF TokenAnswered, InPhase, Succeeds, EndsWell
<1>7. CASE ReportAnswered(op)
  <2>1. GoesOn \/ EndsWell(op)
    <3>1. CASE {h \in Hrefs : there[h] /\ changed[h] > cur.from} # {}
      <4>1. \E t, a, w : cur' = [cur EXCEPT !.phase = "delta", !.at = t, !.asked = a, !.want = w]
        BY <1>7, <3>1 DEF ReportAnswered, Goes
      <4>2. cur'.phase = "delta" /\ cur'.since = cur.since
        BY <1>1, <4>1 DEF CurType
      <4>. QED
        BY <1>7, <3>1, <4>2 DEF ReportAnswered, Goes, GoesOn
    <3>2. CASE {h \in Hrefs : there[h] /\ changed[h] > cur.from} = {}
      BY <1>7, <3>2 DEF ReportAnswered, Succeeds, EndsWell
    <3>. QED
      BY <3>1, <3>2
  <2>. QED
    BY <1>7, <2>1, ReportAnsweredRead DEF ReportAnswered, InPhase, EndsWell
<1>8. CASE ReportRefused(op)
  <2>1. ToReport(cur.fresh, cur) \/ ToListing(cur.fresh, cur)
    BY <1>8 DEF ReportRefused
  <2>. QED
    BY <1>8, <2>1, ToGoesOn, ReportRefusedRead DEF ReportRefused, InPhase
<1>9. CASE FetchFails(op)
  BY <1>9, FetchFailsRead DEF FetchFails, Fails, EndsBadly
<1>. QED
  BY <1>2, <1>3, <1>4, <1>5, <1>6, <1>7, <1>8, <1>9 DEF FetchTurn

LEMMA FetchFrame ==
    ASSUME budget \in BudgetType, NEW op, FetchTurn(op)
    PROVE  /\ UNCHANGED <<seq, changed, there, job, direct, late, stray>>
           /\ budget' \in BudgetType /\ budget'.tasks = budget.tasks /\ masked \subseteq masked'
<1>1. UNCHANGED <<seq, changed, there, job, direct, late, stray>>
  BY DEF FetchTurn, FetchBegins, CtagAnswered, ProbeAnswered, ListAnswered, MultigetAnswered,
         TokenAnswered, ReportAnswered, ReportRefused, FetchFails
<1>2. masked \subseteq masked'
  BY DEF FetchTurn, FetchBegins, CtagAnswered, ProbeAnswered, ListAnswered, MultigetAnswered,
         TokenAnswered, ReportAnswered, ReportRefused, FetchFails, TakeToken
<1>3. Spend("troubles") \/ UNCHANGED budget
  BY DEF FetchTurn, FetchBegins, CtagAnswered, ProbeAnswered, ListAnswered, MultigetAnswered,
         TokenAnswered, ReportAnswered, ReportRefused, FetchFails, Trouble, Probed
<1>. QED
  BY <1>1, <1>2, <1>3, Spent DEF What

(***************************************************************************)
(* The types and the etags, at the steps of a fetch.                       *)
(***************************************************************************)
EtagMap(n) == [Hrefs -> {Bare} \union 0..n]
LEMMA MapTypes ==
    ASSUME NEW n \in Nat
    PROVE  /\ \A f, g \in Upto(n) : Overlay(f, g) \in Upto(n)
           /\ \A f \in EtagMap(n), g \in Upto(n) : Overlay(f, g) \in EtagMap(n)
           /\ \A hs : \A f \in Upto(n) : Dropped(f, hs) \in Upto(n)
           /\ \A hs : \A f \in EtagMap(n) : Dropped(f, hs) \in EtagMap(n)
           /\ \A f \in Upto(n) : FromCache(f) \in Upto(n)
           /\ Nothing \in Upto(n) /\ Nothing \in EtagMap(n)
BY DEF Upto, EtagMap, Overlay, Dropped, FromCache, Nothing

LEMMA AnswerTypes ==
    ASSUME Typed, NEW hs, NEW left
    PROVE  Server \in Upto(seq) /\ Got(hs, left) \in Upto(seq) /\ seq \in Nat
<1>1. seq \in Nat /\ \A h \in Hrefs : Version(h) \in 0..seq
  BY DEF Typed, ServerTyped, Version
<1>2. \A h \in Hrefs : cur.got[h] \in 0..seq
  BY DEF Typed, FetchTyped, CurType, Upto
<1>. QED
  BY <1>1, <1>2 DEF Server, Got, Upto

CacheStep == CacheTyped' /\ FetchTyped' /\ EtagSound'

LEMMA IdleType == ASSUME NEW n \in Nat PROVE Idle \in CurType(n)
BY MapTypes DEF Idle, CurType, Phases

(* What may be written into the caches together.                           *)
LEMMA Overlaid ==
    ASSUME Typed, EtagSound, NEW f \in Upto(seq), NEW g \in Upto(seq), NEW old \in Upto(seq),
           NEW etags \in EtagMap(seq), \A h \in Hrefs : etags[h] \in {0, Bare, old[h]},
           cached' = Overlay(old, f), etagCache' = Overlay(etags, g),
           \A h \in Hrefs : g[h] = f[h] \/ (f[h] = 0 /\ g[h] \in {0, old[h]})
    PROVE  EtagSound'
<1>1. \A h \in Hrefs : /\ cached'[h] = IF f[h] # 0 THEN f[h] ELSE old[h]
                       /\ etagCache'[h] = IF g[h] # 0 THEN g[h] ELSE etags[h]
  BY DEF Overlay
<1>. QED
  BY <1>1 DEF EtagSound

(* The first listing of a life takes over the etags of the content on disk.*)
LEMMA Seeds ==
    ASSUME Typed, EtagSound, UNCHANGED <<seq, cached, localEtags>>,
           supports' \in BOOLEAN, probed' \in BOOLEAN,
           ctag' \in 0..seq, token' \in 0..seq, pendingCtag' \in 0..seq,
           SeedEtags \/ UNCHANGED <<seeded, etagCache>>
    PROVE  CacheTyped' /\ EtagSound'
<1>1. etagCache' = Overlay(etagCache, cached) \/ etagCache' = etagCache
  BY DEF SeedEtags
<1>2. seq \in Nat /\ cached \in Upto(seq) /\ etagCache \in EtagMap(seq)
  BY DEF Typed, ServerTyped, CacheTyped, EtagMap
<1>3. etagCache' \in EtagMap(seq)
  BY <1>1, <1>2, MapTypes
<1>4. EtagSound'
  BY <1>1, <1>2 DEF EtagSound, Overlay
<1>5. CacheTyped'
  BY <1>3 DEF Typed, CacheTyped, EtagMap, SeedEtags
<1>. QED
  BY <1>4, <1>5

LEMMA FetchBeginsTypes ==
    ASSUME Typed, EtagSound, NEW op, FetchBegins(op) PROVE CacheStep
<1>1. /\ UNCHANGED <<seq, cached, localEtags, supports, probed, ctag, token, pendingCtag, stray,
                     reported, masked>>
      /\ omitted' = {} /\ (SeedEtags \/ UNCHANGED <<seeded, etagCache>>)
      /\ \/ cur' = [[Idle EXCEPT !.since = seq] EXCEPT !.phase = "list"]
         \/ cur' = [[Idle EXCEPT !.since = seq] EXCEPT !.phase = "ctag", !.stored = ctag]
  BY DEF FetchBegins
<1>2. seq \in Nat /\ ctag \in 0..seq /\ Nothing \in Upto(seq)
  BY MapTypes DEF Typed, ServerTyped, CacheTyped
<1>3. cur' \in CurType(seq)
  <2>1. Idle \in CurType(seq)
    BY <1>2, IdleType
  <2>2. PICK c : c = [Idle EXCEPT !.since = seq]
    OBVIOUS
  <2>3. c \in CurType(seq)
    BY <1>2, <2>1, <2>2 DEF CurType
  <2>4. \/ cur' = [c EXCEPT !.phase = "list"]
        \/ cur' = [c EXCEPT !.phase = "ctag", !.stored = ctag]
    BY <1>1, <2>2
  <2>. QED
    BY <1>2, <2>3, <2>4 DEF CurType, Phases
<1>4. FetchTyped'
  BY <1>1, <1>3 DEF Typed, FetchTyped
<1>5. CacheTyped' /\ EtagSound'
  BY <1>1, Seeds DEF Typed, CacheTyped
<1>. QED
  BY <1>4, <1>5 DEF CacheStep

LEMMA TurnTypes ==
    ASSUME Typed, EtagSound, NEW fresh \in 0..seq, ToListing(fresh, cur) \/ ToReport(fresh, cur),
           UNCHANGED <<seq, cached, localEtags, stray, omitted, masked>>,
           ctag' \in 0..seq, token' \in 0..seq, supports' \in BOOLEAN, probed' \in BOOLEAN
    PROVE  CacheStep
<1>1. /\ pendingCtag' \in {pendingCtag, fresh} /\ (SeedEtags \/ UNCHANGED <<seeded, etagCache>>)
      /\ reported' = reported
      /\ \/ cur' = [cur EXCEPT !.phase = "list", !.fresh = fresh]
         \/ cur' = [cur EXCEPT !.phase = "report", !.fresh = fresh, !.from = token]
  BY DEF ToListing, ToReport, Stage, Goes
<1>2. cur \in CurType(seq) /\ token \in 0..seq
  BY DEF Typed, FetchTyped, CacheTyped
<1>3. cur' \in CurType(seq)
  BY <1>1, <1>2 DEF CurType, Phases
<1>4. FetchTyped'
  BY <1>1, <1>3 DEF Typed, FetchTyped
<1>5. pendingCtag' \in 0..seq
  BY <1>1 DEF Typed, CacheTyped
<1>. QED
  BY <1>1, <1>4, <1>5, Seeds DEF CacheStep

LEMMA CtagAnsweredTypes ==
    ASSUME Typed, EtagSound, NEW op, CtagAnswered(op) PROVE CacheStep
<1>1. PICK failed \in BOOLEAN :
        LET fresh == IF failed THEN 0 ELSE seq
            match == fresh # 0 /\ fresh = cur.stored
            known == IF match THEN 0 ELSE token
        IN IF match /\ cached # Nothing
           THEN Succeeds(op, cached) /\ UNCHANGED <<tagVars, factVars, etagCache>>
           ELSE /\ IF match THEN ClearTags ELSE UNCHANGED tagVars
                /\ IF ~probed /\ known # 0
                   THEN /\ Goes([cur EXCEPT !.phase = "probe", !.fresh = fresh])
                        /\ UNCHANGED <<seeded, pendingCtag, etagCache>>
                   ELSE IF supports /\ known # 0 THEN ToReport(fresh, cur)
                   ELSE ToListing(fresh, cur)
                /\ UNCHANGED <<supports, probed>>
  BY DEF CtagAnswered
<1>. DEFINE fresh == IF failed THEN 0 ELSE seq
<1>2. /\ UNCHANGED <<seq, cached, localEtags, stray, omitted, masked>>
      /\ UNCHANGED <<supports, probed>>
      /\ ctag' \in {0, ctag} /\ token' \in {0, token}
  BY <1>1 DEF CtagAnswered, ClearTags
<1>3. fresh \in 0..seq /\ ctag' \in 0..seq /\ token' \in 0..seq /\ cur \in CurType(seq)
  BY <1>2 DEF Typed, ServerTyped, CacheTyped, FetchTyped
<1>4. CASE UNCHANGED <<seeded, pendingCtag, etagCache>>
           /\ (Succeeds(op, cached) \/ Goes([cur EXCEPT !.phase = "probe", !.fresh = fresh]))
  <2>1. CacheTyped' /\ EtagSound'
    BY <1>2, <1>3, <1>4 DEF Typed, CacheTyped, EtagSound
  <2>2. cur' \in CurType(seq) /\ (reported' = reported \/ reported' = cached)
    <3>1. Idle \in CurType(seq)
      BY IdleType DEF Typed, ServerTyped
    <3>2. CASE Succeeds(op, cached)
      BY <3>1, <3>2 DEF Succeeds
    <3>3. CASE Goes([cur EXCEPT !.phase = "probe", !.fresh = fresh])
      BY <1>3, <3>3 DEF Goes, CurType, Phases
    <3>. QED
      BY <1>4, <3>2, <3>3
  <2>3. FetchTyped'
    BY <1>2, <2>2 DEF Typed, FetchTyped, CacheTyped
  <2>. QED
    BY <2>1, <2>3 DEF CacheStep
<1>5. CASE ToReport(fresh, cur) \/ ToListing(fresh, cur)
  <2>1. supports' \in BOOLEAN /\ probed' \in BOOLEAN
    BY <1>2 DEF Typed, CacheTyped
  <2>. QED
    BY <1>2, <1>3, <1>5, <2>1, TurnTypes
<1>. QED
  BY <1>1, <1>4, <1>5

LEMMA ProbeAnsweredTypes ==
    ASSUME Typed, EtagSound, NEW op, ProbeAnswered(op) PROVE CacheStep
<1>1. /\ UNCHANGED <<seq, cached, localEtags, stray, omitted, masked, ctag, token>>
      /\ ToReport(cur.fresh, cur) \/ ToListing(cur.fresh, cur)
      /\ \E failed \in BOOLEAN : Probed(failed)
  BY DEF ProbeAnswered
<1>2. supports' \in BOOLEAN /\ probed' \in BOOLEAN
  BY <1>1, RemoteAssumption DEF Probed, Typed, CacheTyped
<1>3. cur.fresh \in 0..seq /\ ctag' \in 0..seq /\ token' \in 0..seq
  BY <1>1 DEF Typed, CacheTyped, FetchTyped, CurType
<1>. QED
  BY <1>1, <1>2, <1>3, TurnTypes

LEMMA ReportRefusedTypes ==
    ASSUME Typed, EtagSound, NEW op, ReportRefused(op) PROVE CacheStep
<1>1. /\ UNCHANGED <<seq, cached, localEtags, stray, omitted, masked, ctag, supports, probed>>
      /\ token' \in {0, token} /\ ToListing(cur.fresh, cur)
  BY DEF ReportRefused
<1>2. /\ cur.fresh \in 0..seq /\ ctag' \in 0..seq /\ token' \in 0..seq
      /\ supports' \in BOOLEAN /\ probed' \in BOOLEAN
  BY <1>1 DEF Typed, ServerTyped, CacheTyped, FetchTyped, CurType
<1>. QED
  BY <1>1, <1>2, TurnTypes

LEMMA AfterListingTypes ==
    ASSUME Typed, NEW op, NEW result \in Upto(seq), AfterListing(op, result)
    PROVE  cur' \in CurType(seq) /\ (reported' = reported \/ reported' = result)
<1>1. cur \in CurType(seq) /\ seq \in Nat
  BY DEF Typed, ServerTyped, FetchTyped
<1>2. CASE cur' = Idle /\ reported' = result
  BY <1>1, <1>2, IdleType
<1>3. CASE cur' = [cur EXCEPT !.phase = "token", !.result = result] /\ reported' = reported
  BY <1>1, <1>3 DEF CurType, Phases
<1>. QED
  BY <1>1, <1>2, <1>3, AfterListingCur

LEMMA ListAnsweredTypes ==
    ASSUME Typed, EtagSound, NEW op, ListAnswered(op) PROVE CacheStep
<1>. DEFINE gone == {h \in Hrefs : etagCache[h] # 0 /\ ~there[h]}
            dirty == {h \in Hrefs : there[h] /\ etagCache[h] # Version(h)}
            served == FromCache(Server)
<1>1. /\ UNCHANGED <<seq, stray, omitted, seeded, supports, probed, pendingCtag, token>>
      /\ masked' = masked \union Orphans /\ cached' = Dropped(cached, gone)
  BY DEF ListAnswered, Erase, CommitPending
<1>2. /\ seq \in Nat /\ cur \in CurType(seq) /\ Server \in Upto(seq) /\ served \in Upto(seq)
      /\ cached \in Upto(seq) /\ localEtags \in Upto(seq) /\ etagCache \in EtagMap(seq)
  <2>1. Server \in Upto(seq) /\ seq \in Nat
    BY AnswerTypes
  <2>. QED
    BY <2>1, MapTypes DEF Typed, FetchTyped, CacheTyped, EtagMap
<1>3. /\ Dropped(cached, gone) \in Upto(seq) /\ Dropped(localEtags, gone) \in Upto(seq)
      /\ Dropped(etagCache, gone) \in EtagMap(seq)
  BY <1>2, MapTypes
<1>4. CASE dirty # {}
  <2>1. /\ cur' = [cur EXCEPT !.phase = "get", !.list = Server, !.at = seq,
                              !.asked = dirty, !.want = dirty]
        /\ UNCHANGED <<ctag, reported>>
        /\ etagCache' = Dropped(etagCache, gone) /\ localEtags' = Dropped(localEtags, gone)
    BY <1>4 DEF ListAnswered, Goes, Erase
  <2>2. cur' \in CurType(seq)
    <3>1. dirty \in SUBSET Hrefs /\ seq \in 0..seq /\ "get" \in Phases
      BY <1>2 DEF Phases
    <3>. HIDE DEF dirty
    <3>. QED
      BY <1>2, <2>1, <3>1 DEF CurType
  <2>3. FetchTyped'
    BY <1>1, <2>1, <2>2 DEF Typed, FetchTyped, Orphans
  <2>4. CacheTyped'
    BY <1>1, <1>3, <2>1 DEF Typed, CacheTyped, EtagMap
  <2>5. EtagSound'
    BY <1>1, <2>1 DEF EtagSound, Dropped
  <2>. QED
    BY <2>3, <2>4, <2>5 DEF CacheStep
<1>5. CASE dirty = {}
  <2>1. /\ AfterListing(op, served) /\ ctag' \in {ctag, pendingCtag}
        /\ etagCache' = Overlay(Dropped(etagCache, gone), served)
        /\ localEtags' = Overlay(Dropped(localEtags, gone), served)
    BY <1>5 DEF ListAnswered, CommitPending
  <2>2. /\ etagCache' \in EtagMap(seq) /\ localEtags' \in Upto(seq)
        /\ cur' \in CurType(seq) /\ (reported' = reported \/ reported' = served)
    BY <1>2, <1>3, <2>1, MapTypes, AfterListingTypes
  <2>3. FetchTyped'
    BY <1>1, <1>2, <2>2 DEF Typed, FetchTyped, Orphans
  <2>4. CacheTyped'
    BY <1>1, <1>3, <2>1, <2>2 DEF Typed, CacheTyped, EtagMap
  <2>5. EtagSound'
    <3>1. \A h \in Hrefs : /\ cached'[h] = IF h \in gone THEN 0 ELSE cached[h]
                           /\ etagCache'[h] = IF served[h] # 0 THEN served[h]
                                              ELSE IF h \in gone THEN 0 ELSE etagCache[h]
                           /\ served[h] # 0 => served[h] = cached[h] /\ there[h]
      BY <1>1, <2>1 DEF Dropped, Overlay, FromCache, Server, Version
    <3>. QED
      BY <3>1 DEF EtagSound
  <2>. QED
    BY <2>3, <2>4, <2>5 DEF CacheStep
<1>. QED
  BY <1>4, <1>5

LEMMA MultigetAnsweredTypes ==
    ASSUME ReadInv, Typed, EtagSound, NEW op, MultigetAnswered(op) PROVE CacheStep
<1>1. PICK hs, left :
        /\ hs \in SUBSET cur.want /\ left \in SUBSET hs
        /\ omitted' = omitted \union left
        /\ IF hs # cur.want THEN BatchAnswered(hs, left)
           ELSE IF cur.phase = "get" THEN ProcessFetchedItems(op, Got(hs, left))
           ELSE CompleteDelta(op, Got(hs, left))
  BY DEF MultigetAnswered
<1>2. UNCHANGED <<seq, stray, masked, seeded, supports, probed, pendingCtag>>
  BY DEF MultigetAnswered
<1>3. PICK got : got = Got(hs, left)
  OBVIOUS
<1>4. /\ seq \in Nat /\ cur \in CurType(seq) /\ got \in Upto(seq)
      /\ cached \in Upto(seq) /\ localEtags \in Upto(seq) /\ etagCache \in EtagMap(seq)
  BY <1>3, AnswerTypes DEF Typed, FetchTyped, CacheTyped, EtagMap
<1>5. omitted' \subseteq Hrefs
  BY <1>1, <1>4 DEF Typed, FetchTyped, CurType
<1>6. Reading /\ UNCHANGED <<changed, there>>
  BY DEF MultigetAnswered, InPhase, Reading
<1>7. CASE BatchAnswered(hs, left)
  <2>1. /\ cur' = [cur EXCEPT !.want = @ \ hs, !.got = got]
        /\ UNCHANGED <<cached, etagCache, localEtags, ctag, token, reported>>
    BY <1>3, <1>7 DEF BatchAnswered, Goes
  <2>2. cur' \in CurType(seq)
    BY <1>4, <2>1 DEF CurType
  <2>3. FetchTyped'
    BY <1>2, <1>5, <2>1, <2>2 DEF Typed, FetchTyped
  <2>4. CacheTyped' /\ EtagSound'
    BY <1>2, <2>1 DEF Typed, CacheTyped, EtagSound
  <2>. QED
    BY <2>3, <2>4 DEF CacheStep
<1>8. CASE ProcessFetchedItems(op, got) /\ cur.phase = "get"
  <2>. DEFINE result == [h \in Hrefs |->
            IF cur.list[h] = 0 THEN 0
            ELSE IF got[h] # 0 THEN got[h] ELSE FromCache(cur.list)[h]]
  <2>1. /\ cached' = Overlay(cached, got) /\ etagCache' = Overlay(etagCache, result)
        /\ localEtags' = Overlay(localEtags, result)
        /\ ctag' \in {ctag, pendingCtag} /\ token' = token /\ AfterListing(op, result)
    BY <1>8 DEF ProcessFetchedItems, CommitPending
  <2>2. \A h \in Hrefs : got[h] # 0 => h \in cur.asked
    BY <1>1, <1>3, <1>6, GotNow
  <2>3. /\ result \in Upto(seq)
        /\ \A h \in Hrefs : result[h] = got[h] \/ (got[h] = 0 /\ result[h] \in {0, cached[h]})
    <3>1. cur.list \in Upto(seq)
      BY <1>4 DEF CurType
    <3>2. FromCache(cur.list) \in Upto(seq)
      BY <1>4, <3>1, MapTypes
    <3>3. \A h \in Hrefs : FromCache(cur.list)[h] \in {0, cached[h]}
      BY DEF FromCache
    <3>4. \A h \in Hrefs : got[h] # 0 => cur.list[h] # 0
      BY <1>8, <2>2 DEF ReadInv, ListSound
    <3>. QED
      BY <1>4, <3>2, <3>3, <3>4 DEF Upto
  <2>. HIDE DEF result
  <2>4. EtagSound'
    BY <1>4, <2>1, <2>3, Overlaid DEF EtagSound
  <2>5. /\ cached' \in Upto(seq) /\ localEtags' \in Upto(seq) /\ etagCache' \in EtagMap(seq)
        /\ cur' \in CurType(seq) /\ (reported' = reported \/ reported' = result)
    BY <1>4, <2>1, <2>3, MapTypes, AfterListingTypes
  <2>6. FetchTyped'
    BY <1>2, <1>5, <2>3, <2>5 DEF Typed, FetchTyped
  <2>7. CacheTyped'
    BY <1>2, <2>1, <2>5 DEF Typed, CacheTyped, EtagMap
  <2>. QED
    BY <2>4, <2>6, <2>7 DEF CacheStep
<1>9. CASE CompleteDelta(op, got)
  <2>1. /\ cached' = Overlay(cached, got) /\ etagCache' = Overlay(etagCache, got)
        /\ localEtags' = Overlay(localEtags, got)
        /\ ctag' \in {ctag, pendingCtag, cur.fresh} /\ token' \in {token, cur.at}
        /\ cur' = Idle /\ reported' = cached'
    BY <1>9 DEF CompleteDelta, Succeeds
  <2>2. EtagSound'
    BY <1>4, <2>1, Overlaid DEF EtagSound
  <2>3. /\ cached' \in Upto(seq) /\ localEtags' \in Upto(seq) /\ etagCache' \in EtagMap(seq)
        /\ cur' \in CurType(seq) /\ cur.fresh \in 0..seq /\ cur.at \in 0..seq
    BY <1>4, <2>1, MapTypes, IdleType DEF CurType
  <2>4. FetchTyped'
    BY <1>2, <1>5, <2>1, <2>3 DEF Typed, FetchTyped
  <2>5. CacheTyped'
    BY <1>2, <2>1, <2>3 DEF Typed, CacheTyped, EtagMap
  <2>. QED
    BY <2>2, <2>4, <2>5 DEF CacheStep
<1>. QED
  BY <1>1, <1>3, <1>7, <1>8, <1>9

LEMMA TokenAnsweredTypes ==
    ASSUME Typed, EtagSound, NEW op, TokenAnswered(op) PROVE CacheStep
<1>1. /\ UNCHANGED <<seq, cached, etagCache, localEtags, seeded, supports, probed, pendingCtag,
                     ctag, stray, omitted>>
      /\ token' \in {token, seq} /\ masked' \in {masked, masked \union Unseen}
      /\ cur' = Idle /\ reported' = cur.result
  BY DEF TokenAnswered, TakeToken, Succeeds
<1>2. seq \in Nat /\ Idle \in CurType(seq) /\ cur.result \in Upto(seq) /\ Unseen \subseteq Hrefs
  BY IdleType DEF Typed, ServerTyped, FetchTyped, CurType, Unseen, Returning
<1>3. FetchTyped'
  BY <1>1, <1>2 DEF Typed, FetchTyped
<1>4. CacheTyped' /\ EtagSound'
  BY <1>1, <1>2 DEF Typed, CacheTyped, EtagSound
<1>. QED
  BY <1>3, <1>4 DEF CacheStep

(* Erasing takes the content and the etag together.                        *)
LEMMA Erased ==
    ASSUME Typed, EtagSound, NEW hs, Erase(hs)
    PROVE  /\ cached' \in Upto(seq) /\ localEtags' \in Upto(seq) /\ etagCache' \in EtagMap(seq)
           /\ \A h \in Hrefs : etagCache'[h] \in {0, Bare, cached'[h]}
<1>1. /\ seq \in Nat /\ cached \in Upto(seq) /\ localEtags \in Upto(seq)
      /\ etagCache \in EtagMap(seq)
  BY DEF Typed, ServerTyped, CacheTyped, EtagMap
<1>. QED
  BY <1>1, MapTypes DEF Erase, EtagSound, Dropped

LEMMA ReportAnsweredTypes ==
    ASSUME Typed, EtagSound, NEW op, ReportAnswered(op) PROVE CacheStep
<1>. DEFINE fresher == {h \in Hrefs : there[h] /\ changed[h] > cur.from}
<1>1. /\ UNCHANGED <<seq, seeded, supports, probed, pendingCtag, stray, omitted, masked>>
      /\ Erase(Tombstones)
      /\ \/ /\ token' = seq /\ ctag' \in {ctag, cur.fresh} /\ cur' = Idle /\ reported' = cached'
         \/ /\ cur' = [cur EXCEPT !.phase = "delta", !.at = seq, !.asked = fresher,
                                   !.want = fresher]
            /\ UNCHANGED <<reported, token, ctag>>
  BY DEF ReportAnswered, Succeeds, Goes
<1>2. /\ seq \in Nat /\ Idle \in CurType(seq) /\ cur \in CurType(seq) /\ cur.fresh \in 0..seq
      /\ token \in 0..seq /\ ctag \in 0..seq
  BY IdleType DEF Typed, ServerTyped, FetchTyped, CacheTyped, CurType
<1>3. /\ cached' \in Upto(seq) /\ localEtags' \in Upto(seq) /\ etagCache' \in EtagMap(seq)
      /\ EtagSound'
  BY <1>1, Erased DEF EtagSound
<1>4. cur' \in CurType(seq) /\ token' \in 0..seq /\ ctag' \in 0..seq
  <2>1. fresher \in SUBSET Hrefs /\ seq \in 0..seq /\ "delta" \in Phases
    BY <1>2 DEF Phases
  <2>. HIDE DEF fresher
  <2>2. cur' \in CurType(seq)
    BY <1>1, <1>2, <2>1 DEF CurType
  <2>. QED
    BY <1>1, <1>2, <2>1, <2>2
<1>5. FetchTyped'
  BY <1>1, <1>3, <1>4 DEF Typed, FetchTyped
<1>6. CacheTyped'
  BY <1>1, <1>3, <1>4 DEF Typed, CacheTyped, EtagMap
<1>. QED
  BY <1>3, <1>5, <1>6 DEF CacheStep

LEMMA FetchFailsTypes ==
    ASSUME Typed, EtagSound, NEW op, FetchFails(op) PROVE CacheStep
<1>1. /\ UNCHANGED <<seq, tagVars, cacheVars, factVars, stray, omitted, masked, reported>>
      /\ cur' = Idle
  BY DEF FetchFails, Fails
<1>2. cur' \in CurType(seq)
  BY <1>1, IdleType DEF Typed, ServerTyped
<1>. QED
  BY <1>1, <1>2 DEF CacheStep, Typed, FetchTyped, CacheTyped, EtagSound

LEMMA FetchTypes ==
    ASSUME ReadInv, Typed, EtagSound, NEW op, FetchTurn(op)
    PROVE  Typed' /\ EtagSound'
<1>1. CacheStep
  BY FetchBeginsTypes, CtagAnsweredTypes, ProbeAnsweredTypes, ListAnsweredTypes,
     MultigetAnsweredTypes, TokenAnsweredTypes, ReportAnsweredTypes, ReportRefusedTypes,
     FetchFailsTypes DEF FetchTurn
<1>2. /\ UNCHANGED <<seq, changed, there, job, direct, late, stray>> /\ budget' \in BudgetType
  BY FetchFrame DEF Typed, ServerTyped
<1>3. ServerTyped' /\ WritesTyped'
  BY <1>2 DEF Typed, ServerTyped, WritesTyped
<1>. QED
  BY <1>1, <1>3 DEF CacheStep, Typed

(***************************************************************************)
(* The operation whose turn it is.                                         *)
(***************************************************************************)
LEMMA RunsAlone ==
    ASSUME OpInv, UnderWay, NEW op \in Ops,
           opState[op] = "running" \/ (op \in posted /\ opState[op] = "pending")
    PROVE  /\ inFlight = op
           /\ opState[op] = "pending" => cur.phase = "idle" /\ ~Writing
           /\ ~IsFetch(op) => cur.phase = "idle"
           /\ IsFetch(op) => ~Writing
<1>1. inFlight = op /\ inFlight # "dangling"
  BY OperationAssumption DEF OpInv, OneAtATime
<1>. QED
  BY <1>1 DEF UnderWay, Runs

LEMMA EndLeaves ==
    ASSUME OpInv, NEW op \in Ops, NEW outcome, End(op, outcome)
    PROVE  /\ opState'[op] = outcome /\ \A o \in Ops : o # op => opState'[o] = opState[o]
           /\ inFlight # op /\ inFlight # NoOp => inFlight' = inFlight
<1>1. opState'[op] = outcome /\ \A o \in Ops : o # op => opState'[o] = opState[o]
  BY DEF End, OpInv, OpTypeOK
<1>2. inFlight # op /\ inFlight # NoOp => inFlight' = inFlight
  BY DEF End, Settled, MaybeStartNext
<1>. QED
  BY <1>1, <1>2

LEMMA DeleteLeaves ==
    ASSUME OpInv, NEW op \in Ops, DeleteOp(op)
    PROVE  /\ opState'[op] = "deleted" /\ \A o \in Ops : o # op => opState'[o] = opState[o]
           /\ inFlight = op => inFlight' = "dangling"
           /\ inFlight # op /\ inFlight # NoOp => inFlight' = inFlight
BY DEF DeleteOp, MaybeStartNext, OpInv, OpTypeOK

LEMMA EnqueueLeaves ==
    ASSUME OpInv, NEW op \in Ops, Enqueue(op)
    PROVE  /\ opState'[op] = "pending" /\ \A o \in Ops : o # op => opState'[o] = opState[o]
           /\ inFlight # NoOp => inFlight' = inFlight
BY DEF Enqueue, MaybeStartNext, OpInv, OpTypeOK

(* Nothing becomes under way, and what is stays so: the operation that     *)
(* moves is not the one that runs.                                         *)
LEMMA UnderWayStays ==
    ASSUME UnderWay, budget'.tasks = budget.tasks, UNCHANGED <<opState, inFlight>>,
           cur'.phase # "idle" => cur.phase # "idle", Writing' => Writing
    PROVE  UnderWay'
<1>1. \A op : IsFetch(op)' = IsFetch(op)
  BY SameTasks
<1>2. Runs' = Runs
  BY DEF Runs
<1>. QED
  BY <1>1, <1>2 DEF UnderWay

LEMMA UnderWayElsewhere ==
    ASSUME OpInv, UnderWay, budget'.tasks = budget.tasks,
           NEW op \in Ops, opState[op] # "running",
           \A o \in Ops : o # op => opState'[o] = opState[o],
           inFlight # op /\ inFlight # NoOp => inFlight' = inFlight,
           cur'.phase # "idle" => cur.phase # "idle", Writing' => Writing
    PROVE  UnderWay'
<1>1. \A o : IsFetch(o)' = IsFetch(o)
  BY SameTasks
<1>2. NoOp \notin Ops /\ "dangling" \notin Ops /\ NoOp # "dangling"
  BY OperationAssumption
<1>3. Runs => inFlight # op /\ inFlight # NoOp
  BY <1>2 DEF Runs
<1>4. Runs => Runs' /\ inFlight' = inFlight
  BY <1>3 DEF Runs
<1>5. inFlight = "dangling" => inFlight' = "dangling"
  BY <1>2
<1>. QED
  BY <1>1, <1>4, <1>5 DEF UnderWay

LEMMA NothingUnderWay == ASSUME cur'.phase = "idle", ~Writing' PROVE UnderWay'
BY DEF UnderWay

(***************************************************************************)
(* The writes that are on their way.                                       *)
(***************************************************************************)
LEMMA InFlightStages == InFlight = {"sent", "ok", "no"}
BY DEF InFlight

(* No item gets its answer at the server, and no tag rises.                *)
Unanswered(item) ==
    /\ item.stage # "ok" /\ item.kind \in Kind
    /\ item.stage \in InFlight => item.kind # "none"
LEMMA JobKept ==
    ASSUME JobSound, Typed, UNCHANGED <<changed, there>>, masked \subseteq masked',
           ctag' \in {0, ctag}, token' \in {0, token},
           \A h \in Hrefs : job'[h] = job[h] \/ Unanswered(job'[h])
    PROVE  JobSound'
<1>1. /\ \A h \in Hrefs : changed[h] \in Nat /\ changed[h] >= 1 /\ job[h].version \in Nat
      /\ ctag \in Nat /\ token \in Nat
  BY DEF Typed, ServerTyped, CacheTyped, WritesTyped, JobType
<1>2. ASSUME NEW h \in Hrefs
      PROVE  /\ job'[h].kind # "put" /\ (job'[h].stage \in InFlight => job'[h].kind # "none")
             /\ job'[h].stage = "ok" =>
                   /\ Made(job[h], h)' /\ ctag' < job'[h].version
                   /\ h \notin masked' /\ job'[h].version < changed'[h] => changed'[h] > token'
  <2>1. CASE job'[h] = job[h]
    BY <1>1, <2>1 DEF JobSound, Made
  <2>2. CASE Unanswered(job'[h])
    BY <2>2 DEF Unanswered, Kind
  <2>. QED
    BY <2>1, <2>2
<1>. QED
  BY <1>2 DEF JobSound

LEMMA JobIdle == ASSUME JobSound, ~Writing, job' = job PROVE JobSound'
BY DEF JobSound, Writing, InFlight

(* A token is taken: what waits with an older version is masked.           *)
LEMMA JobMasked ==
    ASSUME JobSound, Typed, TakeToken, UNCHANGED <<changed, there, ctag, job>> PROVE JobSound'
<1>1. \A h \in Hrefs \ masked' : ~(job[h].stage = "ok" /\ job[h].version < changed[h])
  BY DEF TakeToken, Unseen, Returning
<1>. QED
  BY <1>1 DEF JobSound, Made

(* An item changes at the server, perhaps through its own write.           *)
LEMMA JobChanged ==
    ASSUME JobSound, Typed, NEW x \in Hrefs, NEW present \in BOOLEAN, Change(x, present),
           UNCHANGED <<ctag, token>>,
           \A h \in Hrefs : job'[h] = job[h] \/
              (/\ h = x /\ job'[h].stage = "ok" /\ job'[h].version = seq + 1
               /\ job'[h].kind \notin {"put", "none"} /\ present = (job'[h].kind # "delete"))
    PROVE  JobSound'
<1>1. /\ seq \in Nat /\ changed'[x] = seq + 1 /\ there'[x] = present
      /\ ctag \in 0..seq /\ token \in 0..seq
      /\ \A h \in Hrefs : /\ changed[h] \in Nat /\ job[h].version \in 0..seq
                          /\ h # x => changed'[h] = changed[h] /\ there'[h] = there[h]
                                      /\ (h \in masked' <=> h \in masked)
  BY DEF Change, Typed, ServerTyped, CacheTyped, WritesTyped, JobType
<1>2. ASSUME NEW h \in Hrefs
      PROVE  /\ job'[h].kind # "put" /\ (job'[h].stage \in InFlight => job'[h].kind # "none")
             /\ job'[h].stage = "ok" =>
                   /\ Made(job[h], h)' /\ ctag' < job'[h].version
                   /\ h \notin masked' /\ job'[h].version < changed'[h] => changed'[h] > token'
  <2>1. CASE job'[h] = job[h] /\ h # x
    BY <1>1, <2>1 DEF JobSound, Made
  <2>2. CASE job'[h] = job[h] /\ h = x
    BY <1>1, <2>2 DEF JobSound, Made
  <2>3. CASE job'[h] # job[h]
    BY <1>1, <2>3 DEF Made
  <2>. QED
    BY <2>1, <2>2, <2>3
<1>. QED
  BY <1>2 DEF JobSound

(* The same of the writes outside the queue.                               *)
DirectRow(d, h) ==
    /\ d.by = "none" <=> d.stage = "idle"
    /\ d.by = "batch" => d.kind \in {"create", "update", "delete"}
    /\ d.by = "remove" => d.kind = "delete"
    /\ d.by = "call" => d.kind \in {"put", "update", "delete"}
    /\ d.stage = "ok" => Made(d, h)
LEMMA DirectRows == DirectSound <=> \A h \in Hrefs : DirectRow(direct[h], h)
BY DEF DirectSound, DirectRow

LEMMA DirectKept ==
    ASSUME DirectSound, UNCHANGED <<changed, there>>,
           \A h \in Hrefs : direct'[h] = direct[h] \/
              (direct'[h].stage # "ok" /\ DirectRow(direct'[h], h))
    PROVE  DirectSound'
<1>1. ASSUME NEW h \in Hrefs PROVE DirectRow(direct[h], h)'
  <2>1. CASE direct'[h] = direct[h]
    BY <2>1, DirectRows DEF DirectRow, Made
  <2>2. CASE direct'[h].stage # "ok" /\ DirectRow(direct'[h], h)
    BY <2>2 DEF DirectRow
  <2>. QED
    BY <2>1, <2>2
<1>. QED
  BY <1>1 DEF DirectSound, DirectRow

LEMMA DirectChanged ==
    ASSUME DirectSound, Typed, NEW x \in Hrefs, NEW present \in BOOLEAN, Change(x, present),
           \A h \in Hrefs : direct'[h] = direct[h] \/
              (/\ h = x /\ direct'[h].stage = "ok" /\ direct'[h].version = seq + 1
               /\ direct'[h].by = direct[h].by /\ direct'[h].kind = direct[h].kind
               /\ direct[h].stage = "sent" /\ present = (direct'[h].kind # "delete"))
    PROVE  DirectSound'
<1>1. /\ seq \in Nat /\ changed'[x] = seq + 1 /\ there'[x] = present
      /\ \A h \in Hrefs : /\ changed[h] \in Nat /\ direct[h].version \in 0..seq
                          /\ h # x => changed'[h] = changed[h] /\ there'[h] = there[h]
  BY DEF Change, Typed, ServerTyped, WritesTyped, DirectType
<1>2. ASSUME NEW h \in Hrefs PROVE DirectRow(direct[h], h)'
  <2>1. CASE direct'[h] = direct[h]
    BY <1>1, <2>1, DirectRows DEF DirectRow, Made
  <2>2. CASE direct'[h] # direct[h]
    BY <1>1, <2>2, DirectRows DEF DirectRow, Made
  <2>. QED
    BY <2>1, <2>2
<1>. QED
  BY <1>2 DEF DirectSound, DirectRow

(* The next writes of an operation start.                                  *)
LEMMA SentFacts ==
    ASSUME NEW n \in Nat, NEW j \in [Hrefs -> JobType(n)], NEW hs \in SUBSET Items(j, {"queued"}),
           NEW etags \in Upto(n), \A h \in Hrefs : j[h].kind \in Kind
    PROVE  /\ Sent(j, hs, etags) \in [Hrefs -> JobType(n)]
           /\ \A h \in Hrefs : \/ Sent(j, hs, etags)[h] = j[h]
                               \/ Unanswered(Sent(j, hs, etags)[h])
<1>. DEFINE s == Sent(j, hs, etags)
<1>1. ASSUME NEW h \in Hrefs
      PROVE  s[h] \in JobType(n) /\ (s[h] = j[h] \/ Unanswered(s[h]))
  <2>1. CASE h \notin hs
    BY <2>1 DEF Sent
  <2>2. CASE h \in hs
    <3>1. PICK etag \in 0..n : s[h] = [j[h] EXCEPT !.stage = "sent", !.etag = etag]
      <4>1. etags[h] \in 0..n /\ 0 \in 0..n
        BY DEF Upto
      <4>. QED
        BY <2>2, <4>1 DEF Sent
    <3>2. j[h] \in JobType(n) /\ j[h].kind # "none" /\ j[h].kind \in Kind
      BY <2>2 DEF Items
    <3>. QED
      BY <3>1, <3>2 DEF JobType, Etags, InFlight, Unanswered
  <2>. QED
    BY <2>1, <2>2
<1>2. s \in [Hrefs -> JobType(n)]
  BY <1>1 DEF Sent
<1>. QED
  BY <1>1, <1>2

LEMMA StartedFacts ==
    ASSUME NEW j, NEW op, NEW hs \in Started(j, op) PROVE hs \in SUBSET Items(j, {"queued"})
BY DEF Started, Firsts

LEMMA NoJobsFacts ==
    ASSUME NEW n \in Nat
    PROVE  NoJobs \in [Hrefs -> JobType(n)] /\ \A h \in Hrefs : Unanswered(NoJobs[h])
BY DEF NoJobs, NoJob, JobType, Kind, Etags, InFlight, Unanswered

(* What the accounting of one answer leaves.                               *)
LEMMA ItemDoneFacts ==
    ASSUME NEW n \in Nat, NEW j \in [Hrefs -> JobType(n)], \A h \in Hrefs : j[h].kind \in Kind,
           localEtags' \in Upto(n), NEW op, ItemDone(op, j)
    PROVE  /\ job' \in [Hrefs -> JobType(n)]
           /\ \A h \in Hrefs : job'[h] = j[h] \/ Unanswered(job'[h])
           /\ \/ UNCHANGED opVars
              \/ ~Writing' /\ \E outcome \in {"succeeded", "failed"} : End(op, outcome)
<1>1. CASE job' = NoJobs /\ \E outcome \in {"succeeded", "failed"} : End(op, outcome)
  <2>1. ~Writing'
    BY <1>1 DEF Writing, NoJobs, NoJob, InFlight
  <2>. QED
    BY <1>1, <2>1, NoJobsFacts
<1>2. CASE (\E hs \in Started(j, op) : job' = Sent(j, hs, localEtags')) /\ UNCHANGED opVars
  <2>1. PICK hs \in Started(j, op) : job' = Sent(j, hs, localEtags')
    BY <1>2
  <2>. QED
    BY <1>2, <2>1, StartedFacts, SentFacts
<1>. QED
  BY <1>1, <1>2 DEF ItemDone

(***************************************************************************)
(* The server moves: another client changes an item, or a write arrives.   *)
(***************************************************************************)
Still == UNCHANGED <<tagVars, cacheVars, factVars, cur, stray, reported, omitted, opVars>>

LEMMA Moves ==
    ASSUME IInv, Still, budget' \in BudgetType, budget'.tasks = budget.tasks,
           \/ UNCHANGED <<serverVars, masked>>
           \/ \E x \in Hrefs, present \in BOOLEAN : Change(x, present),
           Writing' => Writing
    PROVE  /\ OpInv' /\ UnderWay' /\ EtagSound' /\ StraySound' /\ ReadInv'
           /\ WritesTyped' => Typed'
           /\ seq \in Nat /\ seq' \in Nat /\ seq <= seq'
           /\ JobType(seq) \subseteq JobType(seq') /\ DirectType(seq) \subseteq DirectType(seq')
           /\ LateType(seq) \subseteq LateType(seq')
<1>. USE DEF Still
<1>1. OpInv' /\ EtagSound' /\ StraySound'
  BY OpsUnchangedInv DEF IInv, EtagSound, StraySound
<1>2. UnderWay'
  BY UnderWayStays DEF IInv, opVars
<1>3. /\ seq \in Nat /\ seq' \in Nat /\ seq <= seq' /\ ServerTyped' /\ masked' \subseteq Hrefs
  <2>1. CASE UNCHANGED <<serverVars, masked>>
    BY <2>1 DEF IInv, Typed, ServerTyped, FetchTyped
  <2>2. CASE \E x \in Hrefs, present \in BOOLEAN : Change(x, present)
    <3>1. PICK x \in Hrefs, present \in BOOLEAN : Change(x, present)
      BY <2>2
    <3>2. /\ seq \in 1..MaxSeq /\ MaxSeq \in Nat /\ seq < MaxSeq /\ seq' = seq + 1
          /\ changed \in [Hrefs -> 1..seq] /\ changed' = [changed EXCEPT ![x] = seq + 1]
          /\ there \in [Hrefs -> BOOLEAN] /\ there' = [there EXCEPT ![x] = present]
          /\ masked' = masked \ {x} /\ masked \subseteq Hrefs
      BY <3>1, RemoteAssumption DEF Change, IInv, Typed, ServerTyped, FetchTyped
    <3>3. changed' \in [Hrefs -> 1..seq'] /\ there' \in [Hrefs -> BOOLEAN]
      BY <3>2
    <3>. QED
      BY <3>2, <3>3 DEF ServerTyped
  <2>. QED
    BY <2>1, <2>2
<1>4. /\ Upto(seq) \subseteq Upto(seq') /\ CurType(seq) \subseteq CurType(seq')
      /\ JobType(seq) \subseteq JobType(seq') /\ DirectType(seq) \subseteq DirectType(seq')
      /\ LateType(seq) \subseteq LateType(seq') /\ StrayType(seq) \subseteq StrayType(seq')
      /\ 0..seq \subseteq 0..seq'
  BY <1>3, Larger
<1>5. CacheTyped'
  BY <1>4 DEF IInv, Typed, CacheTyped
<1>6. FetchTyped'
  BY <1>3, <1>4 DEF IInv, Typed, FetchTyped
<1>7. ReadInv'
  <2>1. CASE UNCHANGED <<serverVars, masked>>
    <3>1. ctag \in Nat /\ cur.at \in Nat
      BY DEF IInv, Typed, ServerTyped, CacheTyped, FetchTyped, CurType
    <3>. QED
      BY <2>1, <3>1, ReadKept DEF IInv, Typed
  <2>2. CASE \E x \in Hrefs, present \in BOOLEAN : Change(x, present)
    BY <2>2, ReadChanged DEF IInv
  <2>. QED
    BY <2>1, <2>2
<1>. QED
  BY <1>1, <1>2, <1>3, <1>4, <1>5, <1>6, <1>7 DEF Typed

LEMMA ForeignChangeInv == ASSUME IInv, NEW x \in Hrefs, ForeignChange(x) PROVE IInv'
<1>1. PICK present \in BOOLEAN : Change(x, present)
  BY DEF ForeignChange
<1>2. Still /\ UNCHANGED writeVars /\ Spend("foreign")
  BY DEF ForeignChange, Still
<1>3. budget' \in BudgetType /\ budget'.tasks = budget.tasks
  BY <1>2, Spent DEF IInv, Typed, ServerTyped, What
<1>4. Writing' = Writing
  BY <1>2 DEF Writing
<1>5. /\ OpInv' /\ UnderWay' /\ EtagSound' /\ StraySound' /\ ReadInv'
      /\ WritesTyped' => Typed'
      /\ JobType(seq) \subseteq JobType(seq') /\ DirectType(seq) \subseteq DirectType(seq')
      /\ LateType(seq) \subseteq LateType(seq')
  BY <1>1, <1>2, <1>3, <1>4, Moves
<1>6. WritesTyped'
  BY <1>2, <1>5 DEF IInv, Typed, WritesTyped
<1>7. JobSound' /\ DirectSound' /\ LateSound'
  BY <1>1, <1>2, JobChanged, DirectChanged DEF Still, IInv, LateSound
<1>. QED
  BY <1>5, <1>6, <1>7 DEF IInv

LEMMA WriteArrivesInv == ASSUME IInv, NEW x \in Hrefs, WriteArrives(x) PROVE IInv'
<1>1. /\ Still /\ UNCHANGED <<direct, late, budget>> /\ job[x].stage = "sent"
      /\ job \in [Hrefs -> JobType(seq)] /\ budget \in BudgetType /\ seq \in Nat
      /\ job[x].kind \notin {"put", "none"}
  BY DEF WriteArrives, Still, IInv, Typed, WritesTyped, ServerTyped, JobSound, InFlight
<1>2. Writing
  BY <1>1 DEF Writing, InFlight
<1>3. \/ /\ Change(x, job[x].kind # "delete") /\ seq' = seq + 1
         /\ job' = [job EXCEPT ![x].stage = "ok", ![x].version = seq + 1]
      \/ job' = [job EXCEPT ![x].stage = "no"] /\ UNCHANGED <<serverVars, masked>>
  BY DEF WriteArrives, Change
<1>4. /\ OpInv' /\ UnderWay' /\ EtagSound' /\ StraySound' /\ ReadInv'
      /\ WritesTyped' => Typed'
      /\ JobType(seq) \subseteq JobType(seq') /\ DirectType(seq) \subseteq DirectType(seq')
      /\ LateType(seq) \subseteq LateType(seq') /\ seq' \in Nat
  <2>1. (job[x].kind # "delete") \in BOOLEAN
    OBVIOUS
  <2>. QED
    BY <1>1, <1>2, <1>3, <2>1, Moves
<1>5. CASE /\ Change(x, job[x].kind # "delete") /\ seq' = seq + 1
           /\ job' = [job EXCEPT ![x].stage = "ok", ![x].version = seq + 1]
  <2>1. PICK item : item = job[x]
    OBVIOUS
  <2>2. item \in JobType(seq') /\ seq + 1 \in 0..seq'
    BY <1>1, <1>4, <1>5, <2>1
  <2>3. job' = [job EXCEPT ![x] = [item EXCEPT !.stage = "ok", !.version = seq + 1]]
    BY <1>5, <2>1
  <2>4. [item EXCEPT !.stage = "ok", !.version = seq + 1] \in JobType(seq')
    BY <2>2 DEF JobType, InFlight
  <2>5. job' \in [Hrefs -> JobType(seq')]
    BY <1>1, <1>4, <2>3, <2>4
  <2>6. WritesTyped'
    BY <1>1, <1>4, <2>5 DEF IInv, Typed, WritesTyped
  <2>7. /\ job'[x].stage = "ok" /\ job'[x].version = seq + 1 /\ job'[x].kind = job[x].kind
        /\ \A h \in Hrefs : h # x => job'[h] = job[h]
    BY <1>1, <2>1, <2>2, <2>3 DEF JobType
  <2>8. JobSound'
    <3>1. PICK present \in BOOLEAN : present = (job[x].kind # "delete")
      OBVIOUS
    <3>. QED
      BY <1>1, <1>5, <2>7, <3>1, JobChanged DEF Still, IInv
  <2>9. DirectSound' /\ LateSound'
    BY <1>1, <1>5, DirectChanged DEF IInv, LateSound
  <2>. QED
    BY <1>4, <2>6, <2>8, <2>9 DEF IInv
<1>6. CASE job' = [job EXCEPT ![x].stage = "no"] /\ UNCHANGED <<serverVars, masked>>
  <2>1. PICK item : item = job[x]
    OBVIOUS
  <2>2. job' = [job EXCEPT ![x] = [item EXCEPT !.stage = "no"]] /\ item \in JobType(seq)
    BY <1>1, <1>6, <2>1
  <2>3. [item EXCEPT !.stage = "no"] \in JobType(seq)
    BY <2>2 DEF JobType, InFlight
  <2>4. job' \in [Hrefs -> JobType(seq')]
    BY <1>1, <1>6, <2>2, <2>3
  <2>5. WritesTyped'
    BY <1>1, <1>6, <2>4 DEF IInv, Typed, WritesTyped
  <2>6. \A h \in Hrefs : job'[h] = job[h] \/ Unanswered(job'[h])
    BY <1>1, <2>1, <2>2 DEF JobType, Unanswered
  <2>7. JobSound'
    BY <1>1, <1>6, <2>6, JobKept DEF Still, IInv
  <2>8. DirectSound' /\ LateSound'
    BY <1>1, <1>6, DirectKept DEF IInv, LateSound
  <2>. QED
    BY <1>4, <2>5, <2>7, <2>8 DEF IInv
<1>. QED
  BY <1>3, <1>5, <1>6

LEMMA DirectArrivesInv == ASSUME IInv, NEW x \in Hrefs, DirectArrives(x) PROVE IInv'
<1>1. /\ Still /\ UNCHANGED <<job, late, budget>> /\ direct[x].stage = "sent"
      /\ direct \in [Hrefs -> DirectType(seq)] /\ budget \in BudgetType /\ seq \in Nat
  BY DEF DirectArrives, Still, IInv, Typed, WritesTyped, ServerTyped
<1>2. Writing' = Writing
  BY <1>1 DEF Writing
<1>3. \/ /\ Change(x, direct[x].kind # "delete") /\ seq' = seq + 1
         /\ direct' = [direct EXCEPT ![x].stage = "ok", ![x].version = seq + 1]
      \/ direct' = [direct EXCEPT ![x].stage = "no"] /\ UNCHANGED <<serverVars, masked>>
  BY DEF DirectArrives, Change
<1>4. /\ OpInv' /\ UnderWay' /\ EtagSound' /\ StraySound' /\ ReadInv'
      /\ WritesTyped' => Typed'
      /\ JobType(seq) \subseteq JobType(seq') /\ DirectType(seq) \subseteq DirectType(seq')
      /\ LateType(seq) \subseteq LateType(seq') /\ seq' \in Nat
  <2>1. (direct[x].kind # "delete") \in BOOLEAN
    OBVIOUS
  <2>. QED
    BY <1>1, <1>2, <1>3, <2>1, Moves
<1>5. CASE /\ Change(x, direct[x].kind # "delete") /\ seq' = seq + 1
           /\ direct' = [direct EXCEPT ![x].stage = "ok", ![x].version = seq + 1]
  <2>1. PICK item : item = direct[x]
    OBVIOUS
  <2>2. item \in DirectType(seq') /\ seq + 1 \in 0..seq'
    BY <1>1, <1>4, <1>5, <2>1
  <2>3. direct' = [direct EXCEPT ![x] = [item EXCEPT !.stage = "ok", !.version = seq + 1]]
    BY <1>5, <2>1
  <2>4. [item EXCEPT !.stage = "ok", !.version = seq + 1] \in DirectType(seq')
    BY <2>2 DEF DirectType, InFlight
  <2>5. direct' \in [Hrefs -> DirectType(seq')]
    BY <1>1, <1>4, <2>3, <2>4
  <2>6. WritesTyped'
    BY <1>1, <1>4, <2>5 DEF IInv, Typed, WritesTyped
  <2>7. /\ direct'[x].stage = "ok" /\ direct'[x].version = seq + 1
        /\ direct'[x].kind = direct[x].kind /\ direct'[x].by = direct[x].by
        /\ \A h \in Hrefs : h # x => direct'[h] = direct[h]
    BY <1>1, <2>1, <2>2, <2>3 DEF DirectType
  <2>8. DirectSound' /\ JobSound'
    <3>1. PICK present \in BOOLEAN : present = (direct[x].kind # "delete")
      OBVIOUS
    <3>. QED
      BY <1>1, <1>5, <2>7, <3>1, DirectChanged, JobChanged DEF Still, IInv
  <2>9. LateSound'
    BY <1>1 DEF IInv, LateSound
  <2>. QED
    BY <1>4, <2>6, <2>8, <2>9 DEF IInv
<1>6. CASE direct' = [direct EXCEPT ![x].stage = "no"] /\ UNCHANGED <<serverVars, masked>>
  <2>1. PICK item : item = direct[x]
    OBVIOUS
  <2>2. direct' = [direct EXCEPT ![x] = [item EXCEPT !.stage = "no"]] /\ item \in DirectType(seq)
    BY <1>1, <1>6, <2>1
  <2>3. [item EXCEPT !.stage = "no"] \in DirectType(seq)
    BY <2>2 DEF DirectType, InFlight
  <2>4. direct' \in [Hrefs -> DirectType(seq')]
    BY <1>1, <1>6, <2>2, <2>3
  <2>5. WritesTyped'
    BY <1>1, <1>6, <2>4 DEF IInv, Typed, WritesTyped
  <2>6. \A h \in Hrefs : direct'[h] = direct[h] \/
            (direct'[h].stage # "ok" /\ DirectRow(direct'[h], h))
    BY <1>1, <2>1, <2>2, DirectRows DEF DirectType, DirectRow, IInv
  <2>7. DirectSound'
    BY <1>6, <2>6, DirectKept DEF IInv
  <2>8. JobSound' /\ LateSound'
    BY <1>1, <1>6, JobKept DEF Still, IInv, LateSound
  <2>. QED
    BY <1>4, <2>5, <2>7, <2>8 DEF IInv
<1>. QED
  BY <1>3, <1>5, <1>6

LEMMA LateWriteArrivesInv == ASSUME IInv, NEW w \in late, LateWriteArrives(w) PROVE IInv'
<1>1. /\ Still /\ UNCHANGED <<job, direct, budget>> /\ w \in LateType(seq) /\ w.href \in Hrefs
      /\ late \subseteq LateType(seq) /\ budget \in BudgetType /\ seq \in Nat
  BY DEF LateWriteArrives, Still, IInv, Typed, WritesTyped, ServerTyped, LateType
<1>2. Writing' = Writing
  BY <1>1 DEF Writing
<1>3. \/ /\ Change(w.href, w.job.kind # "delete") /\ seq' = seq + 1
         /\ late' = (late \ {w}) \union
              (IF w.heard THEN {[w EXCEPT !.job.stage = "ok", !.job.version = seq + 1]} ELSE {})
      \/ late' = late \ {w} /\ UNCHANGED <<serverVars, masked>>
  BY DEF LateWriteArrives, Change
<1>4. /\ OpInv' /\ UnderWay' /\ EtagSound' /\ StraySound' /\ ReadInv'
      /\ WritesTyped' => Typed'
      /\ JobType(seq) \subseteq JobType(seq') /\ DirectType(seq) \subseteq DirectType(seq')
      /\ LateType(seq) \subseteq LateType(seq') /\ seq' \in Nat
  <2>1. (w.job.kind # "delete") \in BOOLEAN
    OBVIOUS
  <2>. QED
    BY <1>1, <1>2, <1>3, <2>1, Moves
<1>5. late' \subseteq LateType(seq') /\ LateSound'
  <2>1. CASE late' = late \ {w}
    BY <1>1, <1>4, <2>1 DEF IInv, LateSound
  <2>2. CASE late' = (late \ {w}) \union {[w EXCEPT !.job.stage = "ok", !.job.version = seq + 1]}
             /\ seq' = seq + 1
    <3>1. PICK item : item = w.job
      OBVIOUS
    <3>2. item \in JobType(seq') /\ seq + 1 \in 0..seq' /\ w \in LateType(seq')
      BY <1>1, <1>4, <2>2, <3>1 DEF LateType
    <3>3. PICK made : made = [item EXCEPT !.stage = "ok", !.version = seq + 1]
      OBVIOUS
    <3>4. made \in JobType(seq') /\ made.kind = item.kind
      BY <3>2, <3>3 DEF JobType, InFlight
    <3>5. late' = (late \ {w}) \union {[w EXCEPT !.job = made]}
      BY <2>2, <3>1, <3>3
    <3>6. /\ [w EXCEPT !.job = made] \in LateType(seq') /\ [w EXCEPT !.job = made].heard = w.heard
          /\ [w EXCEPT !.job = made].job = made
      BY <3>2, <3>4 DEF LateType
    <3>. QED
      BY <1>1, <1>4, <3>1, <3>4, <3>5, <3>6 DEF IInv, LateSound
  <2>. QED
    BY <1>3, <2>1, <2>2
<1>6. WritesTyped'
  BY <1>1, <1>4, <1>5 DEF IInv, Typed, WritesTyped
<1>7. JobSound' /\ DirectSound'
  <2>1. CASE UNCHANGED <<serverVars, masked>>
    BY <1>1, <2>1, JobKept, DirectKept DEF Still, IInv
  <2>2. CASE Change(w.href, w.job.kind # "delete")
    <3>1. PICK present \in BOOLEAN : present = (w.job.kind # "delete")
      OBVIOUS
    <3>. QED
      BY <1>1, <2>2, <3>1, JobChanged, DirectChanged DEF Still, IInv
  <2>. QED
    BY <1>3, <2>1, <2>2
<1>. QED
  BY <1>4, <1>5, <1>6, <1>7 DEF IInv

(***************************************************************************)
(* The answer of a write.                                                  *)
(***************************************************************************)
CachesSound ==
    /\ cached' \in Upto(seq) /\ localEtags' \in Upto(seq) /\ etagCache' \in EtagMap(seq)
    /\ \A h \in Hrefs : etagCache'[h] \in {0, Bare, cached'[h]}

LEMMA WrittenFacts ==
    ASSUME Typed, EtagSound, NEW x \in Hrefs, NEW version \in 0..seq,
           NEW tag \in {version, Bare}, Written(x, version, tag)
    PROVE  CachesSound /\ cached'[x] = version /\ \A h \in Hrefs : h # x => cached'[h] = cached[h]
BY DEF Typed, ServerTyped, CacheTyped, EtagSound, Written, CachesSound, Upto, EtagMap

LEMMA ErasedFacts ==
    ASSUME Typed, EtagSound, NEW x \in Hrefs, Erase({x})
    PROVE  CachesSound /\ cached'[x] = 0 /\ \A h \in Hrefs : h # x => cached'[h] = cached[h]
<1>1. CachesSound
  BY Erased DEF CachesSound
<1>. QED
  BY <1>1 DEF Erase, Dropped

LEMMA UpdatedFacts ==
    ASSUME Typed, EtagSound, NEW x \in Hrefs, NEW version \in 0..seq, Noted(x, "update", version)
    PROVE  CachesSound /\ cached' = cached
BY DEF Typed, ServerTyped, CacheTyped, EtagSound, Noted, CachesSound, Upto, EtagMap

LEMMA NotedFacts ==
    ASSUME Typed, EtagSound, NEW x \in Hrefs, NEW version \in 0..seq,
           NEW kind \in {"create", "update", "delete"}, Noted(x, kind, version)
    PROVE  /\ CachesSound /\ \A h \in Hrefs : h # x => cached'[h] = cached[h]
           /\ kind = "create" => cached'[x] = version
           /\ kind = "update" => cached' = cached
           /\ kind = "delete" => cached'[x] = 0
<1>1. CASE kind = "create"
  <2>1. Written(x, version, version)
    BY <1>1 DEF Noted
  <2>. QED
    BY <1>1, <2>1, WrittenFacts
<1>2. CASE kind = "update"
  BY <1>2, UpdatedFacts
<1>3. CASE kind = "delete"
  <2>1. Erase({x})
    BY <1>3 DEF Noted
  <2>. QED
    BY <1>3, <2>1, ErasedFacts
<1>. QED
  BY <1>1, <1>2, <1>3

LEMMA CachesStay == ASSUME Typed, EtagSound, UNCHANGED cacheVars PROVE CachesSound
BY DEF Typed, CacheTyped, EtagSound, CachesSound, EtagMap

(* What holds of everything but the writes when one was answered.          *)
LEMMA Answered ==
    ASSUME IInv, UNCHANGED <<serverVars, factVars, cur, stray, reported, omitted>>,
           budget' \in BudgetType, CachesSound, ctag' \in {0, ctag}, token' \in {0, token},
           masked' \subseteq Hrefs, WritesTyped'
    PROVE  Typed' /\ EtagSound' /\ StraySound'
<1>1. ctag' \in 0..seq /\ token' \in 0..seq
  BY DEF IInv, Typed, ServerTyped, CacheTyped
<1>2. ServerTyped' /\ FetchTyped'
  BY DEF IInv, Typed, ServerTyped, FetchTyped
<1>3. CacheTyped'
  BY <1>1 DEF IInv, Typed, CacheTyped, CachesSound, EtagMap
<1>4. EtagSound' /\ StraySound'
  BY DEF IInv, CachesSound, EtagSound, StraySound
<1>. QED
  BY <1>2, <1>3, <1>4 DEF Typed

(* A write made the version its answer brings, or one that is older than   *)
(* what the server has now.                                                *)
LEMMA MadeFacts ==
    ASSUME Typed, NEW x \in Hrefs, NEW w, Made(w, x), w.version \in 0..seq
    PROVE  /\ w.version = changed[x] /\ w.kind # "delete" => Version(x) = w.version
           /\ w.version = changed[x] /\ w.kind = "delete" => Version(x) = 0
           /\ w.version # changed[x] => w.version < changed[x]
BY DEF Typed, ServerTyped, Made, Version

LEMMA WriteAnsweredInv ==
    ASSUME IInv, NEW op \in Ops, NEW x \in Hrefs, WriteAnswered(op, x) PROVE IInv'
<1>. DEFINE ok == job[x].stage = "ok"
<1>1. /\ ~IsFetch(op) /\ opState[op] = "running" /\ job[x].stage \in {"ok", "no"}
      /\ UNCHANGED <<omitted, serverVars, factVars, direct, late, cur, stray, reported, masked, budget>>
      /\ IF ok THEN Noted(x, job[x].kind, job[x].version) ELSE UNCHANGED cacheVars
  BY DEF WriteAnswered, Running
<1>2. PICK j : /\ j = [job EXCEPT ![x].stage = IF ok THEN "done" ELSE "bad"]
               /\ IF ok /\ job[x].kind = "update" THEN ClearTags ELSE SettledTags(j)
               /\ ItemDone(op, j)
  BY DEF WriteAnswered
<1>3. PICK item : item = job[x]
  OBVIOUS
<1>4. /\ item \in JobType(seq) /\ item.version \in 0..seq /\ item.kind \in {"create", "update", "delete"}
      /\ job \in [Hrefs -> JobType(seq)] /\ seq \in Nat
      /\ \A h \in Hrefs : job[h].kind \in Kind
  BY <1>1, <1>3 DEF IInv, Typed, WritesTyped, ServerTyped, JobType, JobSound, InFlight, Kind
<1>5. /\ j \in [Hrefs -> JobType(seq)] /\ \A h \in Hrefs : j[h].kind \in Kind
      /\ \A h \in Hrefs : j[h] = job[h] \/ Unanswered(j[h])
  <2>1. PICK stage \in {"done", "bad"} : j = [job EXCEPT ![x] = [item EXCEPT !.stage = stage]]
    BY <1>2, <1>3
  <2>2. /\ [item EXCEPT !.stage = stage] \in JobType(seq)
        /\ [item EXCEPT !.stage = stage].kind = item.kind
        /\ Unanswered([item EXCEPT !.stage = stage])
    BY <1>4 DEF JobType, InFlight, Unanswered, Kind
  <2>3. /\ j[x] = [item EXCEPT !.stage = stage] /\ j \in [Hrefs -> JobType(seq)]
        /\ \A h \in Hrefs : h # x => j[h] = job[h]
    BY <1>4, <2>1, <2>2
  <2>. QED
    BY <1>3, <1>4, <2>2, <2>3
<1>6. CachesSound /\ (\A h \in Hrefs : h # x => cached'[h] = cached[h])
  BY <1>1, <1>3, <1>4, NotedFacts, CachesStay DEF IInv
<1>7. ctag' \in {0, ctag} /\ token' \in {0, token}
  BY <1>2 DEF SettledTags, ClearTags
<1>8. /\ job' \in [Hrefs -> JobType(seq)]
      /\ \A h \in Hrefs : job'[h] = job[h] \/ Unanswered(job'[h])
      /\ \/ UNCHANGED opVars
         \/ ~Writing' /\ \E outcome \in {"succeeded", "failed"} : End(op, outcome)
  <2>1. localEtags' \in Upto(seq)
    BY <1>6 DEF CachesSound
  <2>2. /\ job' \in [Hrefs -> JobType(seq)]
        /\ \A h \in Hrefs : job'[h] = j[h] \/ Unanswered(job'[h])
        /\ \/ UNCHANGED opVars
           \/ ~Writing' /\ \E outcome \in {"succeeded", "failed"} : End(op, outcome)
    BY <1>2, <1>4, <1>5, <2>1, ItemDoneFacts
  <2>. QED
    BY <1>5, <2>2
<1>9. inFlight = op /\ cur.phase = "idle"
  BY <1>1, RunsAlone DEF IInv
<1>10. OpInv' /\ UnderWay'
  <2>1. CASE UNCHANGED opVars
    <3>1. Writing
      BY <1>1, <1>3 DEF Writing, InFlight
    <3>. QED
      BY <1>1, <2>1, <3>1, OpsUnchangedInv, UnderWayStays DEF IInv, opVars
  <2>2. CASE ~Writing' /\ \E outcome \in {"succeeded", "failed"} : End(op, outcome)
    <3>1. OpInv'
      BY <1>1, <2>2, EndInv DEF IInv, Terminal
    <3>. QED
      BY <1>1, <1>9, <2>2, <3>1, NothingUnderWay
  <2>. QED
    BY <1>8, <2>1, <2>2
<1>11. WritesTyped'
  BY <1>1, <1>8 DEF IInv, Typed, WritesTyped
<1>12. Typed' /\ EtagSound' /\ StraySound'
  BY <1>1, <1>6, <1>7, <1>11, Answered DEF IInv, Typed, ServerTyped, FetchTyped
<1>13. ReadInv'
  <2>1. x \notin masked' => \/ cached'[x] = Version(x)
                            \/ cached'[x] = cached[x]
                            \/ cur.phase = "idle" /\ ctag' < changed[x] /\ token' < changed[x]
    <3>1. CASE ok
      <4>1. /\ Made(item, x) /\ ctag < item.version
            /\ x \notin masked /\ item.version < changed[x] => changed[x] > token
        BY <1>3, <3>1 DEF IInv, JobSound
      <4>2. /\ item.version = changed[x] /\ item.kind # "delete" => Version(x) = item.version
            /\ item.version = changed[x] /\ item.kind = "delete" => Version(x) = 0
            /\ item.version # changed[x] => item.version < changed[x]
        BY <1>4, <4>1, MadeFacts DEF IInv
      <4>3. /\ item.kind = "create" => cached'[x] = item.version
            /\ item.kind = "update" => cached' = cached
            /\ item.kind = "delete" => cached'[x] = 0
        BY <1>1, <1>3, <1>4, <3>1, NotedFacts DEF IInv
      <4>4. /\ ctag \in Nat /\ token \in Nat /\ changed[x] \in Nat /\ changed[x] >= 1
            /\ item.version \in Nat
        BY <1>4 DEF IInv, Typed, ServerTyped, CacheTyped
      <4>. QED
        BY <1>1, <1>4, <1>7, <1>9, <4>1, <4>2, <4>3, <4>4
    <3>2. CASE ~ok
      BY <1>1, <3>2
    <3>. QED
      BY <3>1, <3>2
  <2>. QED
    BY <1>1, <1>6, <1>7, <2>1, ReadNoted DEF IInv
<1>14. JobSound' /\ DirectSound' /\ LateSound'
  BY <1>1, <1>7, <1>8, JobKept, DirectKept DEF IInv, LateSound
<1>. QED
  BY <1>10, <1>12, <1>13, <1>14 DEF IInv

LEMMA AbandonedFacts ==
    ASSUME Typed, NEW hs \in SUBSET Hrefs, NEW heard \in BOOLEAN
    PROVE  /\ Abandoned(hs, heard) \subseteq LateType(seq)
           /\ \A w \in Abandoned(hs, heard) : w.heard => w.job.kind = "update"
<1>1. ASSUME NEW w \in Abandoned(hs, heard)
      PROVE  w \in LateType(seq) /\ (w.heard => w.job.kind = "update")
  <2>1. PICK h \in hs :
          w = [href |-> h, job |-> job[h], heard |-> heard /\ job[h].kind = "update"]
    BY DEF Abandoned
  <2>2. job[h] \in JobType(seq) /\ h \in Hrefs
    BY DEF Typed, WritesTyped
  <2>3. (heard /\ job[h].kind = "update") \in BOOLEAN
    OBVIOUS
  <2>4. w \in LateType(seq)
    BY <2>1, <2>2, <2>3 DEF LateType
  <2>5. w.heard => w.job.kind = "update"
    BY <2>1
  <2>. QED
    BY <2>4, <2>5
<1>. QED
  BY <1>1

LEMMA WriteTimesOutInv ==
    ASSUME IInv, NEW op \in Ops, NEW x \in Hrefs, WriteTimesOut(op, x) PROVE IInv'
<1>1. /\ ~IsFetch(op) /\ opState[op] = "running" /\ job[x].stage \in InFlight
      /\ UNCHANGED <<omitted, serverVars, cached, etagCache, localEtags, factVars, direct, cur, stray,
                     reported, masked>>
      /\ Spend("troubles") /\ late' = late \union Abandoned({x}, FALSE)
  BY DEF WriteTimesOut, Running
<1>2. PICK j : /\ j = [job EXCEPT ![x].stage = "bad"] /\ SettledTags(j) /\ ItemDone(op, j)
  BY DEF WriteTimesOut
<1>3. PICK item : item = job[x]
  OBVIOUS
<1>4. /\ item \in JobType(seq) /\ job \in [Hrefs -> JobType(seq)] /\ seq \in Nat
      /\ item.kind \in Kind /\ \A h \in Hrefs : job[h].kind \in Kind
      /\ localEtags \in Upto(seq)
  BY <1>3 DEF IInv, Typed, WritesTyped, ServerTyped, CacheTyped, JobType, JobSound, Kind
<1>5. /\ j \in [Hrefs -> JobType(seq)] /\ \A h \in Hrefs : j[h].kind \in Kind
      /\ \A h \in Hrefs : j[h] = job[h] \/ Unanswered(j[h])
  <2>1. j = [job EXCEPT ![x] = [item EXCEPT !.stage = "bad"]]
    BY <1>2, <1>3
  <2>2. /\ [item EXCEPT !.stage = "bad"] \in JobType(seq)
        /\ [item EXCEPT !.stage = "bad"].kind = item.kind
        /\ Unanswered([item EXCEPT !.stage = "bad"])
    BY <1>4 DEF JobType, InFlight, Unanswered
  <2>3. /\ j[x] = [item EXCEPT !.stage = "bad"] /\ j \in [Hrefs -> JobType(seq)]
        /\ \A h \in Hrefs : h # x => j[h] = job[h]
    BY <1>4, <2>1, <2>2
  <2>. QED
    BY <1>4, <2>2, <2>3
<1>6. ctag' \in {0, ctag} /\ token' \in {0, token}
  BY <1>2 DEF SettledTags, ClearTags
<1>7. /\ job' \in [Hrefs -> JobType(seq)]
      /\ \A h \in Hrefs : job'[h] = job[h] \/ Unanswered(job'[h])
      /\ \/ UNCHANGED opVars
         \/ ~Writing' /\ \E outcome \in {"succeeded", "failed"} : End(op, outcome)
  <2>1. localEtags' \in Upto(seq)
    BY <1>1, <1>4
  <2>2. /\ job' \in [Hrefs -> JobType(seq)]
        /\ \A h \in Hrefs : job'[h] = j[h] \/ Unanswered(job'[h])
        /\ \/ UNCHANGED opVars
           \/ ~Writing' /\ \E outcome \in {"succeeded", "failed"} : End(op, outcome)
    BY <1>2, <1>4, <1>5, <2>1, ItemDoneFacts
  <2>. QED
    BY <1>5, <2>2
<1>8. inFlight = op /\ cur.phase = "idle"
  BY <1>1, RunsAlone DEF IInv
<1>9. budget' \in BudgetType /\ budget'.tasks = budget.tasks
  BY <1>1, Spent DEF IInv, Typed, ServerTyped, What
<1>10. OpInv' /\ UnderWay'
  <2>1. CASE UNCHANGED opVars
    <3>1. Writing
      BY <1>1 DEF Writing
    <3>. QED
      BY <1>1, <1>9, <2>1, <3>1, OpsUnchangedInv, UnderWayStays DEF IInv, opVars
  <2>2. CASE ~Writing' /\ \E outcome \in {"succeeded", "failed"} : End(op, outcome)
    <3>1. OpInv'
      BY <1>1, <2>2, EndInv DEF IInv, Terminal
    <3>. QED
      BY <1>1, <1>8, <2>2, <3>1, NothingUnderWay
  <2>. QED
    BY <1>7, <2>1, <2>2
<1>11. WritesTyped' /\ LateSound'
  <2>1. /\ late' \subseteq LateType(seq)
        /\ \A w \in late' : w.heard => w.job.kind = "update"
    BY <1>1, AbandonedFacts DEF IInv, Typed, WritesTyped, LateSound
  <2>. QED
    BY <1>1, <1>7, <2>1 DEF IInv, Typed, WritesTyped, LateSound
<1>12. Typed' /\ EtagSound' /\ StraySound'
  <2>1. CachesSound /\ masked' \subseteq Hrefs
    BY <1>1, CachesStay DEF IInv, Typed, FetchTyped
  <2>. QED
    BY <1>1, <1>6, <1>9, <1>11, <2>1, Answered
<1>13. ReadInv'
  BY <1>1, <1>6, ReadNoted DEF IInv
<1>14. JobSound' /\ DirectSound'
  BY <1>1, <1>6, <1>7, JobKept, DirectKept DEF IInv
<1>. QED
  BY <1>10, <1>11, <1>12, <1>13, <1>14 DEF IInv

LEMMA LateWriteAnsweredInv ==
    ASSUME IInv, NEW w \in late, LateWriteAnswered(w) PROVE IInv'
<1>1. /\ UNCHANGED <<omitted, serverVars, factVars, job, direct, cur, stray, reported, masked, budget,
                     opVars>>
      /\ late' = late \ {w}
      /\ IF w.heard THEN Noted(w.href, w.job.kind, w.job.version) /\ ClearTags
         ELSE UNCHANGED <<cacheVars, tagVars>>
      /\ w.href \in Hrefs /\ w.job.version \in 0..seq /\ (w.heard => w.job.kind = "update")
  BY DEF LateWriteAnswered, IInv, Typed, WritesTyped, LateType, JobType, LateSound
<1>2. CachesSound /\ cached' = cached /\ ctag' \in {0, ctag} /\ token' \in {0, token}
  <2>1. CASE w.heard
    BY <1>1, <2>1, UpdatedFacts DEF IInv, ClearTags
  <2>2. CASE ~w.heard
    BY <1>1, <2>2, CachesStay DEF IInv
  <2>. QED
    BY <2>1, <2>2
<1>3. WritesTyped' /\ LateSound'
  BY <1>1 DEF IInv, Typed, WritesTyped, LateSound
<1>4. Typed' /\ EtagSound' /\ StraySound'
  BY <1>1, <1>2, <1>3, Answered DEF IInv, Typed, ServerTyped, FetchTyped
<1>5. ReadInv'
  BY <1>1, <1>2, ReadNoted DEF IInv
<1>6. JobSound' /\ DirectSound'
  BY <1>1, <1>2, JobKept, DirectKept DEF IInv
<1>7. OpInv' /\ UnderWay'
  <2>1. Writing' = Writing
    BY <1>1 DEF Writing
  <2>. QED
    BY <1>1, <2>1, OpsUnchangedInv, UnderWayStays DEF IInv, opVars
<1>. QED
  BY <1>3, <1>4, <1>5, <1>6, <1>7 DEF IInv

(***************************************************************************)
(* Writes outside the queue.                                               *)
(***************************************************************************)
LaunchedRow(d) ==
    /\ d \in DirectType(seq) /\ d.stage = "sent" /\ d.by # "none"
    /\ d.by = "batch" => d.kind \in {"create", "update", "delete"}
    /\ d.by = "remove" => d.kind = "delete"
    /\ d.by = "call" => d.kind \in {"put", "update", "delete"}

LEMMA LaunchInv ==
    ASSUME IInv, NEW by, NEW plan, NEW etags, Launch(by, plan, etags), Spend("direct"),
           \A h \in DOMAIN plan : h \in Hrefs =>
              LaunchedRow([by |-> by, kind |-> plan[h], stage |-> "sent", etag |-> etags[h],
                           version |-> 0])
    PROVE  IInv'
<1>1. /\ direct' = [h \in Hrefs |->
            IF h \in DOMAIN plan
            THEN [by |-> by, kind |-> plan[h], stage |-> "sent", etag |-> etags[h], version |-> 0]
            ELSE direct[h]]
      /\ UNCHANGED <<serverVars, omitted, tagVars, cacheVars, factVars, job, late, cur, stray,
                     reported, masked, opVars>>
  BY DEF Launch
<1>2. budget' \in BudgetType /\ budget'.tasks = budget.tasks
  BY Spent DEF IInv, Typed, ServerTyped, What
<1>3. \A h \in Hrefs : direct'[h] = direct[h] \/ LaunchedRow(direct'[h])
  BY <1>1
<1>4. direct' \in [Hrefs -> DirectType(seq)]
  <2>1. \A h \in Hrefs : direct'[h] \in DirectType(seq)
    BY <1>3 DEF IInv, Typed, WritesTyped, LaunchedRow
  <2>. QED
    BY <1>1, <2>1
<1>5. DirectSound'
  <2>1. \A h \in Hrefs : direct'[h] = direct[h] \/
            (direct'[h].stage # "ok" /\ DirectRow(direct'[h], h))
    BY <1>3 DEF LaunchedRow, DirectRow
  <2>. QED
    BY <1>1, <2>1, DirectKept DEF IInv
<1>6. WritesTyped' /\ LateSound'
  BY <1>1, <1>4 DEF IInv, Typed, WritesTyped, LateSound
<1>7. Typed' /\ EtagSound' /\ StraySound'
  BY <1>1, <1>2, <1>6, CachesStay, Answered DEF IInv, Typed, FetchTyped
<1>8. ReadInv' /\ JobSound'
  <2>1. ctag \in Nat /\ cur.at \in Nat
    BY DEF IInv, Typed, ServerTyped, CacheTyped, FetchTyped, CurType
  <2>. QED
    BY <1>1, <2>1, ReadKept, JobKept DEF IInv, Typed
<1>9. OpInv' /\ UnderWay'
  <2>1. Writing' = Writing
    BY <1>1 DEF Writing
  <2>. QED
    BY <1>1, <1>2, <2>1, OpsUnchangedInv, UnderWayStays DEF IInv, opVars
<1>. QED
  BY <1>5, <1>6, <1>7, <1>8, <1>9 DEF IInv

LEMMA DirectWriteInv == ASSUME IInv, DirectWrite PROVE IInv'
<1>1. Spend("direct")
  BY DEF DirectWrite
<1>2. /\ seq \in Nat /\ (reported = <<>> \/ reported \in Upto(seq))
      /\ localEtags \in Upto(seq) /\ Nothing \in Upto(seq)
  BY MapTypes DEF IInv, Typed, ServerTyped, CacheTyped, FetchTyped
<1>3. ASSUME NEW hs \in SUBSET Hrefs, NEW plan \in [hs -> {"create", "update", "delete"}],
             StartSync(plan)
      PROVE  IInv'
  <2>1. PICK etags :
          /\ etags = [h \in DOMAIN plan |-> CASE plan[h] = "create" -> 0
                                              [] plan[h] = "update" -> localEtags[h]
                                              [] plan[h] = "delete" -> reported[h]]
          /\ Launch("batch", plan, etags) /\ reported # <<>>
    BY <1>3 DEF StartSync
  <2>2. reported \in Upto(seq)
    BY <1>2, <2>1
  <2>3. ASSUME NEW h \in Hrefs, h \in hs PROVE etags[h] \in 0..seq
    <3>1. reported[h] \in 0..seq /\ localEtags[h] \in 0..seq /\ 0 \in 0..seq
      BY <1>2, <2>2, <2>3 DEF Upto
    <3>2. plan[h] \in {"create", "update", "delete"} /\ DOMAIN plan = hs
      BY <2>3
    <3>. QED
      BY <2>1, <2>3, <3>1, <3>2
  <2>4. ASSUME NEW h \in Hrefs, h \in hs
        PROVE  LaunchedRow([by |-> "batch", kind |-> plan[h], stage |-> "sent",
                            etag |-> etags[h], version |-> 0])
    <3>1. plan[h] \in {"create", "update", "delete"} /\ etags[h] \in Etags(seq) /\ 0 \in 0..seq
      <4>1. etags[h] \in 0..seq /\ plan[h] \in {"create", "update", "delete"}
        BY <2>3, <2>4
      <4>. QED
        BY <1>2, <4>1 DEF Etags
    <3>. QED
      BY <3>1 DEF LaunchedRow, DirectType, Callers, Kind, InFlight
  <2>. QED
    BY <1>1, <2>1, <2>4, LaunchInv
<1>4. ASSUME NEW x \in Hrefs, NEW by, NEW kind, NEW etags \in Upto(seq),
             Launch(by, [y \in {x} |-> kind], etags),
             \/ by = "remove" /\ kind = "delete"
             \/ by = "call" /\ kind \in {"put", "update", "delete"}
      PROVE  IInv'
  <2>2. etags[x] \in Etags(seq) /\ 0 \in 0..seq
    BY <1>2, <1>4 DEF Upto, Etags
  <2>3. LaunchedRow([by |-> by, kind |-> kind, stage |-> "sent", etag |-> etags[x],
                     version |-> 0])
    BY <1>4, <2>2 DEF LaunchedRow, DirectType, Callers, Kind, InFlight
  <2>4. PICK plan : plan = [y \in {x} |-> kind]
    OBVIOUS
  <2>. QED
    BY <1>1, <1>4, <2>3, <2>4, LaunchInv
<1>5. ASSUME NEW x \in Hrefs, RemoveItem(x) PROVE IInv'
  BY <1>2, <1>4, <1>5 DEF RemoveItem
<1>6. ASSUME NEW x \in Hrefs, NEW kind \in {"put", "update", "delete"}, CallRecord(x, kind)
      PROVE  IInv'
  <2>1. PICK etags \in Upto(seq) : Launch("call", [y \in {x} |-> kind], etags)
    BY <1>2, <1>6 DEF CallRecord
  <2>. QED
    BY <1>4, <2>1
<1>. QED
  BY <1>3, <1>5, <1>6 DEF DirectWrite

LEMMA NoDirectFacts ==
    ASSUME NEW n \in Nat
    PROVE  /\ NoDirect \in DirectType(n)
           /\ \A h \in Hrefs : NoDirect.stage # "ok" /\ DirectRow(NoDirect, h)
BY DEF NoDirect, DirectType, Etags, Kind, DirectRow

(* An item that was refused is sent once more, or given up.                *)
LEMMA AgainFacts ==
    ASSUME Typed, NEW x \in Hrefs, NEW d \in DirectType(seq), DirectRow(d, x), d.stage # "ok"
    PROVE  /\ Again(d, x) \in DirectType(seq)
           /\ Again(d, x).stage # "ok" /\ DirectRow(Again(d, x), x)
<1>1. /\ seq \in Nat /\ localEtags[x] \in Etags(seq) /\ AnyEtag \in Etags(seq)
      /\ {"sent", "update"} \subseteq (Kind \union {"put"}) \union InFlight /\ "sent" \in InFlight
  BY DEF Typed, ServerTyped, CacheTyped, Upto, Etags, Kind, InFlight
<1>2. CASE d.by # "batch" \/ d.kind = "delete" \/ d.etag = AnyEtag
  BY <1>1, <1>2, NoDirectFacts DEF Again
<1>3. CASE ~(d.by # "batch" \/ d.kind = "delete" \/ d.etag = AnyEtag)
  <2>1. d.by = "batch" /\ d.kind \in {"create", "update"}
    BY <1>3 DEF DirectRow
  <2>2. \/ Again(d, x) = [d EXCEPT !.kind = "update", !.stage = "sent", !.etag = localEtags[x]]
        \/ Again(d, x) = [d EXCEPT !.stage = "sent", !.etag = AnyEtag]
    BY <1>3, <2>1 DEF Again
  <2>3. /\ Again(d, x) \in DirectType(seq) /\ Again(d, x).stage = "sent"
        /\ Again(d, x).by = "batch" /\ Again(d, x).kind \in {"create", "update"}
    BY <1>1, <2>1, <2>2 DEF DirectType, InFlight, Kind
  <2>. QED
    BY <2>3 DEF DirectRow
<1>. QED
  BY <1>2, <1>3

(* An answer that changed no write but this one, and no cache as new as a  *)
(* tag but of its item.                                                    *)
LEMMA DirectOverInv ==
    ASSUME IInv, NEW x \in Hrefs, NEW d \in DirectType(seq), d.stage # "ok", DirectRow(d, x),
           direct' = [direct EXCEPT ![x] = d], late' \subseteq LateType(seq), LateSound',
           UNCHANGED <<serverVars, omitted, factVars, job, cur, stray, reported, opVars>>,
           budget' \in BudgetType, budget'.tasks = budget.tasks,
           CachesSound, ctag' \in {0, ctag}, token' \in {0, token},
           masked \subseteq masked', masked' \subseteq Hrefs,
           \A h \in Hrefs : h # x => cached'[h] = cached[h],
           x \notin masked' =>
              \/ cached'[x] = Version(x)
              \/ cached'[x] = cached[x]
              \/ cur.phase = "idle" /\ ctag' < changed[x] /\ token' < changed[x]
    PROVE  IInv'
<1>1. /\ direct' \in [Hrefs -> DirectType(seq)]
      /\ \A h \in Hrefs : direct'[h] = direct[h] \/
            (direct'[h].stage # "ok" /\ DirectRow(direct'[h], h))
  BY DEF IInv, Typed, WritesTyped
<1>2. DirectSound'
  BY <1>1, DirectKept DEF IInv
<1>3. WritesTyped'
  BY <1>1 DEF IInv, Typed, WritesTyped
<1>4. Typed' /\ EtagSound' /\ StraySound'
  BY <1>3, Answered
<1>5. ReadInv' /\ JobSound'
  BY ReadNoted, JobKept DEF IInv
<1>6. OpInv' /\ UnderWay'
  <2>1. Writing' = Writing
    BY DEF Writing
  <2>. QED
    BY <2>1, OpsUnchangedInv, UnderWayStays DEF IInv, opVars
<1>. QED
  BY <1>2, <1>4, <1>5, <1>6 DEF IInv

LEMMA DirectAnsweredInv == ASSUME IInv, NEW x \in Hrefs, DirectAnswered(x) PROVE IInv'
<1>1. /\ UNCHANGED <<serverVars, omitted, factVars, job, late, cur, stray, reported, budget, opVars>>
      /\ direct[x].stage \in {"ok", "no"}
  BY DEF DirectAnswered
<1>2. PICK d : d = direct[x]
  OBVIOUS
<1>3. /\ d \in DirectType(seq) /\ DirectRow(d, x) /\ d.version \in 0..seq /\ seq \in Nat
      /\ late' \subseteq LateType(seq) /\ LateSound'
      /\ budget' \in BudgetType /\ budget'.tasks = budget.tasks /\ masked \subseteq Hrefs
  BY <1>1, <1>2, DirectRows
     DEF IInv, Typed, WritesTyped, ServerTyped, FetchTyped, DirectType, LateSound
<1>4. CASE d.stage = "no"
  <2>1. /\ direct' = [direct EXCEPT ![x] = Again(d, x)]
        /\ UNCHANGED <<cacheVars, tagVars, masked>>
    BY <1>2, <1>4 DEF DirectAnswered
  <2>2. Again(d, x) \in DirectType(seq) /\ Again(d, x).stage # "ok" /\ DirectRow(Again(d, x), x)
    BY <1>3, <1>4, AgainFacts DEF IInv
  <2>3. CachesSound
    BY <2>1, CachesStay DEF IInv
  <2>. QED
    BY <1>1, <1>3, <2>1, <2>2, <2>3, DirectOverInv
<1>5. CASE d.stage = "ok"
  <2>1. /\ direct' = [direct EXCEPT ![x] = NoDirect] /\ DirectNoted(x)
    BY <1>2, <1>5 DEF DirectAnswered
  <2>2. /\ d.by # "none" /\ d.by \in {"batch", "remove", "call"}
        /\ d.by = "batch" => d.kind \in {"create", "update", "delete"}
        /\ d.by = "remove" => d.kind = "delete"
        /\ d.by = "call" => d.kind \in {"put", "update", "delete"}
        /\ Made(d, x)
    BY <1>3, <1>5 DEF DirectRow, DirectType, Callers
  <2>3. \/ d.kind = "delete" /\ Erase({x})
        \/ d.kind # "delete" /\ \E tag \in {d.version, Bare} : Written(x, d.version, tag)
        \/ d.kind # "delete" /\ UNCHANGED cacheVars
        \/ d.kind # "delete" /\ Noted(x, "update", d.version)
    BY <1>2, <2>1, <2>2 DEF DirectNoted
  <2>4. /\ CachesSound /\ \A h \in Hrefs : h # x => cached'[h] = cached[h]
        /\ \/ d.kind = "delete" /\ cached'[x] = 0
           \/ d.kind # "delete" /\ cached'[x] \in {d.version, cached[x]}
    <3>1. CASE Erase({x}) /\ d.kind = "delete"
      BY <3>1, ErasedFacts DEF IInv
    <3>2. CASE d.kind # "delete" /\ \E tag \in {d.version, Bare} : Written(x, d.version, tag)
      BY <1>3, <3>2, WrittenFacts DEF IInv
    <3>3. CASE d.kind # "delete" /\ UNCHANGED cacheVars
      BY <3>3, CachesStay DEF IInv
    <3>4. CASE d.kind # "delete" /\ Noted(x, "update", d.version)
      BY <1>3, <3>4, UpdatedFacts DEF IInv
    <3>. QED
      BY <2>3, <3>1, <3>2, <3>3, <3>4
  <2>5. /\ ctag' \in {0, ctag} /\ token' \in {0, token}
        /\ d.by = "call" => ctag' = 0 /\ token' = 0
        /\ masked' = IF changed[x] > d.version /\ (d.by # "call" \/ cur.phase # "idle")
                     THEN masked \union {x} ELSE masked
    BY <1>2, <2>1 DEF DirectNoted, ClearTags
  <2>6. /\ d.version = changed[x] /\ d.kind # "delete" => Version(x) = d.version
        /\ d.version = changed[x] /\ d.kind = "delete" => Version(x) = 0
        /\ d.version # changed[x] => d.version < changed[x]
    BY <1>3, <2>2, MadeFacts DEF IInv
  <2>7. /\ changed[x] \in Nat /\ changed[x] >= 1 /\ d.version \in Nat
    BY <1>3 DEF IInv, Typed, ServerTyped
  <2>8. x \notin masked' => \/ cached'[x] = Version(x)
                            \/ cached'[x] = cached[x]
                            \/ cur.phase = "idle" /\ ctag' < changed[x] /\ token' < changed[x]
    BY <2>4, <2>5, <2>6, <2>7
  <2>9. NoDirect \in DirectType(seq) /\ NoDirect.stage # "ok" /\ DirectRow(NoDirect, x)
    BY <1>3, NoDirectFacts
  <2>10. masked \subseteq masked' /\ masked' \subseteq Hrefs
    BY <1>3, <2>5
  <2>. QED
    BY <1>1, <1>3, <2>1, <2>4, <2>5, <2>8, <2>9, <2>10, DirectOverInv
<1>. QED
  BY <1>1, <1>2, <1>4, <1>5

LEMMA DirectLateFacts ==
    ASSUME Typed, NEW hs \in SUBSET Hrefs
    PROVE  DirectLate(hs) \subseteq LateType(seq) /\ \A w \in DirectLate(hs) : ~w.heard
<1>1. ASSUME NEW w \in DirectLate(hs) PROVE w \in LateType(seq) /\ ~w.heard
  <2>1. PICK h \in hs :
          w = [href |-> h, heard |-> FALSE, job |-> [NoJob EXCEPT
                !.kind = direct[h].kind, !.stage = "sent", !.etag = direct[h].etag]]
    BY DEF DirectLate
  <2>2. /\ direct[h].kind \in Kind \union {"put"} /\ direct[h].etag \in Etags(seq) /\ h \in Hrefs
        /\ seq \in Nat
    BY DEF Typed, WritesTyped, DirectType, ServerTyped
  <2>3. PICK item : item = [NoJob EXCEPT
                !.kind = direct[h].kind, !.stage = "sent", !.etag = direct[h].etag]
    OBVIOUS
  <2>4. item \in JobType(seq)
    <3>1. item = [kind |-> direct[h].kind, stage |-> "sent", etag |-> direct[h].etag,
                  base |-> 0, version |-> 0]
      BY <2>3 DEF NoJob
    <3>2. 0 \in 0..seq /\ "sent" \in InFlight
      BY <2>2 DEF InFlight
    <3>. QED
      BY <2>2, <3>1, <3>2 DEF JobType
  <2>. QED
    BY <2>1, <2>2, <2>3, <2>4 DEF LateType
<1>. QED
  BY <1>1

LEMMA DirectTimesOutInv == ASSUME IInv, NEW x \in Hrefs, DirectTimesOut(x) PROVE IInv'
<1>1. /\ UNCHANGED <<serverVars, omitted, tagVars, cacheVars, factVars, job, cur, stray, reported,
                     masked, opVars>>
      /\ Spend("troubles") /\ late' = late \union DirectLate({x})
      /\ direct' = [direct EXCEPT ![x] = NoDirect]
  BY DEF DirectTimesOut
<1>2. budget' \in BudgetType /\ budget'.tasks = budget.tasks
  BY <1>1, Spent DEF IInv, Typed, ServerTyped, What
<1>3. late' \subseteq LateType(seq) /\ LateSound'
  BY <1>1, DirectLateFacts DEF IInv, Typed, WritesTyped, LateSound
<1>4. NoDirect \in DirectType(seq) /\ NoDirect.stage # "ok" /\ DirectRow(NoDirect, x)
  BY NoDirectFacts DEF IInv, Typed, ServerTyped
<1>5. CachesSound /\ masked' \subseteq Hrefs
  BY <1>1, CachesStay DEF IInv, Typed, FetchTyped
<1>. QED
  BY <1>1, <1>2, <1>3, <1>4, <1>5, DirectOverInv

(***************************************************************************)
(* The operations are asked for, started, cancelled and deleted.           *)
(***************************************************************************)
(* The server and every cache are left as they are.                        *)
CachesStill == UNCHANGED <<serverVars, tagVars, cacheVars, factVars, reported, omitted, masked>>

LEMMA OperationsOnly ==
    ASSUME IInv, CachesStill, budget' \in BudgetType, UNCHANGED direct,
           cur' = cur \/ cur' = Idle, stray' \subseteq StrayType(seq),
           cur'.phase # "idle" => stray' = stray,
           job' \in [Hrefs -> JobType(seq)],
           \A h \in Hrefs : job'[h] = job[h] \/ Unanswered(job'[h]),
           late' \subseteq LateType(seq), LateSound'
    PROVE  /\ Typed' /\ EtagSound' /\ StraySound' /\ ReadInv'
           /\ JobSound' /\ DirectSound' /\ LateSound'
<1>. USE DEF CachesStill
<1>1. /\ seq \in Nat /\ ctag \in Nat /\ token \in Nat /\ cur.at \in Nat
  BY DEF IInv, Typed, ServerTyped, CacheTyped, FetchTyped, CurType
<1>2. cur' \in CurType(seq)
  BY <1>1, IdleType DEF IInv, Typed, FetchTyped
<1>3. Typed'
  BY <1>2 DEF IInv, Typed, ServerTyped, CacheTyped, FetchTyped, WritesTyped
<1>4. EtagSound'
  BY DEF IInv, EtagSound
<1>5. StraySound'
  BY DEF IInv, StraySound, Idle
<1>6. ReadInv'
  <2>1. CASE cur' = cur
    BY <1>1, <2>1, ReadKept DEF IInv, Typed
  <2>2. CASE cur' = Idle
    <3>1. TagsBehindCache'
      BY DEF IInv, ReadInv, TagsBehindCache, Version
    <3>. QED
      BY <2>2, <3>1, ReadIdle
  <2>. QED
    BY <2>1, <2>2
<1>7. JobSound' /\ DirectSound'
  BY JobKept, DirectKept DEF IInv
<1>. QED
  BY <1>3, <1>4, <1>5, <1>6, <1>7

LEMMA IdlePhase == Idle.phase = "idle"
BY DEF Idle

LEMMA EnqueueOperationInv ==
    ASSUME IInv, NEW op \in Ops, EnqueueOperation(op) PROVE IInv'
<1>1. /\ CachesStill /\ UNCHANGED <<direct, late, cur, stray, budget>> /\ Enqueue(op)
      /\ opState[op] # "running"
  BY DEF EnqueueOperation, CachesStill, Enqueue
<1>2. OpInv'
  BY <1>1, EnqueueInv DEF IInv
<1>3. /\ seq \in Nat /\ budget' \in BudgetType /\ budget'.tasks = budget.tasks
      /\ stray' \subseteq StrayType(seq) /\ late' \subseteq LateType(seq) /\ LateSound'
      /\ job \in [Hrefs -> JobType(seq)]
  BY <1>1 DEF IInv, Typed, ServerTyped, FetchTyped, WritesTyped, LateSound
<1>4. /\ job' \in [Hrefs -> JobType(seq)]
      /\ \A h \in Hrefs : job'[h] = job[h] \/ Unanswered(job'[h])
      /\ job' = job \/ ~Writing'
  <2>1. CASE IsFetch(op)
    BY <1>3, <2>1 DEF EnqueueOperation
  <2>2. CASE ~IsFetch(op)
    <3>1. PICK plan \in [Hrefs -> {"none", "create", "update", "delete"}] :
            job' = [h \in Hrefs |-> [NoJob EXCEPT !.kind = plan[h], !.stage = "queued",
                                                  !.base = reported[h]]]
      BY <2>2 DEF EnqueueOperation
    <3>2. reported \in Upto(seq)
      BY <2>2 DEF EnqueueOperation, IInv, Typed, FetchTyped
    <3>3. ASSUME NEW h \in Hrefs
          PROVE  job'[h] \in JobType(seq) /\ Unanswered(job'[h]) /\ job'[h].stage = "queued"
      <4>1. job'[h] = [kind |-> plan[h], stage |-> "queued", etag |-> 0, base |-> reported[h],
                       version |-> 0]
        BY <3>1 DEF NoJob
      <4>2. reported[h] \in 0..seq /\ 0 \in 0..seq /\ 0 \in Etags(seq) /\ plan[h] \in Kind
        BY <1>3, <3>2 DEF Upto, Etags, Kind
      <4>3. "queued" \notin InFlight
        BY DEF InFlight
      <4>. QED
        BY <4>1, <4>2, <4>3 DEF JobType, Unanswered
    <3>4. job' \in [Hrefs -> JobType(seq)]
      BY <3>1, <3>3
    <3>5. ~Writing'
      BY <3>3 DEF Writing, InFlight
    <3>. QED
      BY <3>3, <3>4, <3>5
  <2>. QED
    BY <2>1, <2>2
<1>5. UnderWay'
  <2>1. Writing' => Writing
    BY <1>4 DEF Writing
  <2>2. /\ \A o \in Ops : o # op => opState'[o] = opState[o]
        /\ inFlight # NoOp => inFlight' = inFlight
    BY <1>1, EnqueueLeaves DEF IInv
  <2>. QED
    BY <1>1, <1>3, <2>1, <2>2, UnderWayElsewhere DEF IInv
<1>6. /\ Typed' /\ EtagSound' /\ StraySound' /\ ReadInv' /\ JobSound' /\ DirectSound' /\ LateSound'
  BY <1>1, <1>3, <1>4, OperationsOnly
<1>. QED
  BY <1>2, <1>5, <1>6 DEF IInv

LEMMA CancelOperationInv ==
    ASSUME IInv, NEW op \in Ops, CancelOperation(op) PROVE IInv'
<1>1. /\ CachesStill /\ UNCHANGED direct /\ Spend("cancels")
      /\ opState[op] \in {"pending", "running"} /\ End(op, "cancelled")
  BY DEF CancelOperation, CachesStill, CancelOp
<1>2. budget' \in BudgetType /\ budget'.tasks = budget.tasks
  BY <1>1, Spent DEF IInv, Typed, ServerTyped, What
<1>3. OpInv'
  BY <1>1, EndInv DEF IInv, Terminal
<1>4. /\ \A o \in Ops : o # op => opState'[o] = opState[o]
      /\ inFlight # op /\ inFlight # NoOp => inFlight' = inFlight
  BY <1>1, EndLeaves DEF IInv
<1>5. /\ opState[op] = "running" => inFlight = op /\ Running(op)
      /\ opState[op] = "running" /\ ~IsFetch(op) => cur.phase = "idle"
      /\ opState[op] = "running" /\ IsFetch(op) => ~Writing
  BY RunsAlone DEF IInv, Running
<1>6. /\ seq \in Nat /\ job \in [Hrefs -> JobType(seq)] /\ stray \subseteq StrayType(seq)
      /\ late \subseteq LateType(seq) /\ LateSound
  BY DEF IInv, Typed, ServerTyped, FetchTyped, WritesTyped
<1>7. CASE IsFetch(op)
  <2>1. /\ UNCHANGED <<job, late>> /\ cur' = IF Running(op) THEN Idle ELSE cur
        /\ stray' = IF InPhase(op, "probe") \/ InPhase(op, "token")
                    THEN stray \union {[what |-> cur.phase, fresh |-> cur.fresh]} ELSE stray
    BY <1>7 DEF CancelOperation
  <2>2. stray' \subseteq StrayType(seq)
    <3>1. cur.fresh \in 0..seq
      BY DEF IInv, Typed, FetchTyped, CurType
    <3>2. InPhase(op, "probe") \/ InPhase(op, "token") =>
             [what |-> cur.phase, fresh |-> cur.fresh] \in StrayType(seq)
      BY <3>1 DEF InPhase, StrayType
    <3>. QED
      BY <1>6, <2>1, <3>2
  <2>3. cur'.phase # "idle" => stray' = stray
    BY <2>1, IdlePhase DEF InPhase
  <2>4. /\ Typed' /\ EtagSound' /\ StraySound' /\ ReadInv' /\ JobSound' /\ DirectSound' /\ LateSound'
    BY <1>1, <1>2, <1>6, <2>1, <2>2, <2>3, OperationsOnly DEF LateSound
  <2>5. Writing' = Writing
    BY <2>1 DEF Writing
  <2>6. UnderWay'
    <3>1. CASE opState[op] = "running"
      BY <1>5, <1>7, <2>1, <2>5, <3>1, IdlePhase, NothingUnderWay
    <3>2. CASE opState[op] # "running"
      BY <1>2, <1>4, <2>1, <2>5, <3>2, IdlePhase, UnderWayElsewhere DEF IInv
    <3>. QED
      BY <3>1, <3>2
  <2>. QED
    BY <1>3, <2>4, <2>6 DEF IInv
<1>8. CASE ~IsFetch(op)
  <2>1. /\ UNCHANGED <<cur, stray>> /\ job' = NoJobs /\ late' = late \union Abandoned(Hrefs, TRUE)
    BY <1>8 DEF CancelOperation
  <2>2. late' \subseteq LateType(seq) /\ LateSound'
    BY <1>6, <2>1, AbandonedFacts DEF IInv, LateSound
  <2>3. job' \in [Hrefs -> JobType(seq)] /\ \A h \in Hrefs : Unanswered(job'[h])
    BY <1>6, <2>1, NoJobsFacts
  <2>4. /\ Typed' /\ EtagSound' /\ StraySound' /\ ReadInv' /\ JobSound' /\ DirectSound' /\ LateSound'
    BY <1>1, <1>2, <1>6, <2>1, <2>2, <2>3, OperationsOnly
  <2>5. ~Writing'
    BY <2>1 DEF Writing, NoJobs, NoJob, InFlight
  <2>6. UnderWay'
    <3>1. CASE opState[op] = "running"
      BY <1>5, <1>8, <2>1, <2>5, <3>1, NothingUnderWay
    <3>2. CASE opState[op] # "running"
      BY <1>2, <1>4, <2>1, <2>5, <3>2, UnderWayElsewhere DEF IInv
    <3>. QED
      BY <3>1, <3>2
  <2>. QED
    BY <1>3, <2>4, <2>6 DEF IInv
<1>. QED
  BY <1>7, <1>8

(* Steps of the operations that touch at most the writes of one of them.   *)
LEMMA JobsOnly ==
    ASSUME IInv, CachesStill, UNCHANGED <<direct, late, cur, stray, budget>>,
           job' \in [Hrefs -> JobType(seq)],
           \A h \in Hrefs : job'[h] = job[h] \/ Unanswered(job'[h])
    PROVE  /\ Typed' /\ EtagSound' /\ StraySound' /\ ReadInv'
           /\ JobSound' /\ DirectSound' /\ LateSound'
<1>1. /\ budget' \in BudgetType /\ stray' \subseteq StrayType(seq)
      /\ late' \subseteq LateType(seq) /\ LateSound'
  BY DEF IInv, Typed, ServerTyped, FetchTyped, WritesTyped, LateSound
<1>. QED
  BY <1>1, OperationsOnly

LEMMA DeleteOperationInv ==
    ASSUME IInv, NEW op \in Ops, DeleteOperation(op) PROVE IInv'
<1>1. /\ CachesStill /\ UNCHANGED <<job, direct, late, cur, stray, budget>> /\ DeleteOp(op)
      /\ job \in [Hrefs -> JobType(seq)]
  BY DEF DeleteOperation, CachesStill, IInv, Typed, WritesTyped
<1>2. /\ Typed' /\ EtagSound' /\ StraySound' /\ ReadInv' /\ JobSound' /\ DirectSound' /\ LateSound'
  BY <1>1, JobsOnly
<1>3. OpInv'
  BY <1>1, DeleteInv DEF IInv
<1>4. /\ \A o \in Ops : o # op => opState'[o] = opState[o]
      /\ inFlight = op => inFlight' = "dangling"
      /\ inFlight # op /\ inFlight # NoOp => inFlight' = inFlight
  BY <1>1, DeleteLeaves DEF IInv
<1>5. Writing' = Writing
  BY <1>1 DEF Writing
<1>6. UnderWay'
  <2>1. CASE opState[op] = "running"
    <3>1. inFlight' = "dangling"
      BY <1>4, <2>1, RunsAlone DEF IInv
    <3>. QED
      BY <1>1, <1>5, <3>1 DEF UnderWay, IInv
  <2>2. CASE opState[op] # "running"
    BY <1>1, <1>4, <1>5, <2>2, UnderWayElsewhere DEF IInv
  <2>. QED
    BY <2>1, <2>2
<1>. QED
  BY <1>2, <1>3, <1>6 DEF IInv

LEMMA StartIdleInv == ASSUME IInv, NEW op \in Ops, StartIdle(op) PROVE IInv'
<1>1. /\ CachesStill /\ UNCHANGED <<job, direct, late, cur, stray, budget>> /\ StartNothing(op)
      /\ UNCHANGED <<opState, inFlight>> /\ job \in [Hrefs -> JobType(seq)]
  BY DEF StartIdle, StartNothing, CachesStill, IInv, Typed, WritesTyped
<1>2. /\ Typed' /\ EtagSound' /\ StraySound' /\ ReadInv' /\ JobSound' /\ DirectSound' /\ LateSound'
  BY <1>1, JobsOnly
<1>3. OpInv'
  BY <1>1, StartInv DEF IInv
<1>4. UnderWay'
  <2>1. Writing' = Writing
    BY <1>1 DEF Writing
  <2>. QED
    BY <1>1, <2>1, UnderWayStays DEF IInv
<1>. QED
  BY <1>2, <1>3, <1>4 DEF IInv

LEMMA WriteBeginsInv == ASSUME IInv, NEW op \in Ops, WriteBegins(op) PROVE IInv'
<1>1. /\ CachesStill /\ UNCHANGED <<direct, late, cur, stray, budget>> /\ StartBody(op)
      /\ ~IsFetch(op) /\ op \in posted /\ opState[op] = "pending"
      /\ UNCHANGED inFlight /\ opState' = [opState EXCEPT ![op] = "running"]
  BY DEF WriteBegins, StartBody, CachesStill
<1>2. PICK hs \in Started(job, op) : job' = Sent(job, hs, localEtags)
  BY DEF WriteBegins
<1>3. /\ seq \in Nat /\ job \in [Hrefs -> JobType(seq)] /\ localEtags \in Upto(seq)
      /\ \A h \in Hrefs : job[h].kind \in Kind
  BY DEF IInv, Typed, ServerTyped, CacheTyped, WritesTyped, JobType, JobSound, Kind
<1>4. /\ job' \in [Hrefs -> JobType(seq)]
      /\ \A h \in Hrefs : job'[h] = job[h] \/ Unanswered(job'[h])
  BY <1>2, <1>3, StartedFacts, SentFacts
<1>5. /\ Typed' /\ EtagSound' /\ StraySound' /\ ReadInv' /\ JobSound' /\ DirectSound' /\ LateSound'
  BY <1>1, <1>4, JobsOnly
<1>6. OpInv'
  BY <1>1, StartInv DEF IInv
<1>7. UnderWay'
  <2>1. inFlight' = op /\ cur'.phase = "idle" /\ opState'[op] = "running"
    BY <1>1, RunsAlone DEF IInv, OpInv, OpTypeOK
  <2>2. ~IsFetch(op)'
    BY <1>1, SameTasks
  <2>. QED
    BY <2>1, <2>2 DEF UnderWay, Runs
<1>. QED
  BY <1>5, <1>6, <1>7 DEF IInv

LEMMA WriteNothingInv == ASSUME IInv, NEW op \in Ops, WriteNothing(op) PROVE IInv'
<1>1. /\ CachesStill /\ UNCHANGED <<direct, late, cur, stray, budget>> /\ job' = NoJobs
      /\ ~IsFetch(op) /\ opState[op] = "running" /\ End(op, "succeeded")
  BY DEF WriteNothing, CachesStill, Running
<1>2. /\ job' \in [Hrefs -> JobType(seq)] /\ \A h \in Hrefs : Unanswered(job'[h])
  BY <1>1, NoJobsFacts DEF IInv, Typed, ServerTyped
<1>3. /\ Typed' /\ EtagSound' /\ StraySound' /\ ReadInv' /\ JobSound' /\ DirectSound' /\ LateSound'
  BY <1>1, <1>2, JobsOnly
<1>4. OpInv'
  BY <1>1, EndInv DEF IInv, Terminal
<1>5. UnderWay'
  <2>1. ~Writing'
    BY <1>1 DEF Writing, NoJobs, NoJob, InFlight
  <2>2. cur'.phase = "idle"
    BY <1>1, RunsAlone DEF IInv
  <2>. QED
    BY <2>1, <2>2, NothingUnderWay
<1>. QED
  BY <1>3, <1>4, <1>5 DEF IInv

(***************************************************************************)
(* Discovery, strays, a restart, and the fetch itself.                     *)
(***************************************************************************)
LEMMA DiscoveredInv == ASSUME IInv, Discovered PROVE IInv'
<1>1. /\ UNCHANGED <<omitted, serverVars, tagVars, cacheVars, seeded, supports, probed, writeVars, cur,
                     reported, opVars>>
      /\ Spend("discoveries") /\ pendingCtag' = seq
      /\ stray' = stray \union {[what |-> "discovery", fresh |-> 0]}
      /\ masked \subseteq masked' /\ masked' \subseteq masked \union Hrefs
  BY DEF Discovered
<1>2. /\ seq \in Nat /\ budget' \in BudgetType /\ budget'.tasks = budget.tasks
      /\ cur.since \in Nat /\ [what |-> "discovery", fresh |-> 0] \in StrayType(seq)
  BY <1>1, Spent DEF IInv, Typed, ServerTyped, FetchTyped, CurType, What, StrayType
<1>3. Typed'
  BY <1>1, <1>2 DEF IInv, Typed, ServerTyped, CacheTyped, FetchTyped, WritesTyped
<1>4. EtagSound' /\ StraySound'
  BY <1>1, <1>2 DEF IInv, EtagSound, StraySound
<1>5. ReadInv'
  BY DiscoveredRead DEF IInv
<1>6. JobSound' /\ DirectSound' /\ LateSound'
  BY <1>1, JobKept, DirectKept DEF IInv, LateSound
<1>7. OpInv' /\ UnderWay'
  <2>1. Writing' = Writing
    BY <1>1 DEF Writing
  <2>. QED
    BY <1>1, <1>2, <2>1, OpsUnchangedInv, UnderWayStays DEF IInv, opVars
<1>. QED
  BY <1>3, <1>4, <1>5, <1>6, <1>7 DEF IInv

LEMMA StrayAnsweredInv == ASSUME IInv, NEW r \in stray, StrayAnswered(r) PROVE IInv'
<1>1. /\ UNCHANGED <<omitted, serverVars, cached, localEtags, writeVars, cur, reported, opVars, ctag>>
      /\ stray' = stray \ {r}
      /\ \/ TakeToken /\ UNCHANGED <<factVars, etagCache, budget>>
         \/ /\ \E failed \in BOOLEAN : Probed(failed)
            /\ pendingCtag' \in {pendingCtag, r.fresh} /\ UNCHANGED <<token, masked>>
            /\ SeedEtags \/ UNCHANGED <<seeded, etagCache>>
  BY DEF StrayAnswered, Stage
<1>2. r.fresh \in 0..seq /\ seq \in Nat /\ Unseen \subseteq Hrefs
  BY DEF IInv, Typed, ServerTyped, FetchTyped, StrayType, Unseen, Returning
<1>3. Spend("troubles") \/ UNCHANGED budget
  BY <1>1 DEF Probed, Trouble
<1>4. budget' \in BudgetType /\ budget'.tasks = budget.tasks
  BY <1>3, Spent DEF IInv, Typed, ServerTyped, What
<1>5. /\ supports' \in BOOLEAN /\ probed' \in BOOLEAN
      /\ ctag' \in 0..seq /\ token' \in 0..seq /\ pendingCtag' \in 0..seq
      /\ masked \subseteq masked' /\ masked' \subseteq Hrefs
      /\ SeedEtags \/ UNCHANGED <<seeded, etagCache>>
  <2>1. /\ seq \in 0..seq /\ ctag \in 0..seq /\ token \in 0..seq /\ pendingCtag \in 0..seq
        /\ supports \in BOOLEAN /\ probed \in BOOLEAN /\ masked \subseteq Hrefs
    BY <1>2 DEF IInv, Typed, CacheTyped, FetchTyped
  <2>2. CASE TakeToken /\ UNCHANGED <<factVars, etagCache, budget>>
    BY <1>1, <1>2, <2>1, <2>2 DEF TakeToken
  <2>3. CASE /\ \E failed \in BOOLEAN : Probed(failed)
             /\ pendingCtag' \in {pendingCtag, r.fresh} /\ UNCHANGED <<token, masked>>
             /\ SeedEtags \/ UNCHANGED <<seeded, etagCache>>
    BY <1>1, <1>2, <2>1, <2>3, RemoteAssumption DEF Probed
  <2>. QED
    BY <1>1, <2>2, <2>3
<1>6. CacheTyped' /\ EtagSound'
  BY <1>1, <1>5, Seeds DEF IInv
<1>7. ServerTyped' /\ FetchTyped' /\ WritesTyped'
  BY <1>1, <1>4, <1>5 DEF IInv, Typed, ServerTyped, FetchTyped, WritesTyped
<1>8. StraySound' /\ LateSound'
  BY <1>1 DEF IInv, StraySound, LateSound
<1>9. ReadInv'
  BY StrayAnsweredRead DEF IInv
<1>10. JobSound'
  <2>1. CASE TakeToken
    BY <1>1, <2>1, JobMasked DEF IInv
  <2>2. CASE UNCHANGED <<token, masked>>
    BY <1>1, <2>2, JobKept DEF IInv
  <2>. QED
    BY <1>1, <2>1, <2>2
<1>11. DirectSound'
  BY <1>1, DirectKept DEF IInv
<1>12. OpInv' /\ UnderWay'
  <2>1. Writing' = Writing
    BY <1>1 DEF Writing
  <2>. QED
    BY <1>1, <1>4, <2>1, OpsUnchangedInv, UnderWayStays DEF IInv, opVars
<1>. QED
  BY <1>6, <1>7, <1>8, <1>9, <1>10, <1>11, <1>12 DEF IInv, Typed

LEMMA RestartInv == ASSUME IInv, Restart PROVE IInv'
<1>1. /\ Spend("restarts") /\ UNCHANGED <<omitted, serverVars, tagVars, cached, masked>>
      /\ cur' = Idle /\ job' = NoJobs /\ direct' = [h \in Hrefs |-> NoDirect]
      /\ stray' = {} /\ reported' = <<>>
      /\ etagCache' = Nothing /\ localEtags' = Nothing
      /\ seeded' = FALSE /\ pendingCtag' = 0 /\ supports' = FALSE /\ probed' = FALSE
  BY DEF Restart
<1>2. /\ budget' \in BudgetType /\ budget'.tasks = budget.tasks /\ seq \in Nat
      /\ Idle \in CurType(seq) /\ Nothing \in Upto(seq) /\ Nothing \in EtagMap(seq)
  BY <1>1, Spent, IdleType, MapTypes DEF IInv, Typed, ServerTyped, What
<1>3. late' \subseteq LateType(seq) /\ LateSound'
  <2>1. ASSUME NEW v \in late' PROVE v \in LateType(seq) /\ ~v.heard
    <3>1. PICK w \in late \union Abandoned(Hrefs, FALSE) \union DirectLate(Hrefs) :
            v = [w EXCEPT !.heard = FALSE]
      BY DEF Restart
    <3>2. w \in LateType(seq)
      BY AbandonedFacts, DirectLateFacts DEF IInv, Typed, WritesTyped
    <3>. QED
      BY <3>1, <3>2 DEF LateType
  <2>. QED
    BY <2>1 DEF LateSound
<1>4. ServerTyped' /\ CacheTyped' /\ FetchTyped'
  <2>1. ServerTyped'
    BY <1>1, <1>2 DEF IInv, Typed, ServerTyped
  <2>2. CacheTyped'
    <3>1. /\ cached' \in Upto(seq') /\ localEtags' \in Upto(seq')
          /\ ctag' \in 0..seq' /\ token' \in 0..seq' /\ pendingCtag' \in 0..seq'
      BY <1>1, <1>2 DEF IInv, Typed, CacheTyped
    <3>2. etagCache' \in [Hrefs -> {Bare} \union 0..seq']
      BY <1>1, <1>2 DEF EtagMap
    <3>3. seeded' \in BOOLEAN /\ supports' \in BOOLEAN /\ probed' \in BOOLEAN
      BY <1>1
    <3>. QED
      BY <3>1, <3>2, <3>3 DEF CacheTyped
  <2>3. FetchTyped'
    BY <1>1, <1>2 DEF IInv, Typed, FetchTyped
  <2>. QED
    BY <2>1, <2>2, <2>3
<1>5. WritesTyped' /\ DirectSound' /\ JobSound'
  <2>1. job' \in [Hrefs -> JobType(seq)] /\ \A h \in Hrefs : Unanswered(job'[h])
    BY <1>1, <1>2, NoJobsFacts
  <2>2. /\ direct' \in [Hrefs -> DirectType(seq)]
        /\ \A h \in Hrefs : direct'[h].stage # "ok" /\ DirectRow(direct'[h], h)
    BY <1>1, <1>2, NoDirectFacts
  <2>3. WritesTyped'
    BY <1>1, <1>3, <2>1, <2>2 DEF WritesTyped
  <2>4. JobSound'
    BY <1>1, <2>1, JobKept DEF IInv
  <2>5. DirectSound'
    BY <1>1, <2>2, DirectKept DEF IInv
  <2>. QED
    BY <2>3, <2>4, <2>5
<1>6. EtagSound' /\ StraySound'
  BY <1>1 DEF EtagSound, StraySound, Nothing
<1>7. ReadInv'
  BY RestartRead DEF IInv
<1>8. OpInv'
  BY OpRestartInv DEF IInv, Restart
<1>9. UnderWay'
  <2>1. ~Writing' /\ cur'.phase = "idle"
    BY <1>1, IdlePhase DEF Writing, NoJobs, NoJob, InFlight
  <2>. QED
    BY <2>1, NothingUnderWay
<1>. QED
  BY <1>3, <1>4, <1>5, <1>6, <1>7, <1>8, <1>9 DEF IInv, Typed

LEMMA FetchBeginsInv == ASSUME IInv, NEW op \in Ops, FetchBegins(op) PROVE IInv'
<1>1. /\ IsFetch(op) /\ StartBody(op) /\ op \in posted /\ opState[op] = "pending"
      /\ UNCHANGED <<serverVars, tagVars, writeVars, stray, masked, budget, inFlight>>
      /\ opState' = [opState EXCEPT ![op] = "running"]
      /\ \/ cur' = [[Idle EXCEPT !.since = seq] EXCEPT !.phase = "list"]
         \/ cur' = [[Idle EXCEPT !.since = seq] EXCEPT !.phase = "ctag", !.stored = ctag]
  BY DEF FetchBegins, StartBody
<1>2. Typed' /\ EtagSound'
  BY FetchTypes DEF IInv, FetchTurn
<1>3. ReadInv'
  BY FetchBeginsRead DEF IInv
<1>4. OpInv'
  BY <1>1, StartInv DEF IInv
<1>5. StraySound'
  <2>1. cur'.since = seq
    BY <1>1 DEF Idle
  <2>. QED
    BY <1>1, <2>1 DEF StraySound, IInv, Typed, ServerTyped, FetchTyped, StrayType
<1>6. JobSound' /\ DirectSound' /\ LateSound'
  BY <1>1, JobKept, DirectKept DEF IInv, LateSound
<1>7. UnderWay'
  <2>1. inFlight' = op /\ ~Writing /\ opState'[op] = "running"
    BY <1>1, RunsAlone DEF IInv, OpInv, OpTypeOK
  <2>2. IsFetch(op)' /\ ~Writing'
    BY <1>1, <2>1, SameTasks DEF Writing
  <2>. QED
    BY <2>1, <2>2 DEF UnderWay, Runs
<1>. QED
  BY <1>2, <1>3, <1>4, <1>5, <1>6, <1>7 DEF IInv

LEMMA FetchTurnInv == ASSUME IInv, NEW op \in Ops, FetchTurn(op) PROVE IInv'
<1>1. CASE FetchBegins(op)
  BY <1>1, FetchBeginsInv
<1>2. CASE ~FetchBegins(op)
  <2>1. FetchStep(op) /\ ReadInv'
    BY <1>2, FetchSteps DEF IInv
  <2>2. Typed' /\ EtagSound'
    BY FetchTypes DEF IInv
  <2>3. /\ UNCHANGED <<seq, changed, there, job, direct, late, stray>>
        /\ budget' \in BudgetType /\ budget'.tasks = budget.tasks /\ masked \subseteq masked'
    BY FetchFrame DEF IInv, Typed, ServerTyped
  <2>4. ~Writing /\ Writing' = Writing
    BY <2>1, <2>3 DEF FetchStep, IInv, UnderWay, Writing
  <2>5. JobSound' /\ DirectSound' /\ LateSound'
    BY <2>3, <2>4, JobIdle, JobKept, DirectKept DEF IInv, LateSound, JobSound, Writing, InFlight
  <2>6. OpInv' /\ UnderWay' /\ StraySound'
    <3>1. CASE GoesOn
      <4>1. OpInv' /\ UnderWay'
        BY <2>1, <2>3, <2>4, <3>1, OpsUnchangedInv, UnderWayStays
           DEF GoesOn, FetchStep, IInv, opVars
      <4>. QED
        BY <2>1, <2>3, <3>1, <4>1 DEF GoesOn, FetchStep, IInv, StraySound
    <3>2. CASE EndsBadly(op) \/ EndsWell(op)
      <4>1. cur' = Idle /\ \E outcome \in Terminal : End(op, outcome)
        BY <3>2 DEF EndsBadly, EndsWell, Terminal
      <4>2. OpInv'
        BY <2>1, <4>1, EndInv DEF FetchStep, Running, IInv
      <4>. QED
        BY <2>4, <4>1, <4>2, IdlePhase, NothingUnderWay DEF StraySound
    <3>. QED
      BY <2>1, <3>1, <3>2 DEF FetchStep
  <2>. QED
    BY <2>1, <2>2, <2>5, <2>6 DEF IInv
<1>. QED
  BY <1>1, <1>2

(***************************************************************************)
(* The theorems.                                                           *)
(***************************************************************************)
LEMMA InitInv == Init => IInv
<1>. SUFFICES ASSUME Init PROVE IInv
  OBVIOUS
<1>1. /\ seq = 1 /\ seq \in 1..MaxSeq /\ changed = [h \in Hrefs |-> 1] /\ there \in [Hrefs -> BOOLEAN]
      /\ budget \in BudgetType
  BY RemoteAssumption DEF Init
<1>2. /\ Server \in Upto(1) /\ Nothing \in Upto(1) /\ Nothing \in EtagMap(1) /\ Idle \in CurType(1)
      /\ \A h \in Hrefs : Server[h] = Version(h)
  <2>1. \A h \in Hrefs : Version(h) \in 0..1
    BY <1>1 DEF Version
  <2>2. Server \in Upto(1)
    BY <2>1 DEF Server, Upto
  <2>. QED
    BY <2>2, IdleType, MapTypes DEF Server
<1>3. cached \in Upto(1) /\ ctag \in 0..1 /\ token \in 0..1
  BY <1>2 DEF Init
<1>4. ServerTyped /\ CacheTyped /\ FetchTyped
  <2>1. ServerTyped
    BY <1>1 DEF ServerTyped
  <2>2. CacheTyped
    <3>1. /\ cached \in Upto(seq) /\ localEtags \in Upto(seq)
          /\ ctag \in 0..seq /\ token \in 0..seq /\ pendingCtag \in 0..seq
      BY <1>1, <1>2, <1>3 DEF Init
    <3>2. etagCache \in [Hrefs -> {Bare} \union 0..seq]
      BY <1>1, <1>2 DEF Init, EtagMap
    <3>3. seeded \in BOOLEAN /\ supports \in BOOLEAN /\ probed \in BOOLEAN
      BY DEF Init
    <3>. QED
      BY <3>1, <3>2, <3>3 DEF CacheTyped
  <2>3. FetchTyped
    BY <1>1, <1>2 DEF Init, FetchTyped
  <2>. QED
    BY <2>1, <2>2, <2>3
<1>5. WritesTyped /\ DirectSound /\ JobSound /\ LateSound
  <2>1. NoJobs \in [Hrefs -> JobType(1)] /\ \A h \in Hrefs : Unanswered(NoJobs[h])
    BY NoJobsFacts
  <2>2. /\ NoDirect \in DirectType(1)
        /\ \A h \in Hrefs : NoDirect.stage # "ok" /\ DirectRow(NoDirect, h)
    BY NoDirectFacts
  <2>3. WritesTyped /\ LateSound
    BY <1>1, <2>1, <2>2 DEF Init, WritesTyped, LateSound
  <2>4. DirectSound
    BY <2>2, DirectRows DEF Init
  <2>5. JobSound
    BY <2>1 DEF Init, JobSound, Unanswered, Kind
  <2>. QED
    BY <2>3, <2>4, <2>5
<1>6. EtagSound /\ StraySound
  BY DEF Init, EtagSound, StraySound, Nothing
<1>7. ReadInv
  <2>1. TagsBehindCache
    BY <1>1, <1>2 DEF Init, TagsBehindCache
  <2>. QED
    BY <2>1 DEF Init, ReadInv, CompareSound, TimesSound, GotSound, RestSound, ListSound,
               ResultSound, Reading, Idle
<1>8. UnderWay
  BY DEF Init, UnderWay, Writing, NoJobs, NoJob, InFlight, Idle
<1>9. OpInv
  BY OpInitInv DEF Init
<1>. QED
  BY <1>4, <1>5, <1>6, <1>7, <1>8, <1>9 DEF IInv, Typed

LEMMA StutterInv == ASSUME IInv, UNCHANGED vars PROVE IInv'
<1>1. /\ CachesStill /\ UNCHANGED <<job, direct, late, cur, stray, budget, opVars>>
      /\ job \in [Hrefs -> JobType(seq)]
  BY DEF vars, CachesStill, IInv, Typed, WritesTyped
<1>2. /\ Typed' /\ EtagSound' /\ StraySound' /\ ReadInv' /\ JobSound' /\ DirectSound' /\ LateSound'
  BY <1>1, JobsOnly
<1>3. Writing' = Writing
  BY <1>1 DEF Writing
<1>4. OpInv' /\ UnderWay'
  BY <1>1, <1>3, OpsUnchangedInv, UnderWayStays DEF IInv, opVars
<1>. QED
  BY <1>2, <1>4 DEF IInv

(* The inductive invariant, for any number of items and operations, any    *)
(* sizes of a batch and of the window, any server, and any budget.         *)
THEOREM Invariance == Spec => []IInv
<1>1. Init => IInv
  BY InitInv
<1>2. IInv /\ [Next]_vars => IInv'
  <2>. SUFFICES ASSUME IInv, [Next]_vars PROVE IInv'
    OBVIOUS
  <2>1. ASSUME NEW h \in Hrefs, ForeignChange(h) \/ WriteArrives(h) PROVE IInv'
    BY <2>1, ForeignChangeInv, WriteArrivesInv
  <2>2. CASE DirectWrite
    BY <2>2, DirectWriteInv
  <2>3. ASSUME NEW h \in Hrefs, DirectArrives(h) \/ DirectAnswered(h) \/ DirectTimesOut(h)
        PROVE  IInv'
    BY <2>3, DirectArrivesInv, DirectAnsweredInv, DirectTimesOutInv
  <2>4. ASSUME NEW op \in Ops,
               EnqueueOperation(op) \/ CancelOperation(op) \/ DeleteOperation(op) \/ StartIdle(op)
        PROVE  IInv'
    BY <2>4, EnqueueOperationInv, CancelOperationInv, DeleteOperationInv, StartIdleInv
  <2>5. ASSUME NEW op \in Ops, FetchTurn(op) PROVE IInv'
    BY <2>5, FetchTurnInv
  <2>6. ASSUME NEW op \in Ops, WriteTurn(op) PROVE IInv'
    BY <2>6, WriteBeginsInv, WriteNothingInv, WriteAnsweredInv, WriteTimesOutInv DEF WriteTurn
  <2>7. ASSUME NEW w \in late, LateWriteArrives(w) \/ LateWriteAnswered(w) PROVE IInv'
    BY <2>7, LateWriteArrivesInv, LateWriteAnsweredInv
  <2>8. CASE Discovered \/ Restart
    BY <2>8, DiscoveredInv, RestartInv
  <2>9. ASSUME NEW r \in stray, StrayAnswered(r) PROVE IInv'
    BY <2>9, StrayAnsweredInv
  <2>10. CASE UNCHANGED vars
    BY <2>10, StutterInv
  <2>. QED
    BY <2>1, <2>2, <2>3, <2>4, <2>5, <2>6, <2>7, <2>8, <2>9, <2>10 DEF Next
<1>. QED
  BY <1>1, <1>2, PTL DEF Spec

(* A stored ctag or token is never ahead of the content cache, but for the *)
(* items the code is known to lose (CTagStore and CalDavContentCache in    *)
(* remotecalendarbackend.cpp).                                             *)
THEOREM CacheKeepsUp == Spec => []TagsBehindCache
<1>1. IInv => TagsBehindCache
  BY DEF IInv, ReadInv
<1>. QED
  BY <1>1, Invariance, PTL

(* What holds of the operations of any backend holds of this one: one at a *)
(* time, in the order they were asked for, none forgotten.                 *)
THEOREM QueueKept == Spec => []OpInv
<1>1. IInv => OpInv
  BY DEF IInv
<1>. QED
  BY <1>1, Invariance, PTL

(* Every variable has its type, and only the operation whose turn it is    *)
(* has a fetch or a write under way.                                       *)
THEOREM TypeCorrect == Spec => []TypeOK
<1>1. IInv => TypeOK
  <2>. SUFFICES ASSUME IInv PROVE TypeOK
    OBVIOUS
  <2>1. /\ OpTypeOK /\ seq \in 1..MaxSeq /\ MaxSeq \in Nat /\ there \in [Hrefs -> BOOLEAN]
        /\ changed \in [Hrefs -> 1..seq] /\ budget \in BudgetType
    BY RemoteAssumption DEF IInv, OpInv, Typed, ServerTyped
  <2>2. changed \in [Hrefs -> 1..MaxSeq]
    BY <2>1
  <2>3. /\ cached \in [Hrefs -> 0..seq] /\ ctag \in 0..seq /\ token \in 0..seq
        /\ etagCache \in [Hrefs -> {Bare} \union 0..seq] /\ localEtags \in [Hrefs -> 0..seq]
        /\ pendingCtag \in 0..seq /\ masked \subseteq Hrefs
    BY DEF IInv, Typed, CacheTyped, FetchTyped, Upto
  <2>4. \A h \in Hrefs : direct[h].by \in {"none"} \union Callers
    BY DEF IInv, Typed, WritesTyped, DirectType
  <2>5. cur.phase # "idle" => inFlight = "dangling" \/ \E op \in Ops : IsFetch(op) /\ Running(op)
    BY DEF IInv, UnderWay, Runs, Running
  <2>6. Items(job, InFlight) # {} =>
          inFlight = "dangling" \/ \E op \in Ops : ~IsFetch(op) /\ Running(op)
    BY DEF IInv, UnderWay, Runs, Running, Items, Writing
  <2>7. DOMAIN budget.tasks \subseteq Ops
    BY <2>1 DEF BudgetType
  <2>. QED
    BY <2>1, <2>2, <2>3, <2>4, <2>5, <2>6, <2>7 DEF TypeOK
<1>. QED
  BY <1>1, Invariance, PTL

(* Only its own step makes a fetch succeed.                                *)
Succeeding(op) == IsFetch(op) /\ opState[op] # "succeeded" /\ opState'[op] = "succeeded"
LEMMA OnlyFetchesSucceed ==
    ASSUME IInv, NEW op \in Ops, Succeeding(op), Next
    PROVE  FetchTurn(op) /\ ~FetchBegins(op)
<1>. USE DEF Succeeding
<1>1. OpInv /\ opState \in [Ops -> {"unborn", "pending", "running", "deleted"} \union Terminal]
  BY DEF IInv, OpInv, OpTypeOK
<1>2. ~UNCHANGED opVars
  BY DEF opVars
<1>3. ASSUME NEW h \in Hrefs
      PROVE  /\ ~ForeignChange(h) /\ ~WriteArrives(h)
             /\ ~DirectArrives(h) /\ ~DirectAnswered(h) /\ ~DirectTimesOut(h)
  BY <1>2 DEF ForeignChange, WriteArrives, DirectArrives, DirectAnswered, DirectTimesOut
<1>4. ~DirectWrite
  BY <1>2 DEF DirectWrite, StartSync, RemoveItem, CallRecord, Launch
<1>5. ASSUME NEW w PROVE ~LateWriteArrives(w) /\ ~LateWriteAnswered(w) /\ ~StrayAnswered(w)
  BY <1>2 DEF LateWriteArrives, LateWriteAnswered, StrayAnswered
<1>6. ~Discovered /\ ~Restart
  BY <1>2 DEF Discovered, Restart
<1>7. ASSUME NEW other \in Ops
      PROVE  /\ ~EnqueueOperation(other) /\ ~CancelOperation(other) /\ ~DeleteOperation(other)
             /\ ~StartIdle(other) /\ ~WriteBegins(other) /\ ~FetchBegins(other)
  <2>1. CASE EnqueueOperation(other)
    <3>1. Enqueue(other)
      BY <2>1 DEF EnqueueOperation
    <3>. QED
      BY <1>1, <3>1, EnqueueLeaves
  <2>2. CASE CancelOperation(other)
    <3>1. End(other, "cancelled")
      BY <2>2 DEF CancelOperation, CancelOp
    <3>. QED
      BY <1>1, <3>1, EndLeaves
  <2>3. CASE DeleteOperation(other)
    <3>1. DeleteOp(other)
      BY <2>3 DEF DeleteOperation
    <3>. QED
      BY <1>1, <3>1, DeleteLeaves
  <2>4. CASE StartIdle(other)
    BY <2>4 DEF StartIdle, StartNothing
  <2>5. CASE WriteBegins(other) \/ FetchBegins(other)
    <3>1. opState' = [opState EXCEPT ![other] = "running"]
      BY <2>5 DEF WriteBegins, FetchBegins, StartBody
    <3>. QED
      BY <1>1, <3>1
  <2>. QED
    BY <2>1, <2>2, <2>3, <2>4, <2>5
<1>8. ASSUME NEW other \in Ops, NEW h \in Hrefs
      PROVE  ~WriteNothing(other) /\ ~WriteAnswered(other, h) /\ ~WriteTimesOut(other, h)
  <2>1. SUFFICES ASSUME ~IsFetch(other), \E outcome : End(other, outcome) PROVE FALSE
    BY <1>2 DEF WriteNothing, WriteAnswered, WriteTimesOut, ItemDone
  <2>2. opState'[op] = opState[op]
    BY <1>1, <2>1, EndLeaves
  <2>. QED
    BY <2>2
<1>9. ASSUME NEW other \in Ops PROVE ~WriteTurn(other)
  <2>1. ~WriteNothing(other)
    <3>1. SUFFICES ASSUME ~IsFetch(other), End(other, "succeeded") PROVE FALSE
      BY DEF WriteNothing
    <3>. QED
      BY <1>1, <3>1, EndLeaves
  <2>. QED
    BY <1>7, <1>8, <2>1 DEF WriteTurn
<1>10. PICK other \in Ops : FetchTurn(other)
  BY <1>3, <1>4, <1>5, <1>6, <1>7, <1>9 DEF Next
<1>11. other = op
  <2>1. GoesOn \/ EndsBadly(other) \/ EndsWell(other)
    BY <1>7, <1>10, FetchSteps DEF IInv, FetchStep
  <2>2. \E outcome : End(other, outcome)
    BY <1>2, <2>1 DEF GoesOn, EndsBadly, EndsWell
  <2>. QED
    BY <1>1, <2>2, EndLeaves
<1>. QED
  BY <1>7, <1>10, <1>11

(* A fetch that succeeds reports every item that did not change while it   *)
(* ran as the server has it, and none that is not there, but for what the  *)
(* server left out and what the code is known to lose.                     *)
THEOREM FetchesTellTheTruth == Spec => FetchTellsTheTruth
<1>1. ASSUME IInv, [Next]_vars
      PROVE  [\A op \in Ops :
                (IsFetch(op) /\ opState[op] # "succeeded" /\ opState'[op] = "succeeded") =>
                   \A h \in Hrefs \ (masked' \union omitted') :
                      changed[h] <= cur.since => reported'[h] = Version(h)]_vars
  <2>1. CASE UNCHANGED vars
    BY <2>1
  <2>2. CASE Next
    <3>1. ASSUME NEW op \in Ops, Succeeding(op) PROVE TellsTheTruth
      <4>1. FetchTurn(op) /\ ~FetchBegins(op)
        BY <2>2, <3>1, OnlyFetchesSucceed, <1>1
      <4>2. FetchStep(op)
        BY <4>1, FetchSteps, <1>1 DEF IInv
      <4>3. ~UNCHANGED opVars
        BY <3>1 DEF Succeeding, opVars
      <4>4. ~EndsBadly(op)
        <5>1. SUFFICES ASSUME End(op, "failed") PROVE FALSE
          BY DEF EndsBadly
        <5>2. opState'[op] = "failed"
          BY <1>1, <5>1, EndLeaves DEF IInv
        <5>. QED
          BY <3>1, <5>2 DEF Succeeding
      <4>. QED
        BY <4>2, <4>3, <4>4 DEF FetchStep, GoesOn
    <3>. QED
      BY <3>1 DEF Succeeding, TellsTheTruth
  <2>. QED
    BY <1>1, <2>1, <2>2
<1>. QED
  BY <1>1, Invariance, PTL DEF Spec, FetchTellsTheTruth

===============================================================================
