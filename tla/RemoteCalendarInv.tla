-------------------------- MODULE RemoteCalendarInv --------------------------
(***************************************************************************)
(* The inductive invariant of RemoteCalendar: what a fetch may rely on at  *)
(* each of its stages while the server and the cache change under it, and  *)
(* what a write that is still to be answered may put into the cache.       *)
(***************************************************************************)
EXTENDS RemoteCalendar

Upto(n) == [Hrefs -> 0..n]
Phases == {"idle", "ctag", "probe", "list", "get", "delta", "report", "token"}
Kind == {"none", "create", "update", "delete"}
CurType(n) ==
    [phase : Phases, since : 0..n, stored : 0..n, from : 0..n, fresh : 0..n, at : 0..n,
     list : Upto(n), asked : SUBSET Hrefs, want : SUBSET Hrefs, got : Upto(n), result : Upto(n)]
Etags(n) == {AnyEtag} \union 0..n
JobType(n) ==
    [kind : Kind \union {"put"}, stage : {"idle", "queued", "done", "bad"} \union InFlight,
     etag : Etags(n), base : 0..n, version : 0..n]
DirectType(n) ==
    [by : {"none"} \union Callers, kind : Kind \union {"put"},
     stage : {"idle"} \union InFlight, etag : Etags(n), version : 0..n]
LateType(n) == [href : Hrefs, job : JobType(n), heard : BOOLEAN]
StrayType(n) == [what : {"probe", "token", "discovery"}, fresh : 0..n]

ServerTyped ==
    /\ seq \in 1..MaxSeq /\ changed \in [Hrefs -> 1..seq] /\ there \in [Hrefs -> BOOLEAN]
    /\ budget \in BudgetType
CacheTyped ==
    /\ cached \in Upto(seq) /\ localEtags \in Upto(seq)
    /\ etagCache \in [Hrefs -> {Bare} \union 0..seq]
    /\ ctag \in 0..seq /\ token \in 0..seq /\ pendingCtag \in 0..seq
    /\ seeded \in BOOLEAN /\ supports \in BOOLEAN /\ probed \in BOOLEAN
FetchTyped ==
    /\ cur \in CurType(seq) /\ stray \subseteq StrayType(seq)
    /\ reported = <<>> \/ reported \in Upto(seq)
    /\ omitted \subseteq Hrefs /\ masked \subseteq Hrefs
WritesTyped ==
    /\ job \in [Hrefs -> JobType(seq)] /\ direct \in [Hrefs -> DirectType(seq)]
    /\ late \subseteq LateType(seq)
Typed == ServerTyped /\ CacheTyped /\ FetchTyped /\ WritesTyped

(* One operation of the collection is under way, a fetch or a write; when  *)
(* its caller deleted it, its place is never free again.                   *)
Writing == \E h \in Hrefs : job[h].stage \in InFlight
Runs == inFlight \in Ops /\ opState[inFlight] = "running"
UnderWay ==
    /\ cur.phase # "idle" => inFlight = "dangling" \/ (Runs /\ IsFetch(inFlight))
    /\ Writing => inFlight = "dangling" \/ (Runs /\ ~IsFetch(inFlight))
    /\ cur.phase # "idle" => ~Writing

(* An etag that a listing may find equal goes with the content it is of.   *)
EtagSound == \A h \in Hrefs : etagCache[h] \in {0, Bare, cached[h]}

(* While the ctag or a report is asked for, the cache is in step with the  *)
(* stored ctag, or the token, that the answer will be compared with.       *)
InStep(t) == \A h \in Hrefs \ masked : changed[h] <= t => cached[h] = Version(h)
CompareSound ==
    /\ cur.phase = "ctag" => InStep(cur.stored)
    /\ cur.phase = "report" => InStep(cur.from)
    /\ cur.phase \in {"ctag", "probe", "list", "report"} => cur.got = Nothing

(* While items are read: what has not changed since the listing or the     *)
(* report is in the cache, was read, or is still to be asked for; what     *)
(* changed since is newer than every tag that may be stored at the end.    *)
Reading == cur.phase \in {"get", "delta"}
TimesSound ==
    Reading => /\ cur.since <= cur.at /\ cur.fresh <= cur.at /\ ctag <= cur.at
               /\ cur.want \subseteq cur.asked
GotSound ==
    Reading => \A h \in Hrefs :
        /\ cur.got[h] # 0 => h \in cur.asked
        /\ changed[h] <= cur.at =>
              /\ h \in cur.asked => there[h]
              /\ cur.got[h] \in {0, Version(h)}
              /\ h \in (cur.asked \ cur.want) \ omitted => cur.got[h] = Version(h)
RestSound ==
    Reading => \A h \in Hrefs \ masked :
        /\ changed[h] <= cur.at /\ h \notin cur.asked => cached[h] = Version(h)
        /\ changed[h] > cur.at => changed[h] > pendingCtag
        /\ cur.got[h] \notin {0, Version(h)} => changed[h] > token
ListSound ==
    cur.phase = "get" => \A h \in Hrefs :
        /\ changed[h] <= cur.at => cur.list[h] = Version(h)
        /\ h \in cur.asked => cur.list[h] # 0

(* What a fetch has still to report when only a token is asked for.        *)
ResultSound ==
    cur.phase = "token" => \A h \in Hrefs \ (masked \union omitted) :
        changed[h] <= cur.since => cur.result[h] = Version(h)

(* A probe nobody waits for is older than the fetch that runs.             *)
StraySound == \A r \in stray : cur.phase # "idle" => r.fresh <= cur.since

(* A write that has reached the server and is not answered yet.            *)
Made(w, h) ==
    /\ w.version <= changed[h]
    /\ w.version = changed[h] => there[h] = (w.kind # "delete")
JobSound ==
    \A h \in Hrefs :
        /\ job[h].kind # "put" /\ (job[h].stage \in InFlight => job[h].kind # "none")
        /\ job[h].stage = "ok" =>
              /\ Made(job[h], h) /\ ctag < job[h].version
              /\ h \notin masked /\ job[h].version < changed[h] => changed[h] > token
DirectSound ==
    \A h \in Hrefs :
        /\ direct[h].by = "none" <=> direct[h].stage = "idle"
        /\ direct[h].by = "batch" => direct[h].kind \in {"create", "update", "delete"}
        /\ direct[h].by = "remove" => direct[h].kind = "delete"
        /\ direct[h].by = "call" => direct[h].kind \in {"put", "update", "delete"}
        /\ direct[h].stage = "ok" => Made(direct[h], h)
LateSound == \A w \in late : w.heard => w.job.kind = "update"

ReadInv ==
    /\ TagsBehindCache /\ CompareSound /\ TimesSound /\ GotSound /\ RestSound /\ ListSound
    /\ ResultSound
IInv ==
    /\ OpInv /\ Typed /\ UnderWay /\ EtagSound /\ StraySound
    /\ ReadInv /\ JobSound /\ DirectSound /\ LateSound
=============================================================================
