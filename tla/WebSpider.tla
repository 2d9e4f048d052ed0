------------------------------ MODULE WebSpider ------------------------------
(***************************************************************************)
(* The download of a web site (netwox modules/webspider).  Every url is in *)
(* one of three hashes: those to download, those in progress, and those    *)
(* downloaded.  A manager launches one thread per url, never more than     *)
(* maxthreads at a time, and reads the pages they bring for other urls;    *)
(* with one thread it downloads the urls itself.                           *)
(*                                                                         *)
(* netwib_threadlist_wait, which Brute details, is one step: it finds any  *)
(* thread that ended, or none when it must not wait, since a thread may    *)
(* end behind its walk.                                                    *)
(***************************************************************************)
EXTENDS Integers, FiniteSets, SequencesExt

CONSTANTS
  Sites,    \* what the user asks and what the hosts answer: a bound of the check
  LevelMax  \* the greatest level of recursion that 16 bits hold (0xFFFF)

VARIABLES
  site,        \* the parameters, and the pages: their links and their type
  spider,      \* the locals of the manager
  todownload,  \* phashurlstodownload: level and type of each url
  inprogress,  \* phashurlsinprogress
  downloaded,  \* phashdownloadedurls: was the page read for urls?  (and at
               \* which level, kept by the model only)
  list         \* the list of threads: what each downloads, and how it goes

UriContain == {"UNKNOWN", "HTML", "IMAGE", "MULTIMEDIA", "CODE", "URIREF", "DATA"}
Link == [url : STRING, type : UriContain]

\* The urls that the access list lets through have an answer.
SitesAreSound ==
  /\ LevelMax \in Nat /\ LevelMax >= 2
  /\ \A s \in Sites :
       /\ \A u \in DOMAIN s.links : s.links[u] \in Seq(Link)
       /\ s.start \in Seq(STRING) /\ s.acl \subseteq DOMAIN s.links
       /\ {s.maxthreads, s.maxrecursion} \subseteq Nat

vars == <<site, spider, todownload, inprogress, downloaded, list>>

Empty == [u \in {} |-> 0]

Init ==
  /\ site \in Sites
  /\ spider = [pc |-> "init", abstime |-> "unset", ret |-> "OK"]
  /\ todownload = Empty /\ downloaded = Empty
  /\ inprogress = {} /\ list = <<>>

At(pc) == spider.pc = pc
Goes(pc) == spider' = [spider EXCEPT !.pc = pc]
Fails(pc) == spider' = [spider EXCEPT !.pc = pc, !.ret = "ERROR"]

-----------------------------------------------------------------------------
(* netwox_webspiderurl1_add *)

\* Pages of the last level are not followed; what they show is.
LevelAllows(level, type) ==
  site.maxrecursion # 0 =>
    level <= IF type = "HTML" THEN site.maxrecursion ELSE site.maxrecursion + 1

Wanted(link, level) ==
  /\ link.type \in {"HTML"} \union site.get
  /\ LevelAllows(level, link.type)
  /\ link.url \in site.acl

\* Faulty form: what a thread is downloading is forgotten.
FaultyKnown(todo, u) == u \in DOMAIN todo \union DOMAIN downloaded

Known(todo, u) ==
  \/ u \in DOMAIN todo \union DOMAIN downloaded
  \/ site.maxthreads > 1 /\ u \in inprogress

StoredLevel(level) == IF level = LevelMax THEN LevelMax - 1 ELSE level

Put(f, u, v) == [w \in DOMAIN f \union {u} |-> IF w = u THEN v ELSE f[w]]
Without(f, u) == [w \in DOMAIN f \ {u} |-> f[w]]

InfoOf(link, level) == [level |-> StoredLevel(level), type |-> link.type]

\* All the urls of a page, in their order: of those that are not known yet,
\* the first link that is wanted gives the type.
AddAll(todo, links, level) ==
  LET wanted == {k \in DOMAIN links : Wanted(links[k], level)}
      firsts == {k \in wanted : /\ ~Known(todo, links[k].url)
                               /\ \A j \in wanted : links[j].url = links[k].url => k <= j}
  IN  [u \in DOMAIN todo \union {links[k].url : k \in firsts} |->
         IF u \in DOMAIN todo THEN todo[u]
         ELSE InfoOf(links[CHOOSE k \in firsts : links[k].url = u], level)]

\* netwox_webspider_add, for each url of the user; then netwox_webspidermt_run.
Begin ==
  /\ At("init")
  /\ todownload' =
       AddAll(todownload, [i \in DOMAIN site.start |->
                             [url |-> site.start[i], type |-> "HTML"]], 1)
  /\ Goes(IF site.maxthreads <= 1 THEN "mono" ELSE "launch")
  /\ UNCHANGED <<site, inprogress, downloaded, list>>

-----------------------------------------------------------------------------
(* netwox_priv_webspider_run, on a page that was downloaded.  It may fail   *)
(* before it read the urls of the page, or once it added them.              *)
RunOutcome == {"unread", "unstored", "OK"}

ParseHtml(u, info) ==
  u \in site.html /\ (u \in site.errors \/ info.type = "HTML")

UrlsRead(u, info, outcome) ==
  IF ParseHtml(u, info) /\ outcome # "unread"
  THEN AddAll(todownload, site.links[u], info.level + 1) ELSE todownload

Stored(u, info, outcome) ==
  IF outcome = "OK"
  THEN Put(downloaded, u, [parsehtml |-> ParseHtml(u, info), level |-> info.level])
  ELSE downloaded

-----------------------------------------------------------------------------
(* netwox_webspidermt_run_mono: the url leaves its hash once it is run. *)
Get(u, outcome) ==
  /\ At("mono")
  /\ LET info == todownload[u]
         urls == UrlsRead(u, info, outcome)
     IN  /\ todownload' = IF outcome = "OK" THEN Without(urls, u) ELSE urls
         /\ downloaded' = Stored(u, info, outcome)
         /\ IF outcome = "OK" THEN UNCHANGED spider ELSE Fails("over")
  /\ UNCHANGED <<site, inprogress, list>>

GetFails ==
  /\ At("mono") /\ todownload # Empty
  /\ Fails("over")
  /\ UNCHANGED <<site, todownload, inprogress, downloaded, list>>

GetEnd ==
  /\ At("mono") /\ todownload = Empty
  /\ Goes("over")
  /\ UNCHANGED <<site, todownload, inprogress, downloaded, list>>

-----------------------------------------------------------------------------
(* netwox_webspidermt_run_mt, the manager *)

MayLaunch == Len(list) < site.maxthreads /\ todownload # Empty

Waits(abstime) == spider' = [spider EXCEPT !.pc = "wait", !.abstime = abstime]

\* The index may give any url, since it is rewound at the end of the hash.
Launch(u) ==
  /\ At("launch") /\ MayLaunch
  /\ list' = Append(list, [url |-> u, work |-> "runs", info |-> todownload[u]])
  /\ todownload' = Without(todownload, u)
  /\ inprogress' = inprogress \union {u}
  /\ Waits("ZERO")
  /\ UNCHANGED <<site, downloaded>>

LaunchNone ==
  /\ At("launch") /\ ~MayLaunch
  /\ IF list = <<>> THEN Goes("close") ELSE Waits("INFINITE")
  /\ UNCHANGED <<site, todownload, inprogress, downloaded, list>>

WaitNothing ==
  /\ At("wait") /\ spider.abstime = "ZERO"
  /\ Goes("launch")
  /\ UNCHANGED <<site, todownload, inprogress, downloaded, list>>

Ended(i) == list[i].work # "runs"

\* The page that a thread brought is run, and leaves the urls in progress.
WaitEvent(i, outcome) ==
  /\ At("wait")
  /\ list[i].work = "brought"
  /\ list' = RemoveAt(list, i)
  /\ LET u == list[i].url
         info == list[i].info
     IN  /\ todownload' = UrlsRead(u, info, outcome)
         /\ downloaded' = Stored(u, info, outcome)
         /\ IF outcome = "OK"
            THEN Goes("launch") /\ inprogress' = inprogress \ {u}
            ELSE Fails("close") /\ UNCHANGED inprogress
  /\ UNCHANGED site

WaitError(i) ==
  /\ At("wait")
  /\ list[i].work = "failed"
  /\ list' = RemoveAt(list, i)
  /\ Fails("close")
  /\ UNCHANGED <<site, todownload, inprogress, downloaded>>

\* netwib_threadlist_close waits for the others, and does not read their pages.
CloseEvent(i) ==
  /\ At("close") /\ Ended(i)
  /\ list' = RemoveAt(list, i)
  /\ UNCHANGED <<site, spider, todownload, inprogress, downloaded>>

CloseEnd ==
  /\ At("close") /\ list = <<>>
  /\ Goes("over")
  /\ UNCHANGED <<site, todownload, inprogress, downloaded, list>>

Manager ==
  \/ Begin \/ GetFails \/ GetEnd \/ LaunchNone \/ WaitNothing \/ CloseEnd
  \/ \E u \in DOMAIN todownload : Launch(u)
  \/ \E u \in DOMAIN todownload, outcome \in RunOutcome : Get(u, outcome)
  \/ \E i \in DOMAIN list : WaitError(i) \/ CloseEvent(i)
  \/ \E i \in DOMAIN list, outcome \in RunOutcome : WaitEvent(i, outcome)

-----------------------------------------------------------------------------
\* netwox_webspidermt_run_mt_thread.  A host that refuses or says nothing
\* gives a page that tells so; only a local error makes the thread fail.
WorkerEnds(i) ==
  /\ list[i].work = "runs"
  /\ \E work \in {"brought", "failed"} :
       list' = [list EXCEPT ![i].work = work]
  /\ UNCHANGED <<site, spider, todownload, inprogress, downloaded>>

Worker == \E i \in DOMAIN list : WorkerEnds(i)

Next == Manager \/ Worker

-----------------------------------------------------------------------------
Page == DOMAIN site.links
Info == [level : 1 .. LevelMax, type : {"HTML"} \union site.get]

TypeOK ==
  /\ spider.pc \in {"init", "mono", "launch", "wait", "close", "over"}
  /\ spider.abstime \in {"unset", "ZERO", "INFINITE"}
  /\ spider.ret \in {"OK", "ERROR"}
  /\ DOMAIN todownload \subseteq Page
  /\ \A u \in DOMAIN todownload : todownload[u] \in Info
  /\ inprogress \subseteq Page
  /\ DOMAIN downloaded \subseteq Page
  /\ \A u \in DOMAIN downloaded :
       downloaded[u] \in [parsehtml : BOOLEAN, level : 1 .. LevelMax]
  /\ \A i \in DOMAIN list :
       list[i] \in [url : Page, info : Info, work : {"runs", "brought", "failed"}]

InList == {list[i].url : i \in DOMAIN list}

\* The three hashes have no url in common, so that no page is asked twice, and
\* those in progress are those of the threads (webspiderurl1.c:83-100,
\* webspidermt.c:161-165, 200-202).
OnePlaceEach ==
  /\ DOMAIN todownload \intersect DOMAIN downloaded = {}
  /\ inprogress \intersect (DOMAIN todownload \union DOMAIN downloaded) = {}
  /\ Cardinality(InList) = Len(list) /\ InList \subseteq inprogress
  /\ spider.ret = "OK" => InList = inprogress

LinksOf(u) == {site.links[u][k] : k \in DOMAIN site.links[u]}

\* "maximum number of threads to use" (webspidercf.c:230), none of which
\* outlives the download.  A download without error has all that the user
\* asked, and all that each page read for urls refers to (webspider.c:192-203),
\* but what the filters refuse.
SiteIsWhole ==
  /\ Len(list) <= site.maxthreads
  /\ OnePlaceEach
  /\ At("over") =>
       /\ list = <<>>
       /\ spider.ret = "OK" =>
            /\ todownload = Empty /\ inprogress = {}
            /\ \A i \in DOMAIN site.start :
                 Wanted([url |-> site.start[i], type |-> "HTML"], 1) =>
                   site.start[i] \in DOMAIN downloaded
            /\ \A u \in DOMAIN downloaded : \A link \in LinksOf(u) :
                 downloaded[u].parsehtml /\ Wanted(link, downloaded[u].level + 1) =>
                   link.url \in DOMAIN downloaded

\* The download ends: the urls that the pages refer to are not without end.
DownloadEnds == <>At("over")
=============================================================================
