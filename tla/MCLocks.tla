------------------------------ MODULE MCLocks ------------------------------
(***************************************************************************)
(* What threads block on, other than the end of threads: the read-write    *)
(* lock (three threads), the wait for one condition (two threads, and two  *)
(* values), and the polling of several conditions (one thread); the        *)
(* search and the web spider, which launch threads and collect what they   *)
(* bring; the cache of names and the network configuration, which threads  *)
(* share under a lock.  A behaviour is about one of them, its subject, and *)
(* the others stay idle.                                                   *)
(***************************************************************************)
EXTENDS ThreadRwlock, WaitSet

CONSTANTS
  Setups,          \* of the search
  Sites, LevelMax, \* of the spider
  Users,           \* threads that share a cache
  Host, Gives(_), Item,                          \* of the cache of names
  Entry, SystemTables, TableMax, Block, AsDocumented, \* of the configuration
  Nothing

VARIABLES
  subject, search, login, password, list, work, manathr, thrmana, shown,
  site, spider, todownload, inprogress, downloaded, downloads,
  phashhost, stored, lookup, given, readers, writer,
  netwib_priv_conf, rings, needtobeupdated, call, added, obtained,
  confreaders, confwriter

MCLists == {<<"a">>, <<"a", "b">>}

\* Four couples, tried by one thread or by two, until the first good one or
\* not; and the lists of words that have one element or none.
Search(logins, passwords, numthread, stop) ==
  [logins |-> logins, passwords |-> passwords, numthread |-> numthread,
   stop |-> stop]

MCSetups ==
  {Search(2, 2, n, stop) : n \in {1, 2, 3}, stop \in BOOLEAN}
    \cup {Search(1, 2, 2, FALSE), Search(1, 0, 2, FALSE), Search(0, 1, 2, FALSE)}

(* Sites: pages that refer to each other and to themselves, with images that
   are wanted or not; a chain of pages under each limit of recursion; a page
   met at two levels; an error page, a refused page and one that is no HTML. *)
To(type, u) == [url |-> u, type |-> type]
Mesh == [p |-> <<To("HTML", "q"), To("HTML", "r"), To("HTML", "p"), To("URIREF", "s")>>,
         q |-> <<To("HTML", "p"), To("IMAGE", "s")>>,
         r |-> <<To("HTML", "q"), To("IMAGE", "s")>>,
         s |-> <<>>]
Row == [p |-> <<To("HTML", "q"), To("IMAGE", "s")>>,
        q |-> <<To("HTML", "r"), To("CODE", "p")>>,
        r |-> <<To("HTML", "s")>>,
        s |-> <<To("HTML", "p")>>]
Diamond == [p |-> <<To("HTML", "a"), To("HTML", "b")>>, a |-> <<To("HTML", "c")>>,
            b |-> <<To("HTML", "d")>>, c |-> <<To("HTML", "d")>>,
            d |-> <<To("HTML", "e")>>, e |-> <<>>]
Asked(start, links, maxthreads, maxrecursion) ==
  [start |-> start, links |-> links, html |-> DOMAIN links, errors |-> {},
   acl |-> DOMAIN links, get |-> {"IMAGE"}, maxrecursion |-> maxrecursion,
   maxthreads |-> maxthreads]
NoSite == Asked(<<>>, Mesh, 1, 0)
MCSites ==
  {NoSite}
    \cup {Asked(<<"p">>, Mesh, n, 0) : n \in {1, 2, 3}}
    \cup {Asked(<<"p">>, Row, n, m) : n \in {1, 2}, m \in 0 .. 3}
    \cup {Asked(<<"p">>, Diamond, n, m) : n \in {1, 2}, m \in {0, 4}}
    \cup {[Asked(<<"p", "s">>, Mesh, 2, 0) EXCEPT
             !.acl = {"p", "q", "r"}, !.html = {"p", "q"}, !.errors = {"q"}]}

\* Two names, each with an address of its own and one that they share.
MCGives(h) == CASE h = "www" -> {"192.0.2.1", "192.0.2.2"}
                [] h = "ftp" -> {"192.0.2.1", "2001:db8::3"}
                [] OTHER -> {}

\* The system has one entry, and another one is added.
MCTables == {<<"x">>}

Brute == INSTANCE Brute
Spider == INSTANCE WebSpider WITH list <- downloads
Names == INSTANCE DnsCache WITH User <- Users
Network == INSTANCE Conf WITH
  User <- Users, readers <- confreaders, writer <- confwriter

ASSUME LocksAssumption ==
  /\ WaitSetAssumption /\ Brute!SetupsAreSound /\ Spider!SitesAreSound
  /\ Names!NamesAssumption /\ Network!ConfAssumption

brutevars == <<search, login, password, list, work, manathr, thrmana, shown>>
spidervars == <<site, spider, todownload, inprogress, downloaded, downloads>>
namesvars == <<phashhost, stored, lookup, given, readers, writer>>
confvars == <<netwib_priv_conf, rings, needtobeupdated, call, added, obtained,
              confreaders, confwriter>>
sharedvars == <<namesvars, confvars>>
allvars == <<subject, vars, waitvars, brutevars, spidervars, sharedvars>>

MCInit ==
  /\ subject \in {"rwlock", "sleep", "poll", "search", "spider", "names", "conf"}
  /\ Init /\ WaitInit /\ Brute!Init /\ Spider!Init /\ Names!Init
  /\ Network!Init /\ netwib_priv_conf = CHOOSE b \in Block : TRUE
  /\ subject # "spider" => site = NoSite
  /\ subject # "search" => search.logins = 0

ActsIn(S, C) ==
  \/ \E c \in C : Change(c)
  \/ \E t \in S : WaitCall(t) \/ WaitStep(t)

\* The work that is over stutters; so does the lock when all the threads may be
\* blocked behind an owner that does not know that it owns it.
MCNext ==
  \/ /\ subject = "rwlock" /\ Next
     /\ UNCHANGED <<subject, waitvars, brutevars, spidervars, sharedvars>>
  \/ /\ subject = "sleep" /\ ActsIn(Waiter \ Poller, Alone)
     /\ UNCHANGED <<subject, vars, brutevars, spidervars, sharedvars>>
  \/ /\ subject = "poll" /\ ActsIn(Poller, Cond)
     /\ UNCHANGED <<subject, vars, brutevars, spidervars, sharedvars>>
  \/ /\ subject = "search" /\ Brute!Next
     /\ UNCHANGED <<subject, vars, waitvars, spidervars, sharedvars>>
  \/ /\ subject = "spider" /\ Spider!Next
     /\ UNCHANGED <<subject, vars, waitvars, brutevars, sharedvars>>
  \/ /\ subject = "names" /\ Names!Next
     /\ UNCHANGED <<subject, vars, waitvars, brutevars, spidervars, confvars>>
  \/ /\ subject = "conf" /\ Network!Next
     /\ UNCHANGED <<subject, vars, waitvars, brutevars, spidervars, namesvars>>
  \/ /\ \/ subject = "search" /\ Brute!At("over")
        \/ subject = "spider" /\ Spider!At("over")
        \/ subject = "conf" /\ \A u \in Users : Network!At(u, "add")
        \/ subject = "rwlock" /\ pwrmut = Unseen
     /\ UNCHANGED allvars

\* The fairness of ThreadRwlock and of WaitSet; in the search and in the spider
\* the manager and its threads run; a host does not ask for another try for
\* ever, and the download of a page ends (httpclictx.timeoutms).
MCSpec ==
  /\ MCInit /\ [][MCNext]_allvars
  /\ \A t \in Thread : SF_vars(Step(t))
  /\ WaitFairness
  /\ WF_brutevars(subject = "search" /\ Brute!Manager)
  /\ WF_brutevars(subject = "search" /\ Brute!Worker)
  /\ WF_spidervars(subject = "spider" /\ Spider!Manager)
  /\ WF_spidervars(subject = "spider" /\ Spider!Worker)

-----------------------------------------------------------------------------
(* The type invariants. *)
TypesOK ==
  /\ TypeOK /\ WaitTypeOK /\ Brute!TypeOK /\ Spider!TypeOK
  /\ Names!TypeOK /\ Network!TypeOK

(* Never more threads than asked, none left behind, and each job done once:
   each couple tried and shown (brute.c:104, 113, 164, 253-312), each url
   downloaded, with all that its page refers to (webspidermt.c:123-215). *)
JobsAreDone == Brute!SearchIsComplete /\ Spider!SiteIsWhole

(* No thread reads what another one freed: an item of the cache of names
   while it decodes it (dnscache.c:134-146), a ring of the configuration that
   an update replaced (conf.c:252-257); and the cache answers what the system
   gave, to two threads at a time (dnscache.h:3), the configuration is that
   of the system, with what was added to it since the last update
   (confarp.h:79-81). *)
CachesAreTrue ==
  /\ Names!NoFreedUse /\ Names!CacheIsTrue
  /\ Network!NoFreedUse /\ Network!ConfIsTrue

(* Every call returns: those of the lock once nobody asks any more nor keeps
   it (threadrwl_netwib.c:66-192), those for a condition once it is reached
   for good (threadcond_posix.c:126-159, wait.c:253-334, waitlist.c:148-209),
   and the search and the spider once the hosts have answered
   (brute.c:256-312, webspidermt.c:123-215). *)
CallsReturn ==
  /\ CallsDrain /\ WaitsReturn
  /\ subject = "search" => Brute!SearchEnds
  /\ subject = "spider" => Spider!DownloadEnds
=============================================================================
