----------------------- MODULE RepositoryClosedProofs -----------------------
(***************************************************************************)
(* RefsClosed of module Repository, for any set of processes, any commands *)
(* they run and any number of faults.                                      *)
(*                                                                         *)
(* A process is sound if the calls it has still to make are in an order    *)
(* that some command has them in, and what it relies on is stored: the     *)
(* value it is to install, the references of its bundle, what it has       *)
(* listed and what it has in memory.  Object stores only grow, from each   *)
(* other but for what a process makes, so that what is stored stays so;    *)
(* and whoever has listed a store that then gains a commit of its own, or  *)
(* one that has packs, has a mark that RefsClosed excepts.                 *)
(***************************************************************************)
EXTENDS RepositoryIndexProofs

-----------------------------------------------------------------------------
(* The order of the calls in a command.                                    *)

\* Commands that are given a commit by its id; commands that copy another's objects.
Given == {"branch", "reset", "checkout", "merge", "rebase"}
Copiers == {"fetch", "clone", "push"}

\* Where a command takes objects from and where it puts them.
Src(s) == IF s.cmd \in {"fetch", "clone", "fetch_wire"} THEN Other(s.home) ELSE s.home
Tgt(s) == IF s.cmd \in {"push", "bundle", "push_wire"} THEN Other(s.home) ELSE s.home

\* The calls a command makes, and on which repository.
Calls(cmd) ==
    CASE cmd = "add" -> {"stage", "index_write"}
      [] cmd \in {"commit", "stash"} -> {"write_tree", "head", "commit", "ref", "read_tree", "index_write"}
      [] cmd \in Given -> {"head", "merge", "rebase", "ref", "peel", "read_tree", "index_write", "checkout"}
      [] cmd = "delete" -> {"remove"}
      [] cmd = "pop" -> {"lookup", "peel", "read_tree", "index_write", "checkout", "remove"}
      [] cmd \in Copiers -> {"copy", "copy_refs", "lookup", "ref", "remote_head", "peel", "read_tree",
                             "index_write", "checkout"}
      [] cmd = "bundle" -> {"bundle_refs", "lookup", "bundle_ref", "bundle_pack", "unbundle", "bundled", "ref"}
      [] cmd = "fetch_wire" -> {"advert", "request"}
      [] cmd = "push_wire" -> {"advert", "bundle_refs", "lookup", "bundle_ref", "bundle_pack", "receive"}
      [] OTHER -> {}
AtHome == {"stage", "write_tree", "head", "commit", "peel", "merge", "rebase", "read_tree", "index_write",
           "checkout", "bundle_refs", "bundle_ref", "bundle_pack", "request"}
AtTgt == {"ref", "copy", "copy_refs", "unbundle", "bundled", "receive"}
Fits(s, c) == /\ c.call \in Calls(s.cmd)
              /\ c.call \in AtHome => c.repo = s.home
              /\ c.call \in AtTgt => c.repo = Tgt(s)
              /\ c.call = "remote_head" => c.repo = Src(s)
              /\ c.call = "advert" => c.repo = Other(s.home)
\* What comes before the calls that need a value.
Leads(s, c, d) ==
    /\ d.call = "ref" => \/ s.cmd \in Given
                         \/ c.call \in {"commit", "remote_head", "bundled"}
                         \/ s.cmd \in Copiers /\ c.call = "lookup" /\ c.repo = Src(s)
    /\ d.call = "read_tree" => \/ c.call = "peel" /\ c.onerr # "go"
                               \/ s.cmd = "stash" /\ c.call = "ref"
    /\ d.call = "bundle_ref" => c.call = "lookup" /\ c.repo = Src(s)
    /\ d.call = "unbundle" => c.call = "bundle_pack" /\ c.onerr # "go"
    /\ d.call = "bundled" => c.call = "ref" \/ (c.call = "unbundle" /\ c.onerr # "go")
Flow(s, q) == /\ \A i \in 1..Len(q) : Fits(s, q[i])
              /\ \A i \in 1..(Len(q) - 1) : Leads(s, q[i], q[i + 1])

\* What a process is left with: its command has ended, it is at its next call, or at
\* another step of the same.
Same(s, t) == /\ Kin(s, t) /\ t.val = s.val /\ t.head = s.head /\ t.mem = s.mem
              /\ t.list = s.list /\ t.bundle = s.bundle /\ t.adv = s.adv
Over(s, t) == /\ Kin(s, t) /\ t.todo = <<>> /\ t.at = "call" /\ ~t.lost /\ t.val = NoCommit
              /\ t.head = NoCommit /\ t.mem = NoCommit /\ t.list = {} /\ t.bundle = <<>>
After(s, t) == /\ Same(s, t) /\ Len(s.todo) # 1 /\ t.todo = Tail(s.todo) /\ t.at = "call" /\ ~t.lost
Stays(s, t) == Same(s, t) /\ t.todo = s.todo
Turn(s, t) == Over(s, t) \/ After(s, t) \/ Stays(s, t)

\* The other repository.
LEMMA Others ==
    /\ Other("local") = "peer" /\ Other("peer") = "local" /\ Repos = {"local", "peer"}
    /\ \A r \in Repos : Other(r) \in Repos /\ Other(r) # r /\ Other(Other(r)) = r
<1>1. Other("local") = "peer" /\ Other("peer") = "local"
  BY DEF Other, Repos
<1> QED BY <1>1 DEF Repos

\* Two processes with the same command have their objects from and for the same.
LEMMA KinSame ==
    ASSUME NEW s, NEW t, Kin(s, t)
    PROVE  Src(t) = Src(s) /\ Tgt(t) = Tgt(s) /\ \A q : Flow(s, q) => Flow(t, q)
  BY DEF Kin, Src, Tgt, Flow, Fits, Leads

\* Source and target.
LEMMA Ends2 ==
    ASSUME NEW s \in ProcType
    PROVE  /\ Src(s) \in Repos /\ Tgt(s) \in Repos
           /\ s.cmd \in Copiers \cup {"bundle", "fetch_wire", "push_wire"} => Src(s) # Tgt(s) /\ Src(s) = Other(Tgt(s))
           /\ s.cmd \in Given \cup {"commit", "stash", "add", "pop"} => Tgt(s) = s.home
           /\ s.cmd \in {"bundle", "push_wire"} => Src(s) = s.home
<1>1. s.home \in Repos
  BY DEF ProcType
<1> QED BY <1>1, Others DEF Src, Tgt, Copiers, Given

\* A call that returns, fails or ends its command.
LEMMA Turns ==
    ASSUME NEW s \in ProcType, s.todo # <<>>
    PROVE  /\ \A e : Over(s, Ended(s, e))
           /\ Over(s, Returned(s)) \/ After(s, Returned(s))
           /\ Over(s, Failed(s)) \/ (After(s, Failed(s)) /\ s.todo[1].onerr = "go")
           /\ \A a : Stays(s, Goes(s, a)) /\ Goes(s, a).at = a /\ Goes(s, a).lost = s.lost
<1>1. \A e : Over(s, Ended(s, e))
  BY DEF Over, Ended, Idle, Kin
<1>3. s.todo[1].onerr \in {"go", "stop", "end"}
  BY EmptySeq DEF ProcType, CallType
<1>4. Over(s, Returned(s)) \/ After(s, Returned(s))
  <2>1. CASE Len(s.todo) = 1
    BY <1>1, <2>1 DEF Returned
  <2>2. CASE Len(s.todo) # 1
    <3> PICK t : t = [s EXCEPT !.todo = Tail(@), !.at = "call", !.old = NoCommit, !.lost = FALSE]
      OBVIOUS
    <3>1. t = Returned(s)
      BY <2>2 DEF Returned
    <3>2. After(s, t)
      BY <2>2 DEF After, Same, Kin, ProcType
    <3> QED BY <3>1, <3>2
  <2> QED BY <2>1, <2>2
<1>5. Over(s, Failed(s)) \/ (After(s, Failed(s)) /\ s.todo[1].onerr = "go")
  BY <1>1, <1>3, <1>4 DEF Failed
<1>6. \A a : Stays(s, Goes(s, a)) /\ Goes(s, a).at = a /\ Goes(s, a).lost = s.lost
  BY DEF Stays, Same, Kin, Goes, ProcType
<1> QED BY <1>1, <1>4, <1>5, <1>6

\* The flow of calls goes on behind the first.
LEMMA FlowTail ==
    ASSUME NEW s, NEW q \in Seq(CallType), q # <<>>, Flow(s, q)
    PROVE  /\ Flow(s, Tail(q)) /\ q[1] \in CallType /\ Fits(s, q[1])
           /\ Tail(q) \in Seq(CallType)
           /\ Len(q) # 1 => Tail(q) # <<>> /\ Leads(s, q[1], Tail(q)[1]) /\ Fits(s, Tail(q)[1])
<1>1. Len(q) \in Nat \ {0}
  BY EmptySeq
<1> PICK u : u = Tail(q)
  OBVIOUS
<1>2. /\ u \in Seq(CallType) /\ Len(u) = Len(q) - 1 /\ (Len(q) # 1 => u # <<>>)
      /\ \A i \in 1..Len(u) : i + 1 \in 1..Len(q) /\ u[i] = q[i + 1]
  BY TailOf
<1>3. \A i \in 1..Len(u) : Fits(s, u[i])
  BY <1>2 DEF Flow
<1>4. ASSUME NEW i \in 1..(Len(u) - 1) PROVE Leads(s, u[i], u[i + 1])
  <2>1. i \in 1..Len(u) /\ i + 1 \in 1..Len(u) /\ i + 1 \in 1..(Len(q) - 1)
    BY <1>1, <1>2
  <2>2. Leads(s, q[i + 1], q[(i + 1) + 1])
    BY <2>1 DEF Flow
  <2> QED BY <1>2, <2>1, <2>2
<1>5. Flow(s, u)
  BY <1>3, <1>4 DEF Flow
<1>6. Len(q) # 1 => Leads(s, q[1], u[1])
  <2> SUFFICES ASSUME Len(q) # 1 PROVE Leads(s, q[1], u[1])
    OBVIOUS
  <2>1. 1 \in 1..(Len(q) - 1) /\ 1 \in 1..Len(u)
    BY <1>1, <1>2
  <2>2. Leads(s, q[1], q[1 + 1])
    BY <2>1 DEF Flow
  <2> QED BY <1>2, <2>1, <2>2
<1>7. 1 \in 1..Len(q) /\ (Len(q) # 1 => 1 \in 1..Len(u))
  BY <1>1, <1>2
<1> QED BY <1>2, <1>3, <1>5, <1>6, <1>7 DEF Flow

\* Two lists of calls, one after the other.
LEMMA FlowConcat ==
    ASSUME NEW s, NEW a \in Seq(CallType), NEW b \in Seq(CallType), Flow(s, a), Flow(s, b),
           a # <<>> /\ b # <<>> => Leads(s, a[Len(a)], b[1])
    PROVE  Flow(s, a \o b)
<1> PICK q : q = a \o b
  OBVIOUS
<1>1. /\ q \in Seq(CallType) /\ Len(q) = Len(a) + Len(b) /\ Len(a) \in Nat /\ Len(b) \in Nat
      /\ \A i \in 1..Len(q) : IF i <= Len(a) THEN i \in 1..Len(a) /\ q[i] = a[i]
                              ELSE i - Len(a) \in 1..Len(b) /\ q[i] = b[i - Len(a)]
  OBVIOUS
<1>2. \A i \in 1..Len(q) : Fits(s, q[i])
  BY <1>1 DEF Flow
<1>3. ASSUME NEW i \in 1..(Len(q) - 1) PROVE Leads(s, q[i], q[i + 1])
  <2>1. i \in 1..Len(q) /\ i + 1 \in 1..Len(q)
    BY <1>1
  <2>2. CASE i + 1 <= Len(a)
    <3>1. i \in 1..(Len(a) - 1) /\ i <= Len(a)
      BY <1>1, <2>2
    <3> QED BY <1>1, <2>1, <2>2, <3>1 DEF Flow
  <2>3. CASE i = Len(a)
    <3>1. a # <<>> /\ b # <<>> /\ i <= Len(a) /\ ~(i + 1 <= Len(a)) /\ (i + 1) - Len(a) = 1
      BY <1>1, <2>3
    <3> QED BY <1>1, <2>1, <2>3, <3>1
  <2>4. CASE i > Len(a)
    <3>1. i - Len(a) \in 1..(Len(b) - 1) /\ ~(i <= Len(a)) /\ ~(i + 1 <= Len(a))
          /\ (i + 1) - Len(a) = (i - Len(a)) + 1
      BY <1>1, <2>4
    <3>2. Leads(s, b[i - Len(a)], b[(i - Len(a)) + 1])
      BY <3>1 DEF Flow
    <3> QED BY <1>1, <2>1, <3>1, <3>2
  <2> QED BY <1>1, <2>2, <2>3, <2>4
<1> QED BY <1>2, <1>3 DEF Flow

-----------------------------------------------------------------------------
(* What a process relies on.                                               *)

\* Object store O has commit v of repository r with its history; the commit itself.
Holds(O, r, v) == History(v) \subseteq O[r]
Has(O, r, v) == v \in O[r] \cup {NoCommit}

\* With object stores O, h if the local repository is one that began empty: a copier that
\* has made its list has copied what the source has now, or is about to.
Past(s) == s.todo[1].call # "copy" \/ s.at = "copy"
CopiedOK(s, O, h) ==
    s.cmd \in Copiers /\ Past(s) =>
        /\ O[Src(s)] \subseteq O[Tgt(s)] \cup (IF s.todo[1].call = "copy" THEN s.list ELSE {})
        /\ s.list # {} \/ (Src(s) = "local" /\ h)
\* The references of a bundle are stored, packed, and unpacked before they are set.
BundleOK(s, O) ==
    \A e \in ToSet(s.bundle) :
        /\ Holds(O, s.home, e[2])
        /\ s.todo[1].call = "unbundle" => History(e[2]) \subseteq s.list
        /\ s.cmd = "bundle" /\ s.todo[1].call \in {"bundled", "ref"} => Holds(O, Tgt(s), e[2])
\* So is every value that a reference is about to name.
ValueOK(s, O) ==
    /\ Holds(O, s.home, s.head)
    /\ s.cmd \in Given => Holds(O, s.home, s.val)
    /\ s.todo[1].call = "ref" => Holds(O, Tgt(s), s.val)
    /\ s.todo[1].call = "bundle_ref" => Holds(O, s.home, s.val)
    /\ s.cmd = "fetch_wire" => \A n \in Branches : Holds(O, Src(s), s.adv[n])
Good(s, O, h) == CopiedOK(s, O, h) /\ BundleOK(s, O) /\ ValueOK(s, O)

\* What makes the next call good when the first returns.
Ready(s, O, h) ==
    /\ Holds(O, s.home, s.head)
    /\ s.cmd \in Given => Holds(O, s.home, s.val)
    /\ s.cmd = "fetch_wire" => \A n \in Branches : Holds(O, Src(s), s.adv[n])
    /\ s.cmd \in Copiers => O[Src(s)] \subseteq O[Tgt(s)] /\ (s.list # {} \/ (Src(s) = "local" /\ h))
    /\ s.todo[1].call = "commit" => Holds(O, s.home, s.val)
    /\ s.todo[1].call \in {"remote_head", "bundled"} => Holds(O, Tgt(s), s.val)
    /\ s.todo[1].call = "lookup" /\ s.todo[1].repo = Src(s) => Holds(O, Src(s), s.val)
    /\ \A e \in ToSet(s.bundle) :
          /\ Holds(O, s.home, e[2])
          /\ s.todo[1].call = "bundle_pack" /\ s.todo[1].onerr # "go" => History(e[2]) \subseteq s.list
          /\ s.cmd = "bundle" /\ s.todo[1].call \in {"bundled", "ref"} => Holds(O, Tgt(s), e[2])
          /\ s.todo[1].call = "unbundle" => s.todo[1].onerr = "go"

\* It does.
LEMMA ReadyGood ==
    ASSUME NEW s \in ProcType, s.todo # <<>>, Flow(s, s.todo), NEW O, NEW h, Ready(s, O, h),
           NEW t, After(s, t)
    PROVE  Good(t, O, h)
<1> PICK c, d : c = s.todo[1] /\ d = t.todo[1]
  OBVIOUS
<1>1. /\ Kin(s, t) /\ t.val = s.val /\ t.head = s.head /\ t.list = s.list /\ t.bundle = s.bundle
      /\ t.adv = s.adv /\ t.at = "call" /\ t.cmd = s.cmd /\ t.home = s.home
      /\ Len(s.todo) # 1 /\ t.todo = Tail(s.todo)
  BY DEF After, Same, Kin
<1>2. Src(t) = Src(s) /\ Tgt(t) = Tgt(s)
  BY <1>1, KinSame
<1>3. Fits(s, c) /\ Fits(s, d) /\ Leads(s, c, d)
  <2>1. s.todo \in Seq(CallType)
    BY DEF ProcType
  <2> QED BY <1>1, <2>1, FlowTail
<1>4. /\ c.call \in Calls(s.cmd) /\ d.call \in Calls(s.cmd)
  BY <1>3 DEF Fits
<1>5. CopiedOK(t, O, h)
  BY <1>1, <1>2 DEF CopiedOK, Past, Ready
<1>6. ASSUME NEW e \in ToSet(s.bundle)
      PROVE  /\ Holds(O, s.home, e[2])
             /\ d.call = "unbundle" => History(e[2]) \subseteq s.list
             /\ s.cmd = "bundle" /\ d.call \in {"bundled", "ref"} => Holds(O, Tgt(s), e[2])
  <2>1. /\ Holds(O, s.home, e[2])
        /\ c.call = "bundle_pack" /\ c.onerr # "go" => History(e[2]) \subseteq s.list
        /\ s.cmd = "bundle" /\ c.call \in {"bundled", "ref"} => Holds(O, Tgt(s), e[2])
        /\ c.call = "unbundle" => c.onerr = "go"
    BY DEF Ready
  <2>2. s.cmd = "bundle" /\ d.call = "ref" => c.call = "bundled"
    <3>1. s.cmd = "bundle" => s.cmd \notin Given /\ s.cmd \notin Copiers
      BY DEF Given, Copiers
    <3>2. s.cmd = "bundle" => c.call \notin {"commit", "remote_head"}
      BY <1>4 DEF Calls, Given, Copiers
    <3> QED BY <1>3, <3>1, <3>2 DEF Leads
  <2> QED BY <1>3, <2>1, <2>2 DEF Leads
<1>7. BundleOK(t, O)
  BY <1>1, <1>2, <1>6 DEF BundleOK
<1>8. d.call = "ref" => Holds(O, Tgt(s), s.val)
  <2> SUFFICES ASSUME d.call = "ref" PROVE Holds(O, Tgt(s), s.val)
    OBVIOUS
  <2>1. CASE s.cmd \in Given
    BY <2>1, Ends2 DEF Ready
  <2>2. CASE c.call = "commit"
    <3>1. s.cmd \in {"commit", "stash"}
      BY <1>4, <2>2 DEF Calls, Given, Copiers
    <3> QED BY <2>2, <3>1, Ends2 DEF Ready
  <2>3. CASE c.call \in {"remote_head", "bundled"}
    BY <2>3 DEF Ready
  <2>4. CASE s.cmd \in Copiers /\ c.call = "lookup" /\ c.repo = Src(s)
    BY <2>4 DEF Ready, Holds
  <2> QED BY <1>3, <2>1, <2>2, <2>3, <2>4 DEF Leads
<1>9. d.call = "bundle_ref" => Holds(O, s.home, s.val)
  <2> SUFFICES ASSUME d.call = "bundle_ref" PROVE Holds(O, s.home, s.val)
    OBVIOUS
  <2>1. s.cmd \in {"bundle", "push_wire"}
    BY <1>4 DEF Calls, Given, Copiers
  <2>2. Holds(O, Src(s), s.val)
    BY <1>3 DEF Leads, Ready
  <2> QED BY <2>1, <2>2, Ends2
<1>10. ValueOK(t, O)
  BY <1>1, <1>2, <1>8, <1>9 DEF ValueOK, Ready
<1> QED BY <1>5, <1>7, <1>10 DEF Good

\* Calls that set nothing.
Quietly == {"ref", "remove", "index_write", "checkout", "write_tree", "peel", "receive", "head", "read_tree",
            "stage", "advert", "request", "bundle_ref", "merge", "rebase", "copy_refs", "bundle_refs"}

\* A call that sets nothing leaves the next one good.
LEMMA GoodReady ==
    ASSUME NEW s \in ProcType, s.todo # <<>>, NEW O, NEW h, Good(s, O, h), s.todo[1].call \in Quietly
    PROVE  Ready(s, O, h)
<1>1. CopiedOK(s, O, h) /\ BundleOK(s, O) /\ ValueOK(s, O)
  BY DEF Good
<1>2. s.todo[1].call \notin {"copy", "commit", "remote_head", "bundled", "lookup", "bundle_pack", "unbundle"}
  BY DEF Quietly
<1>3. s.cmd \in Copiers => O[Src(s)] \subseteq O[Tgt(s)] /\ (s.list # {} \/ (Src(s) = "local" /\ h))
  BY <1>1, <1>2 DEF CopiedOK, Past
<1>4. \A e \in ToSet(s.bundle) :
          /\ Holds(O, s.home, e[2])
          /\ s.cmd = "bundle" /\ s.todo[1].call \in {"bundled", "ref"} => Holds(O, Tgt(s), e[2])
  BY <1>1 DEF BundleOK
<1> QED BY <1>1, <1>2, <1>3, <1>4 DEF Ready, ValueOK

\* A step that sets nothing.
LEMMA GoodTurn ==
    ASSUME NEW s \in ProcType, s.todo # <<>>, Flow(s, s.todo), NEW O, NEW h, Good(s, O, h),
           s.todo[1].call \in Quietly, NEW t, Turn(s, t)
    PROVE  t.todo # <<>> => Good(t, O, h)
<1>1. CASE Over(s, t)
  BY <1>1 DEF Over
<1>2. CASE After(s, t)
  BY <1>2, GoodReady, ReadyGood
<1>3. CASE Stays(s, t)
  <2>1. /\ Kin(s, t) /\ t.val = s.val /\ t.head = s.head /\ t.list = s.list /\ t.bundle = s.bundle
        /\ t.adv = s.adv /\ t.cmd = s.cmd /\ t.home = s.home /\ t.todo = s.todo
    BY <1>3 DEF Stays, Same, Kin
  <2>2. Src(t) = Src(s) /\ Tgt(t) = Tgt(s) /\ s.todo[1].call # "copy"
    BY <2>1, KinSame DEF Quietly
  <2> QED BY <2>1, <2>2 DEF Good, CopiedOK, BundleOK, ValueOK, Past
<1> QED BY <1>1, <1>2, <1>3 DEF Turn

\* Object stores that have grown: what a copier has listed or copied is still all there is.
Grown(s, O, P) ==
    /\ \A r \in Repos : O[r] \subseteq P[r]
    /\ s.cmd \in Copiers /\ Past(s) => P[Src(s)] \subseteq O[Src(s)] \cup O[Tgt(s)]

\* They do no harm.
LEMMA GoodLater ==
    ASSUME NEW s \in ProcType, NEW O, NEW P, NEW h, NEW k, Good(s, O, h), Grown(s, O, P), h => k
    PROVE  Good(s, P, k)
<1>1. /\ Src(s) \in Repos /\ Tgt(s) \in Repos /\ s.home \in Repos
  BY Ends2 DEF ProcType
<1>2. \A r \in Repos : \A v : Holds(O, r, v) => Holds(P, r, v)
  BY DEF Holds, Grown
<1>3. CopiedOK(s, P, k)
  <2> SUFFICES ASSUME s.cmd \in Copiers, Past(s)
               PROVE  /\ P[Src(s)] \subseteq P[Tgt(s)] \cup (IF s.todo[1].call = "copy" THEN s.list ELSE {})
                      /\ s.list # {} \/ (Src(s) = "local" /\ k)
    BY DEF CopiedOK
  <2>1. /\ O[Src(s)] \subseteq O[Tgt(s)] \cup (IF s.todo[1].call = "copy" THEN s.list ELSE {})
        /\ s.list # {} \/ (Src(s) = "local" /\ h)
    BY DEF Good, CopiedOK
  <2>2. P[Src(s)] \subseteq O[Src(s)] \cup O[Tgt(s)] /\ O[Tgt(s)] \subseteq P[Tgt(s)]
    BY <1>1 DEF Grown
  <2> QED BY <2>1, <2>2
<1>4. BundleOK(s, P)
  BY <1>1, <1>2 DEF Good, BundleOK
<1>5. ValueOK(s, P)
  BY <1>1, <1>2 DEF Good, ValueOK
<1> QED BY <1>3, <1>4, <1>5 DEF Good

-----------------------------------------------------------------------------
(* The scripts.                                                            *)

\* A list of calls in their order, from a to z.
Line(s, q, a, z) == q \in Seq(CallType) /\ q # <<>> /\ Flow(s, q) /\ q[1] = a /\ q[Len(q)] = z
\* A call the command makes, in any of its forms.
Fit(s, x, c) == x \in CallType /\ x.call = c /\ Fits(s, x)

\* A call of the command's on the repository it is for is one.
LEMMA FitCalls ==
    ASSUME NEW s \in ProcType, NEW c \in Calls(s.cmd), NEW r \in Repos, NEW n,
           \/ c \in PlainCalls /\ n \in CallNames
           \/ c \in {"ref", "remove", "lookup"} /\ n \in Names \cup {"HEAD"},
           /\ c \in AtHome => r = s.home
           /\ c \in AtTgt => r = Tgt(s)
           /\ c = "remote_head" => r = Src(s)
           /\ c = "advert" => r = Other(s.home)
    PROVE  \A x \in {Call(c, r, n), Stops(Call(c, r, n)), Ends(Call(c, r, n)), Gently(Call(c, r, n))} :
              Fit(s, x, c) /\ x.repo = r
<1>1. Call(c, r, n) \in CallType
  <2>1. c \in {"ref", "remove", "lookup"} => c \in RefCalls /\ c \notin {"bundle_ref", "bundled"}
    BY DEF RefCalls
  <2> QED BY <2>1, CallOK, RefCallOK
<1>2. \A x \in {Call(c, r, n), Stops(Call(c, r, n)), Ends(Call(c, r, n)), Gently(Call(c, r, n))} :
         x \in CallType
  BY <1>1, WrapOK
<1>3. \A x \in {Call(c, r, n), Stops(Call(c, r, n)), Ends(Call(c, r, n)), Gently(Call(c, r, n))} :
         x.call = c /\ x.repo = r
  BY DEF Call, Stops, Ends, Gently
<1> QED BY <1>2, <1>3 DEF Fit, Fits

\* What the caller does with an error.
LEMMA OnErr ==
    ASSUME NEW c, NEW r, NEW n
    PROVE  Stops(Call(c, r, n)).onerr = "stop" /\ Ends(Call(c, r, n)).onerr = "end"
  BY DEF Call, Stops, Ends

\* Short lists.
LEMMA Lines ==
    ASSUME NEW s, NEW a, NEW b, NEW c, NEW d
    PROVE  /\ Fit(s, a, a.call) => Line(s, <<a>>, a, a)
           /\ Fit(s, a, a.call) /\ Fit(s, b, b.call) /\ Leads(s, a, b) => Line(s, <<a, b>>, a, b)
           /\ /\ Fit(s, a, a.call) /\ Fit(s, b, b.call) /\ Leads(s, a, b)
              /\ Fit(s, c, c.call) /\ Leads(s, b, c)
              => Line(s, <<a, b, c>>, a, c)
           /\ /\ Fit(s, a, a.call) /\ Fit(s, b, b.call) /\ Leads(s, a, b)
              /\ Fit(s, c, c.call) /\ Leads(s, b, c) /\ Fit(s, d, d.call) /\ Leads(s, c, d)
              => Line(s, <<a, b, c, d>>, a, d)
<1>1. Fit(s, a, a.call) => Line(s, <<a>>, a, a)
  BY DEF Fit, Line, Flow
<1>2. Fit(s, a, a.call) /\ Fit(s, b, b.call) /\ Leads(s, a, b) => Line(s, <<a, b>>, a, b)
  BY DEF Fit, Line, Flow
<1>3. /\ Fit(s, a, a.call) /\ Fit(s, b, b.call) /\ Leads(s, a, b)
      /\ Fit(s, c, c.call) /\ Leads(s, b, c)
      => Line(s, <<a, b, c>>, a, c)
  <2> SUFFICES ASSUME a \in CallType, b \in CallType, c \in CallType,
                      Fits(s, a), Fits(s, b), Fits(s, c), Leads(s, a, b), Leads(s, b, c)
               PROVE Line(s, <<a, b, c>>, a, c)
    BY DEF Fit
  <2> PICK q : q = <<a, b, c>>
    OBVIOUS
  <2>1. q \in Seq(CallType) /\ Len(q) = 3 /\ q[1] = a /\ q[2] = b /\ q[3] = c /\ q # <<>>
    OBVIOUS
  <2>2. \A i \in 1..3 : Fits(s, q[i])
    BY <2>1
  <2>3. \A i \in 1..(3 - 1) : Leads(s, q[i], q[i + 1])
    BY <2>1
  <2> QED BY <2>1, <2>2, <2>3 DEF Line, Flow
<1>4. /\ Fit(s, a, a.call) /\ Fit(s, b, b.call) /\ Leads(s, a, b)
      /\ Fit(s, c, c.call) /\ Leads(s, b, c) /\ Fit(s, d, d.call) /\ Leads(s, c, d)
      => Line(s, <<a, b, c, d>>, a, d)
  <2> SUFFICES ASSUME a \in CallType, b \in CallType, c \in CallType, d \in CallType,
                      Fits(s, a), Fits(s, b), Fits(s, c), Fits(s, d),
                      Leads(s, a, b), Leads(s, b, c), Leads(s, c, d)
               PROVE Line(s, <<a, b, c, d>>, a, d)
    BY DEF Fit
  <2> PICK q : q = <<a, b, c, d>>
    OBVIOUS
  <2>1. q \in Seq(CallType) /\ Len(q) = 4 /\ q[1] = a /\ q[2] = b /\ q[3] = c /\ q[4] = d /\ q # <<>>
    OBVIOUS
  <2>2. \A i \in 1..4 : Fits(s, q[i])
    BY <2>1
  <2>3. \A i \in 1..(4 - 1) : Leads(s, q[i], q[i + 1])
    BY <2>1
  <2> QED BY <2>1, <2>2, <2>3 DEF Line, Flow
<1> QED BY <1>1, <1>2, <1>3, <1>4

\* Two lists.
LEMMA JoinLines ==
    ASSUME NEW s, NEW u, NEW v, NEW a, NEW b, NEW c, NEW d, Line(s, u, a, b), Line(s, v, c, d), Leads(s, b, c)
    PROVE  Line(s, u \o v, a, d)
<1>1. Flow(s, u \o v) /\ u \o v \in Seq(CallType) /\ u \o v # <<>>
  BY FlowConcat, ConcatCalls DEF Line
<1>2. Len(u) \in Nat \ {0} /\ Len(v) \in Nat \ {0} /\ u \in Seq(CallType) /\ v \in Seq(CallType)
  BY EmptySeq DEF Line
<1>3. (u \o v)[1] = u[1] /\ (u \o v)[Len(u \o v)] = v[Len(v)]
  BY <1>2
<1> QED BY <1>1, <1>3 DEF Line

\* A call without conditions on what comes before it.
LEMMA FreeLeads ==
    ASSUME NEW s, NEW c, NEW d, d.call \notin {"ref", "read_tree", "bundle_ref", "unbundle", "bundled"}
    PROVE  Leads(s, c, d)
  BY DEF Leads

\* How a command begins.
Opens(s, q) == /\ q # <<>> /\ q[1].call \notin {"read_tree", "bundle_ref", "unbundle", "bundled"}
               /\ q[1].call = "ref" => s.cmd \in Given
               /\ s.cmd \in Copiers => q[1].call = "copy"

\* Every command's list of calls is one.
LEMMA ScriptFlow ==
    ASSUME NEW s \in ProcType, s.cmd \in Commands
    PROVE  /\ Flow(s, Script(s.cmd, s.home)) /\ Script(s.cmd, s.home) \in Seq(CallType)
           /\ Opens(s, Script(s.cmd, s.home))
<1> PICK r, cmd : r = s.home /\ cmd = s.cmd
  OBVIOUS
<1>0. r \in Repos /\ Other(r) \in Repos
  BY Others DEF ProcType
<1>1. /\ "" \in CallNames /\ "index" \in CallNames /\ "tree" \in CallNames
      /\ {"HEAD", "main", "topic", "stash"} \subseteq Names \cup {"HEAD"}
  BY DEF CallNames, Names, Branches
<1> DEFINE lt == Call("read_tree", r, "")
           iw == Call("index_write", r, "")
           peel == Ends(Call("peel", r, ""))
           out == Call("checkout", r, "tree")
           Loads == {"read_tree", "index_write"} \subseteq Calls(s.cmd)
           OK(q) == q \in Seq(CallType) /\ Flow(s, q) /\ Opens(s, q)
<1>2. Loads => Line(s, LoadAndWrite(r), lt, iw) /\ lt.call = "read_tree"
  <2> SUFFICES ASSUME Loads PROVE Line(s, LoadAndWrite(r), lt, iw) /\ lt.call = "read_tree"
    OBVIOUS
  <2>1. Fit(s, lt, "read_tree") /\ Fit(s, iw, "index_write")
    BY <1>0, <1>1, FitCalls DEF PlainCalls, AtHome, AtTgt
  <2>2. Leads(s, lt, iw)
    BY <2>1, FreeLeads DEF Fit
  <2> HIDE DEF lt, iw
  <2> QED BY <2>1, <2>2, Lines DEF Fit, LoadAndWrite, lt, iw
<1>3. "peel" \in Calls(s.cmd) => Fit(s, peel, "peel") /\ Fit(s, Stops(Call("peel", r, "")), "peel")
                                 /\ peel.onerr = "end" /\ Stops(Call("peel", r, "")).onerr = "stop"
  <2>1. "peel" \in Calls(s.cmd) => Fit(s, peel, "peel") /\ Fit(s, Stops(Call("peel", r, "")), "peel")
    BY <1>0, <1>1, FitCalls DEF PlainCalls, AtHome, AtTgt
  <2> QED BY <2>1, OnErr
<1>4. ASSUME NEW x, NEW z, Line(s, x, z, z), z.call = "peel", z.onerr # "go", Loads
      PROVE  Line(s, x \o LoadAndWrite(r), z, iw)
  <2>1. Leads(s, z, lt)
    BY <1>2, <1>4 DEF Leads
  <2> HIDE DEF lt, iw
  <2> QED BY <1>2, <1>4, <2>1, JoinLines
<1>5. ASSUME cmd = "add" PROVE OK(Add(r))
  <2> DEFINE a == Call("stage", r, "")
             b == Stops(Call("index_write", r, ""))
  <2>1. Calls(s.cmd) = {"stage", "index_write"}
    BY <1>5 DEF Calls, Given, Copiers
  <2>2. Fit(s, a, "stage") /\ Fit(s, b, "index_write")
    BY <1>0, <1>1, <2>1, FitCalls DEF PlainCalls, AtHome, AtTgt
  <2>3. Leads(s, a, b)
    BY <2>2, FreeLeads DEF Fit
  <2> HIDE DEF a, b
  <2>4. Line(s, <<a, b>>, a, b)
    BY <2>2, <2>3, Lines DEF Fit
  <2> QED BY <1>5, <2>4, <2>2 DEF Add, Line, a, b, Fit, Opens, Given, Copiers
<1>6. ASSUME NEW n \in {"HEAD", "stash"}, cmd \in {"commit", "stash"}
      PROVE  OK(CommitTo(r, n)) /\ Line(s, CommitTo(r, n), Stops(Call("write_tree", r, "")), Call("ref", r, n))
  <2> DEFINE a == Stops(Call("write_tree", r, ""))
             b == Call("head", r, "")
             c == Call("commit", r, "")
             d == Call("ref", r, n)
  <2>1. Calls(s.cmd) = {"write_tree", "head", "commit", "ref", "read_tree", "index_write"} /\ Tgt(s) = s.home
    BY <1>6, Ends2 DEF Calls, Given, Copiers
  <2>6. Fit(s, a, "write_tree") /\ Fit(s, b, "head")
    BY <1>0, <1>1, <2>1, FitCalls DEF PlainCalls, AtHome, AtTgt
  <2>7. Fit(s, c, "commit") /\ Fit(s, d, "ref")
    BY <1>0, <1>1, <2>1, FitCalls DEF PlainCalls, AtHome, AtTgt
  <2>2. Fit(s, a, "write_tree") /\ Fit(s, b, "head") /\ Fit(s, c, "commit") /\ Fit(s, d, "ref")
    BY <2>6, <2>7
  <2>3. Leads(s, a, b) /\ Leads(s, b, c)
    BY <2>2, FreeLeads DEF Fit
  <2>4. Leads(s, c, d)
    BY <2>2 DEF Leads, Fit
  <2> HIDE DEF a, b, c, d
  <2>5. Line(s, <<a, b, c, d>>, a, d)
    BY <2>2, <2>3, <2>4, Lines DEF Fit
  <2> QED BY <1>6, <2>5, <2>2 DEF CommitTo, Line, a, b, c, d, Fit, Opens, Given, Copiers
<1>7. ASSUME cmd = "branch" PROVE OK(Branch(r))
  <2> DEFINE a == Gently(Call("ref", r, "topic"))
  <2>1. "ref" \in Calls(s.cmd) /\ Tgt(s) = s.home
    BY <1>7, Ends2 DEF Calls, Given, Copiers
  <2>2. Fit(s, a, "ref")
    BY <1>0, <1>1, <2>1, FitCalls DEF PlainCalls, AtHome, AtTgt
  <2> HIDE DEF a
  <2>3. Line(s, <<a>>, a, a)
    BY <2>2, Lines DEF Fit
  <2> QED BY <1>7, <2>3, <2>2 DEF Branch, Line, a, Fit, Opens, Given, Copiers
<1>8. ASSUME cmd = "delete" PROVE OK(DeleteBranch(r))
  <2> DEFINE a == Call("remove", r, "topic")
  <2>1. "remove" \in Calls(s.cmd)
    BY <1>8 DEF Calls, Given, Copiers
  <2>2. Fit(s, a, "remove")
    BY <1>0, <1>1, <2>1, FitCalls DEF PlainCalls, AtHome, AtTgt
  <2> HIDE DEF a
  <2>3. Line(s, <<a>>, a, a)
    BY <2>2, Lines DEF Fit
  <2> QED BY <1>8, <2>3, <2>2 DEF DeleteBranch, Line, a, Fit, Opens, Given, Copiers
<1>9. ASSUME cmd = "reset" PROVE OK(Reset(r))
  <2> DEFINE a == Call("ref", r, "HEAD")
  <2>1. {"ref", "peel", "read_tree", "index_write"} \subseteq Calls(s.cmd) /\ Tgt(s) = s.home /\ s.cmd \in Given
    BY <1>9, Ends2 DEF Calls, Given, Copiers
  <2>2. Fit(s, a, "ref")
    BY <1>0, <1>1, <2>1, FitCalls DEF PlainCalls, AtHome, AtTgt
  <2>3. Leads(s, a, peel)
    BY <1>3, <2>1, FreeLeads DEF Fit
  <2>4. Leads(s, peel, lt)
    BY <1>2, <1>3, <2>1 DEF Leads, Fit
  <2> HIDE DEF a, peel, lt, iw
  <2>5. Line(s, <<a, peel>>, a, peel)
    BY <1>3, <2>1, <2>2, <2>3, Lines DEF Fit
  <2>6. Line(s, <<a, peel>> \o LoadAndWrite(r), a, iw)
    BY <1>2, <2>1, <2>4, <2>5, JoinLines
  <2> QED BY <1>9, <2>6, <2>2 DEF Reset, Line, a, peel, Fit, Opens, Given, Copiers
<1>10. ASSUME cmd = "checkout" PROVE OK(CheckOut(r))
  <2> DEFINE a == Stops(Call("peel", r, ""))
             b == Call("checkout", r, "index")
             c == Call("ref", r, "HEAD")
  <2>1. {"ref", "peel", "read_tree", "index_write", "checkout"} \subseteq Calls(s.cmd)
        /\ Tgt(s) = s.home /\ s.cmd \in Given
    BY <1>10, Ends2 DEF Calls, Given, Copiers
  <2>2. Fit(s, a, "peel") /\ a.onerr # "go" /\ Fit(s, b, "checkout") /\ Fit(s, c, "ref")
    BY <1>0, <1>1, <1>3, <2>1, FitCalls DEF PlainCalls, AtHome, AtTgt
  <2>3. Leads(s, iw, b)
    BY <2>2, FreeLeads DEF Fit
  <2>4. Leads(s, b, c)
    BY <2>1, <2>2 DEF Leads, Fit
  <2> HIDE DEF a, b, c, peel, lt, iw
  <2>5. Line(s, <<a>>, a, a) /\ Line(s, <<b, c>>, b, c)
    BY <2>2, <2>4, Lines DEF Fit
  <2>6. Line(s, <<a>> \o LoadAndWrite(r), a, iw)
    BY <1>4, <2>1, <2>2, <2>5 DEF Fit
  <2>7. Line(s, (<<a>> \o LoadAndWrite(r)) \o <<b, c>>, a, c)
    BY <2>3, <2>5, <2>6, JoinLines
  <2> QED BY <1>10, <2>7, <2>2 DEF CheckOut, Line, a, b, c, Fit, Opens, Given, Copiers
<1>11. ASSUME cmd = "stash" PROVE OK(StashPush(r))
  <2> DEFINE a == Stops(Call("write_tree", r, ""))
             d == Call("ref", r, "stash")
  <2>1. Calls(s.cmd) = {"write_tree", "head", "commit", "ref", "read_tree", "index_write"}
    BY <1>11, Ends2 DEF Calls, Given, Copiers
  <2>2. Line(s, CommitTo(r, "stash"), a, d)
    BY <1>6, <1>11
  <2>3. Leads(s, d, lt)
    BY <1>2, <1>11, <2>1 DEF Leads, Call
  <2> HIDE DEF a, d, lt, iw
  <2>4. Line(s, CommitTo(r, "stash") \o LoadAndWrite(r), a, iw)
    BY <1>2, <2>1, <2>2, <2>3, JoinLines
  <2>5. a.call = "write_tree" /\ s.cmd \notin Copiers
    BY <1>11 DEF a, Stops, Call, Copiers
  <2> QED BY <2>4, <2>5 DEF StashPush, Line, Opens
<1>12. ASSUME cmd = "pop" PROVE OK(StashPop(r))
  <2> DEFINE a == Stops(Call("lookup", r, "stash"))
             c == Call("remove", r, "stash")
  <2>1. {"lookup", "peel", "read_tree", "index_write", "checkout", "remove"} = Calls(s.cmd)
    BY <1>12 DEF Calls, Given, Copiers
  <2>2. Fit(s, a, "lookup") /\ Fit(s, out, "checkout") /\ Fit(s, c, "remove")
    BY <1>0, <1>1, <2>1, FitCalls DEF PlainCalls, AtHome, AtTgt
  <2>3. Leads(s, iw, out) /\ Leads(s, out, c) /\ Leads(s, a, peel)
    BY <1>3, <2>1, <2>2, FreeLeads DEF Fit
  <2>4. Leads(s, peel, lt)
    BY <1>2, <1>3, <2>1 DEF Leads, Fit
  <2> HIDE DEF a, c, peel, lt, iw, out
  <2>5. Line(s, <<a, peel>>, a, peel) /\ Line(s, <<out, c>>, out, c)
    BY <1>3, <2>1, <2>2, <2>3, Lines DEF Fit
  <2>6. Line(s, <<a, peel>> \o LoadAndWrite(r), a, iw)
    BY <1>2, <2>1, <2>4, <2>5, JoinLines
  <2>7. Line(s, (<<a, peel>> \o LoadAndWrite(r)) \o <<out, c>>, a, c)
    BY <2>3, <2>5, <2>6, JoinLines
  <2> QED BY <1>12, <2>7, <2>2 DEF StashPop, Line, a, c, peel, out, Fit, Opens, Given, Copiers
<1>13. ASSUME cmd \in {"merge", "rebase"} PROVE OK(<<Stops(Call("head", r, "")), Call(cmd, r, "")>>)
  <2> DEFINE a == Stops(Call("head", r, ""))
             b == Call(cmd, r, "")
  <2>1. {"head", "merge", "rebase"} \subseteq Calls(s.cmd)
    BY <1>13 DEF Calls, Given, Copiers
  <2>2. Fit(s, a, "head") /\ Fit(s, b, cmd)
    <3>1. cmd \in Calls(s.cmd) /\ cmd \in PlainCalls /\ cmd \notin AtTgt \cup {"remote_head", "advert"}
      BY <1>13, <2>1 DEF PlainCalls, AtTgt
    <3>2. Fit(s, b, cmd)
      BY <1>0, <1>1, <3>1, FitCalls
    <3> QED BY <1>0, <1>1, <2>1, <3>2, FitCalls DEF PlainCalls, AtHome, AtTgt
  <2>3. Leads(s, a, b)
    BY <1>13, <2>2, FreeLeads DEF Fit
  <2> HIDE DEF a, b
  <2>4. Line(s, <<a, b>>, a, b)
    BY <2>2, <2>3, Lines DEF Fit
  <2> QED BY <1>13, <2>4, <2>2 DEF Line, a, b, Fit, Opens, Given, Copiers
<1>14. ASSUME cmd \in Copiers, NEW to \in Repos, to = Tgt(s)
       PROVE  Line(s, Transfer(to), Call("copy", to, ""), Call("copy_refs", to, ""))
  <2> DEFINE a == Call("copy", to, "")
             b == Call("copy_refs", to, "")
  <2>1. {"copy", "copy_refs"} \subseteq Calls(s.cmd)
    BY <1>14 DEF Calls, Given, Copiers
  <2>2. Fit(s, a, "copy") /\ Fit(s, b, "copy_refs")
    BY <1>0, <1>1, <1>14, <2>1, FitCalls DEF PlainCalls, AtHome, AtTgt
  <2>3. Leads(s, a, b)
    BY <2>2, FreeLeads DEF Fit
  <2> HIDE DEF a, b
  <2>4. Line(s, <<a, b>>, a, b)
    BY <2>2, <2>3, Lines DEF Fit
  <2> QED BY <2>4 DEF Transfer, a, b
<1>15. ASSUME cmd = "push" PROVE OK(Push(r))
  <2>1. Tgt(s) = Other(r) /\ cmd \in Copiers
    BY <1>15 DEF Tgt, Copiers
  <2>2. Call("copy", Other(r), "").call = "copy" /\ cmd \notin Given
    BY <1>15 DEF Call, Given
  <2> QED BY <1>0, <1>14, <2>1, <2>2 DEF Push, Line, Opens
<1>16. ASSUME cmd \in {"fetch", "clone"}
       PROVE  OK(Fetch(r)) /\ Line(s, Fetch(r), Call("copy", r, ""), Call("ref", r, "main"))
  <2> DEFINE x == Call("copy", r, "")
             y == Call("copy_refs", r, "")
             a == Call("remote_head", Other(r), "")
             b == Call("ref", r, "main")
  <2>1. {"remote_head", "ref"} \subseteq Calls(s.cmd) /\ cmd \in Copiers /\ Tgt(s) = r /\ Src(s) = Other(r)
    BY <1>16 DEF Calls, Given, Copiers, Tgt, Src
  <2>2. Fit(s, a, "remote_head") /\ Fit(s, b, "ref")
    BY <1>0, <1>1, <2>1, FitCalls DEF PlainCalls, AtHome, AtTgt
  <2>3. Leads(s, y, a)
    BY <2>2, FreeLeads DEF Fit
  <2>4. Leads(s, a, b)
    BY <2>2 DEF Leads, Fit
  <2>5. Line(s, Transfer(r), x, y)
    BY <1>0, <1>14, <2>1
  <2> HIDE DEF a, b, x, y
  <2>6. Line(s, <<a, b>>, a, b)
    BY <2>2, <2>4, Lines DEF Fit
  <2>7. Line(s, Transfer(r) \o <<a, b>>, x, b)
    BY <2>3, <2>5, <2>6, JoinLines
  <2>8. x.call = "copy"
    BY DEF x, Call
  <2> QED BY <2>7, <2>8 DEF Fetch, Line, a, b, x, Opens
<1>17. ASSUME cmd = "clone" PROVE OK(Clone(r))
  <2> DEFINE x == Call("copy", r, "")
             y == Call("ref", r, "main")
             a == Ends(Call("lookup", r, "HEAD"))
  <2>1. {"lookup", "peel", "read_tree", "index_write", "checkout"} \subseteq Calls(s.cmd)
    BY <1>17 DEF Calls, Given, Copiers
  <2>2. Fit(s, a, "lookup") /\ Fit(s, out, "checkout")
    BY <1>0, <1>1, <2>1, FitCalls DEF PlainCalls, AtHome, AtTgt
  <2>3. Leads(s, iw, out) /\ Leads(s, a, peel) /\ Leads(s, y, a)
    BY <1>3, <2>1, <2>2, FreeLeads DEF Fit
  <2>4. Leads(s, peel, lt)
    BY <1>2, <1>3, <2>1 DEF Leads, Fit
  <2>5. Line(s, Fetch(r), x, y)
    BY <1>16, <1>17
  <2> HIDE DEF a, peel, lt, iw, out, x, y
  <2>6. Line(s, <<a, peel>>, a, peel) /\ Line(s, <<out>>, out, out)
    BY <1>3, <2>1, <2>2, <2>3, Lines DEF Fit
  <2>7. Line(s, Fetch(r) \o <<a, peel>>, x, peel)
    BY <2>3, <2>5, <2>6, JoinLines
  <2>8. Line(s, (Fetch(r) \o <<a, peel>>) \o LoadAndWrite(r), x, iw)
    BY <1>2, <2>1, <2>4, <2>7, JoinLines
  <2>9. Line(s, ((Fetch(r) \o <<a, peel>>) \o LoadAndWrite(r)) \o <<out>>, x, out)
    BY <2>3, <2>6, <2>8, JoinLines
  <2>10. x.call = "copy"
    BY DEF x, Call
  <2> QED BY <2>9, <2>10 DEF Clone, Line, a, peel, out, Opens
<1>18. ASSUME cmd = "fetch_wire" PROVE OK(FetchWire(r))
  <2> DEFINE a == Stops(Call("advert", Other(r), ""))
             b == Stops(Call("request", r, ""))
  <2>1. Calls(s.cmd) = {"advert", "request"}
    BY <1>18 DEF Calls, Given, Copiers
  <2>2. Fit(s, a, "advert") /\ Fit(s, b, "request")
    BY <1>0, <1>1, <2>1, FitCalls DEF PlainCalls, AtHome, AtTgt
  <2>3. Leads(s, a, b)
    BY <2>2, FreeLeads DEF Fit
  <2> HIDE DEF a, b
  <2>4. Line(s, <<a, b>>, a, b)
    BY <2>2, <2>3, Lines DEF Fit
  <2> QED BY <1>18, <2>4, <2>2 DEF FetchWire, Line, a, b, Fit, Opens, Given, Copiers
<1>19. ASSUME cmd = "push_wire" PROVE OK(PushWire(r))
  <2> DEFINE a == Stops(Call("advert", Other(r), ""))
             b == Stops(Call("bundle_pack", r, ""))
             c == Call("bundle_refs", r, "")
             d == Stops(Call("receive", Other(r), ""))
  <2>1. {"advert", "bundle_refs", "bundle_pack", "receive"} \subseteq Calls(s.cmd) /\ Tgt(s) = Other(r)
    BY <1>19 DEF Calls, Given, Copiers, Tgt
  <2>2. Fit(s, a, "advert") /\ Fit(s, b, "bundle_pack") /\ Fit(s, c, "bundle_refs") /\ Fit(s, d, "receive")
    BY <1>0, <1>1, <2>1, FitCalls DEF PlainCalls, AtHome, AtTgt
  <2>3. Leads(s, a, b) /\ Leads(s, b, c) /\ Leads(s, c, d)
    BY <2>2, FreeLeads DEF Fit
  <2> HIDE DEF a, b, c, d
  <2>4. Line(s, <<a, b, c, d>>, a, d)
    BY <2>2, <2>3, Lines DEF Fit
  <2> QED BY <1>19, <2>4, <2>2 DEF PushWire, PackLocalOdb, BuildReceivePackRequest, Line, a, b, c, d,
            Fit, Opens, Given, Copiers
<1>20. ASSUME cmd = "bundle" PROVE OK(Bundle(r))
  <2> DEFINE a == Call("bundle_refs", r, "")
             b == Stops(Call("bundle_pack", r, ""))
             c == Stops(Call("unbundle", Other(r), ""))
  <2>1. {"bundle_refs", "bundle_pack", "unbundle"} \subseteq Calls(s.cmd) /\ Tgt(s) = Other(r)
    BY <1>20 DEF Calls, Given, Copiers, Tgt
  <2>2. Fit(s, a, "bundle_refs") /\ Fit(s, b, "bundle_pack") /\ Fit(s, c, "unbundle") /\ b.onerr = "stop"
    <3>1. Fit(s, a, "bundle_refs") /\ Fit(s, b, "bundle_pack") /\ Fit(s, c, "unbundle")
      BY <1>0, <1>1, <2>1, FitCalls DEF PlainCalls, AtHome, AtTgt
    <3> QED BY <3>1, OnErr
  <2>3. Leads(s, a, b)
    BY <2>2, FreeLeads DEF Fit
  <2>4. Leads(s, b, c)
    BY <2>2 DEF Fit, Leads
  <2> HIDE DEF a, b, c
  <2>5. Line(s, <<a, b, c>>, a, c)
    BY <2>2, <2>3, <2>4, Lines DEF Fit
  <2> QED BY <1>20, <2>5, <2>2 DEF Bundle, Line, a, b, c, Fit, Opens, Given, Copiers
<1> HIDE DEF OK, Loads, lt, iw, peel, out
<1>21. OK(Script(cmd, r))
  <2>1. CASE cmd \in {"add", "commit", "branch", "delete", "reset", "checkout"}
    BY <2>1, <1>5, <1>6, <1>7, <1>8, <1>9, <1>10 DEF Script, CommitIndex
  <2>2. CASE cmd \in {"stash", "pop", "merge", "rebase"}
    BY <2>2, <1>11, <1>12, <1>13 DEF Script, Merge, Rebase
  <2>3. CASE cmd \in {"fetch", "push", "clone", "fetch_wire", "push_wire", "bundle"}
    BY <2>3, <1>15, <1>16, <1>17, <1>18, <1>19, <1>20 DEF Script
  <2> QED BY <2>1, <2>2, <2>3 DEF Commands
<1> QED BY <1>21 DEF OK

-----------------------------------------------------------------------------
(* Histories, trees and loops.                                             *)

\* A commit is in its own history, and its ancestors' histories are part of it.
LEMMA HistoryOf ==
    ASSUME NEW c \in Value
    PROVE  /\ c # NoCommit => c \in History(c)
           /\ \A a \in History(c) : a \in Commits /\ History(a) \subseteq History(c)
<1>1. Len(c) \in Nat /\ c \in Seq(Nat)
  BY DEF Value
<1>2. c # NoCommit => c \in History(c)
  <2> SUFFICES ASSUME c # NoCommit PROVE c \in History(c)
    OBVIOUS
  <2>1. Len(c) \in 1..Len(c)
    BY <1>1, EmptySeq DEF NoCommit
  <2>2. SubSeq(c, 1, Len(c)) = c
    BY <1>1
  <2> QED BY <2>1, <2>2 DEF History
<1>3. ASSUME NEW a \in History(c) PROVE a \in Commits /\ History(a) \subseteq History(c)
  <2>1. PICK k \in 1..Len(c) : a = SubSeq(c, 1, k)
    BY DEF History
  <2>2. a \in Seq(Nat) /\ Len(a) = k /\ \A i \in 1..k : a[i] = c[i]
    BY <1>1, <2>1
  <2>3. a # <<>>
    BY <2>2
  <2>4. ASSUME NEW b \in History(a) PROVE b \in History(c)
    <3>1. PICK j \in 1..Len(a) : b = SubSeq(a, 1, j)
      BY DEF History
    <3>2. j \in 1..Len(c) /\ SubSeq(a, 1, j) = SubSeq(c, 1, j)
      BY <1>1, <2>2, <3>1
    <3> QED BY <3>1, <3>2 DEF History
  <2> QED BY <2>2, <2>3, <2>4 DEF Commits
<1> QED BY <1>2, <1>3

\* The history of a child.
LEMMA HistoryChild ==
    ASSUME NEW h \in Value, NEW n \in Nat
    PROVE  History(Append(h, n)) \subseteq History(h) \cup {Append(h, n)}
<1> PICK c : c = Append(h, n)
  OBVIOUS
<1>1. c \in Seq(Nat) /\ Len(c) = Len(h) + 1 /\ Len(h) \in Nat /\ \A i \in 1..Len(h) : c[i] = h[i]
  BY DEF Value
<1>2. ASSUME NEW b \in History(c) PROVE b \in History(h) \cup {c}
  <2>1. PICK k \in 1..Len(c) : b = SubSeq(c, 1, k)
    BY DEF History
  <2>2. CASE k = Len(c)
    <3>1. SubSeq(c, 1, Len(c)) = c
      BY <1>1
    <3> QED BY <2>1, <2>2, <3>1
  <2>3. CASE k # Len(c)
    <3>1. k \in 1..Len(h)
      BY <1>1, <2>3
    <3>2. SubSeq(c, 1, k) = SubSeq(h, 1, k)
      BY <1>1, <3>1 DEF Value
    <3> QED BY <2>1, <3>1, <3>2 DEF History
  <2> QED BY <2>2, <2>3
<1> QED BY <1>2

\* The histories a behaviour starts with, and those of what is staged.
LEMMA HistoryRoot ==
    /\ History(<<>>) = {} /\ History(<<0>>) = {<<0>>}
    /\ \A n \in Nat : History(<<0, n>>) \subseteq {<<0>>, <<0, n>>}
<1>1. History(<<>>) = {}
  BY DEF History
<1>2. Append(<<>>, 0) = <<0>> /\ <<>> \in Value /\ <<0>> \in Value
  BY DEF Value
<1>3. History(<<0>>) \subseteq {<<0>>}
  <2>1. History(Append(<<>>, 0)) \subseteq History(<<>>) \cup {Append(<<>>, 0)}
    BY <1>2, HistoryChild
  <2> QED BY <1>1, <1>2, <2>1
<1>4. <<0>> \in History(<<0>>)
  BY <1>2, HistoryOf DEF NoCommit
<1>5. ASSUME NEW n \in Nat PROVE History(<<0, n>>) \subseteq {<<0>>, <<0, n>>}
  <2>1. Append(<<0>>, n) = <<0, n>>
    <3> PICK a, b : a = Append(<<0>>, n) /\ b = <<0, n>>
      OBVIOUS
    <3>1. a \in Seq(Nat) /\ Len(a) = 2 /\ a[1] = 0 /\ a[2] = n
      OBVIOUS
    <3>2. b \in Seq(Nat) /\ Len(b) = 2 /\ b[1] = 0 /\ b[2] = n
      OBVIOUS
    <3>3. \A i \in 1..2 : a[i] = b[i]
      BY <3>1, <3>2
    <3> QED BY <3>1, <3>2, <3>3, SeqEqual
  <2>2. History(Append(<<0>>, n)) \subseteq History(<<0>>) \cup {Append(<<0>>, n)}
    BY <1>2, HistoryChild
  <2> QED BY <1>3, <2>1, <2>2
<1> QED BY <1>1, <1>3, <1>4, <1>5

\* The index of a commit that is stored: what a process has in memory, and what it is
\* about to load.
TreeOf(s, O) ==
    /\ Has(O, s.home, s.mem)
    /\ /\ s.todo # <<>>
       /\ s.todo[1].call = "read_tree" \/ (s.todo[1].call = "ref" /\ s.cmd = "stash")
       => Has(O, s.home, s.val)

\* A step keeps it, if the call yields a value that is stored.
LEMMA TreeTurn ==
    ASSUME NEW s \in ProcType, s.todo # <<>>, Flow(s, s.todo), NEW O, TreeOf(s, O), NEW t, Turn(s, t),
           After(s, t) /\ (s.todo[1].call = "commit" \/ (s.todo[1].call = "peel" /\ s.todo[1].onerr # "go"))
              => Has(O, s.home, s.val)
    PROVE  TreeOf(t, O)
<1>1. CASE Over(s, t)
  BY <1>1 DEF Over, TreeOf, Has
<1>2. CASE Stays(s, t)
  BY <1>2 DEF Stays, Same, Kin, TreeOf
<1>3. CASE After(s, t)
  <2> PICK c, d : c = s.todo[1] /\ d = t.todo[1]
    OBVIOUS
  <2>1. t.cmd = s.cmd /\ t.home = s.home /\ t.val = s.val /\ t.mem = s.mem /\ Len(s.todo) # 1
        /\ t.todo = Tail(s.todo)
    BY <1>3 DEF After, Same, Kin
  <2>2. Fits(s, c) /\ Fits(s, d) /\ Leads(s, c, d)
    <3>1. s.todo \in Seq(CallType)
      BY DEF ProcType
    <3> QED BY <2>1, <3>1, FlowTail
  <2>3. d.call = "read_tree" => Has(O, s.home, s.val)
    BY <1>3, <2>2 DEF Leads, TreeOf
  <2>4. d.call = "ref" /\ s.cmd = "stash" => c.call = "commit"
    BY <2>2 DEF Leads, Fits, Calls, Given, Copiers
  <2> QED BY <1>3, <2>1, <2>3, <2>4 DEF TreeOf
<1> QED BY <1>1, <1>2, <1>3 DEF Turn

\* A loop: its calls are put in place of the first.
Looped(s, calls, t) ==
    Same(s, t) /\ t.todo = calls \o Tail(s.todo) /\ t.todo # <<>> /\ t.at = s.at /\ t.lost = s.lost

\* What a loop leaves the process with.
LEMMA Loops ==
    ASSUME NEW s \in ProcType, s.todo # <<>>, Flow(s, s.todo), NEW calls \in Seq(CallType), Flow(s, calls),
           ~s.lost, s.at = "call",
           calls # <<>> /\ Len(s.todo) # 1 => Leads(s, calls[Len(calls)], Tail(s.todo)[1])
    PROVE  LET t == Loop(s, calls)
           IN  /\ Flow(t, t.todo)
               /\ \/ Over(s, t)
                  \/ calls = <<>> /\ After(s, t)
                  \/ calls # <<>> /\ Looped(s, calls, t) /\ t.todo[1] = calls[1]
<1> PICK t : t = Loop(s, calls)
  OBVIOUS
<1>1. s.todo \in Seq(CallType) /\ Tail(s.todo) \in Seq(CallType) /\ Flow(s, Tail(s.todo))
      /\ (Len(s.todo) # 1 => Tail(s.todo) # <<>>)
  BY FlowTail DEF ProcType
<1>2. Len(s.todo) = 1 => Tail(s.todo) = <<>>
  <2>1. Len(Tail(s.todo)) = Len(s.todo) - 1
    BY <1>1, TailOf
  <2>2. Len(s.todo) = 1 => Len(Tail(s.todo)) = 0
    BY <2>1
  <2> QED BY <1>1, <2>2, EmptySeq
<1>3. CASE calls \o Tail(s.todo) = <<>>
  <2>1. Over(s, t)
    BY <1>3, Turns DEF Loop
  <2> QED BY <2>1 DEF Over, Flow
<1>4. CASE calls \o Tail(s.todo) # <<>>
  <2>1. t = [s EXCEPT !.todo = calls \o Tail(s.todo)]
    BY <1>4 DEF Loop
  <2>2. Looped(s, calls, t)
    BY <1>4, <2>1 DEF Looped, Same, Kin, ProcType
  <2>3. calls # <<>> /\ Tail(s.todo) # <<>> => Leads(s, calls[Len(calls)], Tail(s.todo)[1])
    BY <1>2
  <2>4. Flow(s, calls \o Tail(s.todo))
    BY <1>1, <2>3, FlowConcat
  <2>5. Flow(t, t.todo)
    BY <2>2, <2>4, KinSame DEF Looped, Same
  <2>6. CASE calls = <<>>
    <3>1. calls \o Tail(s.todo) = Tail(s.todo)
      BY <1>1, <2>6
    <3>2. After(s, t)
      BY <1>2, <1>4, <2>2, <3>1 DEF After, Looped
    <3> QED BY <2>5, <2>6, <3>2
  <2>7. CASE calls # <<>>
    <3>1. (calls \o Tail(s.todo))[1] = calls[1]
      <4>1. Len(calls) \in Nat \ {0}
        BY <2>7, EmptySeq
      <4> QED BY <1>1, <4>1
    <3> QED BY <2>2, <2>5, <2>7, <3>1 DEF Looped
  <2> QED BY <2>6, <2>7
<1> QED BY <1>3, <1>4

\* What comes after a loop can come after its last call.
LEMMA LoopLeads ==
    ASSUME NEW s, NEW c, NEW d, NEW z, Fits(s, c), Leads(s, c, d),
           c.call \in {"copy_refs", "bundle_refs"} \/ (c.call = "unbundle" /\ z.call = "ref")
    PROVE  Leads(s, z, d)
<1>1. s.cmd \notin Given
  BY DEF Fits, Calls, Given, Copiers
<1>2. d.call \notin {"ref", "read_tree", "bundle_ref", "unbundle"}
  BY <1>1 DEF Leads
<1>3. d.call = "bundled" => c.call = "unbundle"
  BY DEF Leads
<1> QED BY <1>2, <1>3 DEF Leads

\* The loop over the listed references.
LEMMA PairsFlow ==
    ASSUME NEW s \in ProcType, NEW names, NEW from \in Repos, NEW to \in Repos, NEW call,
           \/ s.cmd \in Copiers /\ call = "ref" /\ from = Src(s) /\ to = Tgt(s)
           \/ s.cmd \in {"bundle", "push_wire"} /\ call = "bundle_ref" /\ from = s.home /\ to = s.home
    PROVE  LET q == RefPairs(from, names, call, to)
           IN  q \in Seq(CallType) /\ Flow(s, q) /\ (q # <<>> => q[1].call = "lookup" /\ q[Len(q)].call = call)
<1> DEFINE Pair(n) == IF n \in names THEN <<Call("lookup", from, n), Call(call, to, n)>> ELSE <<>>
           OK(q) == q \in Seq(CallType) /\ Flow(s, q) /\ (q # <<>> => q[1].call = "lookup" /\ q[Len(q)].call = call)
<1>1. ASSUME NEW n \in Branches PROVE OK(Pair(n))
  <2> DEFINE a == Call("lookup", from, n)
             b == Call(call, to, n)
  <2>1. a \in CallType /\ b \in CallType
    <3>1. n \in Names \cup {"HEAD"} /\ "lookup" \in RefCalls /\ call \in RefCalls
      BY DEF Names, RefCalls
    <3> QED BY <3>1, RefCallOK
  <2>2. /\ a.call = "lookup" /\ a.repo = from /\ b.call = call /\ b.repo = to
    BY DEF Call
  <2> HIDE DEF a, b
  <2>3. {"lookup", call} \subseteq Calls(s.cmd)
    BY DEF Calls, Given, Copiers
  <2>4. Fits(s, a) /\ Fits(s, b)
    BY <2>2, <2>3 DEF Fits, AtHome, AtTgt
  <2>5. Leads(s, a, b)
    BY <2>2, Ends2 DEF Leads
  <2>6. Line(s, <<a, b>>, a, b)
    BY <2>1, <2>4, <2>5, Lines DEF Fit
  <2>7. OK(<<a, b>>)
    BY <2>2, <2>6 DEF Line
  <2>8. OK(<<>>)
    BY DEF Flow
  <2> QED BY <2>7, <2>8 DEF a, b
<1> PICK u, v : u = Pair("main") /\ v = Pair("topic")
  OBVIOUS
<1>2. OK(u) /\ OK(v)
  BY <1>1 DEF Branches
<1>3. RefPairs(from, names, call, to) = u \o v
  BY DEF RefPairs
<1> HIDE DEF Pair
<1>4. u \o v \in Seq(CallType) /\ Flow(s, u \o v)
  <2>1. u # <<>> /\ v # <<>> => Leads(s, u[Len(u)], v[1])
    BY <1>2, FreeLeads
  <2> QED BY <1>2, <2>1, FlowConcat, ConcatCalls
<1>5. u \o v # <<>> => (u \o v)[1].call = "lookup" /\ (u \o v)[Len(u \o v)].call = call
  <2>1. CASE u = <<>>
    <3>1. u \o v = v
      BY <1>2, <2>1
    <3> QED BY <1>2, <3>1
  <2>2. CASE v = <<>>
    <3>1. u \o v = u
      BY <1>2, <2>2
    <3> QED BY <1>2, <3>1
  <2>3. CASE u # <<>> /\ v # <<>>
    <3>1. Len(u) \in Nat \ {0} /\ Len(v) \in Nat \ {0}
      BY <1>2, <2>3, EmptySeq
    <3>2. (u \o v)[1] = u[1] /\ (u \o v)[Len(u \o v)] = v[Len(v)]
      BY <1>2, <3>1
    <3> QED BY <1>2, <2>3, <3>2
  <2> QED BY <2>1, <2>2, <2>3
<1> QED BY <1>3, <1>4, <1>5

\* Twice a number.
LEMMA Even == ASSUME NEW n \in Nat PROVE 2 * n \in Nat /\ (2 * n) % 2 # 1
  OBVIOUS

\* The loop over the references of a bundle.
LEMMA UnbundleFlow ==
    ASSUME NEW s \in ProcType, s.cmd = "bundle", NEW r \in Repos, r = Tgt(s)
    PROVE  LET q == [i \in 1..(2 * Len(s.bundle)) |-> Call(IF i % 2 = 1 THEN "bundled" ELSE "ref",
                                                           r, s.bundle[(i + 1) \div 2][1])]
           IN  /\ q \in Seq(CallType) /\ Flow(s, q)
               /\ s.bundle = <<>> <=> q = <<>>
               /\ q # <<>> => q[1].call = "bundled" /\ q[Len(q)].call = "ref"
<1> PICK b : b = s.bundle
  OBVIOUS
<1> DEFINE q == [i \in 1..(2 * Len(b)) |-> Call(IF i % 2 = 1 THEN "bundled" ELSE "ref", r, b[(i + 1) \div 2][1])]
<1>1. b \in Seq(Branches \X Commits) /\ Len(b) \in Nat
  BY DEF ProcType
<1>2. \A i \in 1..Len(b) : b[i][1] \in Branches
  <2>1. \A i \in 1..Len(b) : b[i] \in Branches \X Commits
    BY <1>1
  <2>2. \A e \in Branches \X Commits : e[1] \in Branches
    OBVIOUS
  <2> QED BY <2>1, <2>2
<1>3. {"bundled", "ref"} \subseteq Calls(s.cmd)
  BY DEF Calls, Given, Copiers
<1>4. ASSUME NEW i \in 1..(2 * Len(b))
      PROVE  q[i] \in CallType /\ q[i].call = (IF i % 2 = 1 THEN "bundled" ELSE "ref") /\ Fits(s, q[i])
  <2> DEFINE c == IF i % 2 = 1 THEN "bundled" ELSE "ref"
             n == b[(i + 1) \div 2][1]
  <2>1. (i + 1) \div 2 \in 1..Len(b)
    BY <1>1
  <2>2. n \in Branches /\ n \in Names \cup {"HEAD"}
    BY <1>2, <2>1 DEF Names
  <2>3. c \in RefCalls /\ c \in {"bundled", "ref"}
    BY DEF RefCalls
  <2> HIDE DEF c, n
  <2>4. Call(c, r, n) \in CallType /\ Call(c, r, n).call = c
    BY <2>2, <2>3, RefCallOK
  <2>5. Call(c, r, n).repo = r
    BY DEF Call
  <2>6. Fits(s, Call(c, r, n))
    BY <1>3, <2>3, <2>4, <2>5 DEF Fits, AtHome, AtTgt
  <2>7. q[i] = Call(c, r, n)
    BY DEF c, n
  <2> QED BY <2>4, <2>6, <2>7 DEF c
<1> PICK k : k = 2 * Len(b)
  OBVIOUS
<1>5. k \in Nat /\ k % 2 # 1
  BY <1>1, Even
<1>6. q = [i \in 1..k |-> q[i]]
  OBVIOUS
<1> HIDE DEF q
<1>7. q \in [1..k -> CallType]
  BY <1>4, <1>6
<1>8. q \in Seq(CallType) /\ Len(q) = k
  BY <1>5, <1>7
<1>9. ASSUME NEW i \in 1..(Len(q) - 1) PROVE Leads(s, q[i], q[i + 1])
  <2>1. i \in 1..k /\ i + 1 \in 1..k
    BY <1>5, <1>8
  <2>2. i % 2 = 1 => (i + 1) % 2 # 1
    BY <2>1
  <2>3. i % 2 # 1 => (i + 1) % 2 = 1
    BY <2>1
  <2>4. \/ q[i].call = "bundled" /\ q[i + 1].call = "ref"
        \/ q[i].call = "ref" /\ q[i + 1].call = "bundled"
    BY <1>4, <2>1, <2>2, <2>3
  <2> QED BY <2>4 DEF Leads
<1>10. Flow(s, q)
  BY <1>4, <1>8, <1>9 DEF Flow
<1>11. ASSUME q # <<>> PROVE q[1].call = "bundled" /\ q[Len(q)].call = "ref"
  <2>1. k # 0
    BY <1>8, <1>11, EmptySeq
  <2>2. 1 \in 1..k /\ k \in 1..k /\ 1 % 2 = 1
    BY <1>5, <2>1
  <2> QED BY <1>4, <1>5, <1>8, <2>2
<1>12. b = <<>> <=> q = <<>>
  <2>1. b = <<>> <=> Len(b) = 0
    BY <1>1, EmptySeq
  <2>2. q = <<>> <=> k = 0
    BY <1>8, EmptySeq
  <2> QED BY <1>1, <2>1, <2>2
<1> QED BY <1>8, <1>10, <1>11, <1>12 DEF q

-----------------------------------------------------------------------------
(* The invariant, and how object stores grow.                              *)

Clean == ~Marked("dropped") /\ ~Marked("late") /\ ~Marked("unlisted")
\* The local repository is one that began empty: all it has it has from the other.
Hollow == /\ odb["local"] \subseteq odb["peer"]
          /\ \A p \in Procs : proc[p].home = "local" => proc[p].cmd \in Importers \cup {"none"}
Rooted == <<0>> \in odb["peer"] /\ (<<0>> \in odb["local"] \/ Hollow)

ListOK(s, O) == s.list \subseteq O[Src(s)] /\ (s.todo = <<>> => s.list = {})
Sound(p) ==
    /\ Flow(proc[p], proc[p].todo)
    /\ ListOK(proc[p], odb)
    /\ ~Marked("dropped") => TreeOf(proc[p], odb)
    /\ Clean /\ proc[p].todo # <<>> => Good(proc[p], odb, Hollow)
Closed(r) == \A n \in Names : /\ IsCommit(loose[r][n]) => Holds(odb, r, loose[r][n])
                              /\ Holds(odb, r, packed[r][n])
SInv == Rooted /\ (\A p \in Procs : Sound(p)) /\ (Clean => \A r \in Repos : Closed(r))

\* How the object stores grow in a step of p: from each other, but for the commit or the
\* blob that p makes, and then nobody has listed them, or it is marked.
Makers == {"add", "commit", "stash"}
Gains(p) ==
    /\ marks \subseteq marks'
    /\ \A r \in Repos :
          /\ odb[r] \subseteq odb'[r]
          /\ \/ odb'[r] \subseteq odb[r] \cup odb[Other(r)]
             \/ /\ r = proc[p].home /\ proc[p].cmd \in Makers
                /\ Copying(r) = {} \/ ~Clean'

\* Marks stay.
LEMMA MarksStay ==
    ASSUME marks \subseteq marks'
    PROVE  /\ Clean' => Clean
           /\ \A k : Marked(k) => Marked(k)'
  BY DEF Clean, Marked

\* A list of loose objects has all there is, or it is marked.
LEMMA ListsAll ==
    ASSUME NEW r, MarkUnlisted(r)
    PROVE  marks \subseteq marks' /\ (Clean' => LooseObjects(r) = odb[r])
<1>1. CASE packs[r] = {} /\ UNCHANGED marks
  BY <1>1 DEF LooseObjects
<1>2. CASE Mark(<<"unlisted", r>>)
  <2>1. marks \subseteq marks' /\ <<"unlisted", r>> \in marks'
    BY <1>2 DEF Mark
  <2>2. <<"unlisted", r>>[1] = "unlisted"
    OBVIOUS
  <2> QED BY <2>1, <2>2 DEF Clean, Marked
<1> QED BY <1>1, <1>2 DEF MarkUnlisted

\* Nothing is stored.
LEMMA NoGain ==
    ASSUME NEW p, marks \subseteq marks', odb' = odb
    PROVE  Gains(p)
  BY DEF Gains

\* Objects are stored.
LEMMA StoreGain ==
    ASSUME OdbOK, NEW p \in Procs, NEW r \in Repos, NEW new, Store(r, new),
           new \subseteq odb[Other(r)] \/ (r = proc[p].home /\ proc[p].cmd \in Makers)
    PROVE  Gains(p) /\ (~Marked("dropped")' => odb' = [odb EXCEPT ![r] = @ \cup new])
<1> PICK O : O = odb
  OBVIOUS
<1>1. O \in [Repos -> SUBSET Commits]
  BY DEF OdbOK
<1>2. CASE /\ odb' = [odb EXCEPT ![r] = @ \cup new]
           /\ IF Copying(r) # {} /\ ~new \subseteq odb[r] \cup odb[Other(r)]
              THEN Mark(<<"late", r>>) ELSE UNCHANGED marks
  <2>1. odb'[r] = O[r] \cup new /\ \A x \in Repos : x # r => odb'[x] = O[x]
    BY <1>1, <1>2
  <2>2. marks \subseteq marks'
    BY <1>2 DEF Mark
  <2>3. Copying(r) # {} /\ ~new \subseteq odb[r] \cup odb[Other(r)] => Marked("late")'
    <3> SUFFICES ASSUME Mark(<<"late", r>>) PROVE Marked("late")'
      BY <1>2
    <3>1. <<"late", r>> \in marks' /\ <<"late", r>>[1] = "late"
      BY DEF Mark
    <3> QED BY <3>1 DEF Marked
  <2>4. new \subseteq odb[Other(r)] \/ new \subseteq odb[r] \cup odb[Other(r)] =>
           odb'[r] \subseteq odb[r] \cup odb[Other(r)]
    BY <2>1
  <2>5. Gains(p)
    BY <2>1, <2>2, <2>3, <2>4 DEF Gains, Clean
  <2> QED BY <1>2, <2>5
<1>3. CASE \E lost \in new \ odb[r] : odb' = [odb EXCEPT ![r] = @ \cup (new \ {lost})]
                                      /\ Mark(<<"dropped", r>>)
  <2>1. PICK lost \in new \ odb[r] : odb' = [odb EXCEPT ![r] = @ \cup (new \ {lost})]
                                      /\ Mark(<<"dropped", r>>)
    BY <1>3
  <2>2. Marked("dropped")' /\ marks \subseteq marks'
    <3>1. <<"dropped", r>> \in marks' /\ <<"dropped", r>>[1] = "dropped"
      BY <2>1 DEF Mark
    <3> QED BY <2>1, <3>1 DEF Marked, Mark
  <2>3. odb'[r] = O[r] \cup (new \ {lost}) /\ \A x \in Repos : x # r => odb'[x] = O[x]
    BY <1>1, <2>1
  <2>4. Gains(p)
    BY <2>2, <2>3 DEF Gains, Clean
  <2> QED BY <2>2, <2>4
<1> QED BY <1>2, <1>3 DEF Store

-----------------------------------------------------------------------------
(* The processes that do not step.                                         *)

\* A local repository that began empty has nothing of its own.
LEMMA HollowStays ==
    ASSUME Types, NEW p \in Procs, Kindred(p), Gains(p), Rooted
    PROVE  (Hollow => Hollow') /\ Rooted'
<1>1. \A r \in Repos : odb[r] \subseteq odb'[r]
  BY DEF Gains
<1>2. ASSUME Hollow PROVE Hollow'
  <2>1. ~(proc[p].home = "local" /\ proc[p].cmd \in Makers)
    BY <1>2 DEF Hollow, Makers, Importers
  <2>2. odb'["local"] \subseteq odb["local"] \cup odb["peer"]
    BY <2>1, Others DEF Gains
  <2>3. odb'["local"] \subseteq odb'["peer"]
    BY <1>1, <1>2, <2>2, Others DEF Hollow
  <2>4. \A q \in Procs : proc'[q].home = "local" => proc'[q].cmd \in Importers \cup {"none"}
    BY <1>2 DEF Kindred, Kin, Hollow
  <2> QED BY <2>3, <2>4 DEF Hollow
<1>3. <<0>> \in odb'["peer"] /\ (<<0>> \in odb["local"] => <<0>> \in odb'["local"])
  BY <1>1, Others DEF Rooted
<1> QED BY <1>2, <1>3 DEF Rooted

\* What copiers have listed or copied is still all there is.
LEMMA AllGrown ==
    ASSUME Types, NEW p \in Procs, Gains(p), Clean', NEW q \in Procs, Good(proc[q], odb, Hollow)
    PROVE  Grown(proc[q], odb, odb')
<1> PICK s, r : s = proc[q] /\ r = Src(proc[q])
  OBVIOUS
<1>1. s \in ProcType /\ r \in Repos
  BY Ends2 DEF Types, ProcsOK
<1>2. \A x \in Repos : odb[x] \subseteq odb'[x]
  BY DEF Gains
<1>3. ASSUME s.cmd \in Copiers, Past(s) PROVE odb'[r] \subseteq odb[r] \cup odb[Tgt(s)]
  <2>1. Tgt(s) = Other(r)
    BY <1>1, <1>3, Ends2, Others
  <2>2. CASE odb'[r] \subseteq odb[r] \cup odb[Other(r)]
    BY <2>1, <2>2
  <2>3. CASE r = proc[p].home /\ proc[p].cmd \in Makers /\ Copying(r) = {}
    <3>1. s.list # {} \/ (r = "local" /\ Hollow)
      BY <1>3 DEF Good, CopiedOK
    <3>2. CASE s.list # {}
      <4>1. (s.cmd = "push") = (s.home = r)
        BY <1>1, <1>3, Others DEF Src, Copiers, ProcType
      <4>2. q \in Copying(r)
        BY <1>3, <3>2, <4>1 DEF Copying, Copiers
      <4> QED BY <2>3, <4>2
    <3>3. CASE r = "local" /\ Hollow
      BY <2>3, <3>3 DEF Hollow, Makers, Importers
    <3> QED BY <3>1, <3>2, <3>3
  <2> QED BY <1>1, <2>2, <2>3 DEF Gains
<1> QED BY <1>2, <1>3 DEF Grown

\* The same process, for all these properties say.
Alike(s, t) == Same(s, t) /\ t.todo = s.todo /\ t.at = s.at

\* What holds of the one holds of the other.
LEMMA AlikeSound ==
    ASSUME NEW s, NEW t, Alike(s, t), NEW O, NEW h
    PROVE  /\ Flow(s, s.todo) => Flow(t, t.todo)
           /\ ListOK(s, O) => ListOK(t, O)
           /\ TreeOf(s, O) => TreeOf(t, O)
           /\ Good(s, O, h) => Good(t, O, h)
<1>1. /\ t.val = s.val /\ t.head = s.head /\ t.mem = s.mem /\ t.list = s.list /\ t.bundle = s.bundle
      /\ t.adv = s.adv /\ t.cmd = s.cmd /\ t.home = s.home /\ t.todo = s.todo /\ t.at = s.at /\ Kin(s, t)
  BY DEF Alike, Same, Kin
<1>2. Src(t) = Src(s) /\ Tgt(t) = Tgt(s) /\ \A q : Flow(s, q) => Flow(t, q)
  BY <1>1, KinSame
<1>3. Flow(s, s.todo) => Flow(t, t.todo)
  BY <1>1, <1>2
<1>4. ListOK(s, O) => ListOK(t, O)
  BY <1>1, <1>2 DEF ListOK
<1>5. TreeOf(s, O) => TreeOf(t, O)
  BY <1>1 DEF TreeOf
<1>6. CopiedOK(s, O, h) => CopiedOK(t, O, h)
  BY <1>1, <1>2 DEF CopiedOK, Past
<1>7. BundleOK(s, O) => BundleOK(t, O)
  BY <1>1, <1>2 DEF BundleOK
<1>8. ValueOK(s, O) => ValueOK(t, O)
  BY <1>1, <1>2 DEF ValueOK
<1> QED BY <1>3, <1>4, <1>5, <1>6, <1>7, <1>8 DEF Good

\* A process whose file was unlinked is.
LEMMA LostAlike ==
    ASSUME NEW s \in ProcType
    PROVE  Alike(s, s) /\ Alike(s, [s EXCEPT !.lost = TRUE])
  BY DEF Alike, Same, Kin, ProcType

\* What a process had before the step, with the object stores after it.
Kept2(s) == /\ Flow(s, s.todo) /\ ListOK(s, odb')
            /\ ~Marked("dropped")' => TreeOf(s, odb')
            /\ Clean' /\ s.todo # <<>> => Good(s, odb', Hollow')

\* It has it still.
LEMMA StillSound ==
    ASSUME Types, NEW p \in Procs, Kindred(p), Gains(p), SInv, NEW q \in Procs
    PROVE  Kept2(proc[q])
<1> PICK s, O, P : s = proc[q] /\ O = odb /\ P = odb'
  OBVIOUS
<1>1. s \in ProcType /\ Src(s) \in Repos /\ s.home \in Repos
  BY Ends2 DEF Types, ProcsOK, ProcType
<1>2. \A r \in Repos : O[r] \subseteq P[r]
  BY DEF Gains
<1>3. Flow(s, s.todo) /\ ListOK(s, O) /\ (~Marked("dropped") => TreeOf(s, O))
      /\ (Clean /\ s.todo # <<>> => Good(s, O, Hollow))
  BY DEF SInv, Sound
<1>4. (Clean' => Clean) /\ (Marked("dropped") => Marked("dropped")') /\ (Hollow => Hollow')
  BY HollowStays, MarksStay DEF Gains, SInv
<1>5. ListOK(s, P)
  BY <1>1, <1>2, <1>3 DEF ListOK
<1>6. ~Marked("dropped")' => TreeOf(s, P)
  BY <1>1, <1>2, <1>3, <1>4 DEF TreeOf, Has
<1>7. ASSUME Clean', s.todo # <<>> PROVE Good(s, P, Hollow')
  <2> PICK h, k : h = Hollow /\ k = Hollow'
    OBVIOUS
  <2>1. Good(s, O, h)
    BY <1>3, <1>4, <1>7
  <2>2. Grown(s, O, P)
    BY <1>7, <2>1, AllGrown
  <2>3. h => k
    BY <1>4
  <2>4. Good(s, P, k)
    BY ONLY <1>1, <2>1, <2>2, <2>3, GoodLater
  <2> QED BY <2>4
<1> QED BY <1>3, <1>5, <1>6, <1>7 DEF Kept2

\* The others are still sound.
LEMMA OthersSound ==
    ASSUME Types, NEW p \in Procs, Kindred(p), Gains(p), SInv, NEW q \in Procs, q # p
    PROVE  Sound(q)'
<1>1. Kept2(proc[q])
  BY StillSound
<1>2. proc[q] \in ProcType
  BY DEF Types, ProcsOK
<1> PICK s, t, P, k : s = proc[q] /\ t = proc'[q] /\ P = odb' /\ k = Hollow'
  OBVIOUS
<1>3. Alike(s, t)
  BY <1>2, LostAlike DEF Kindred
<1>4. /\ Flow(s, s.todo) => Flow(t, t.todo)
      /\ ListOK(s, P) => ListOK(t, P)
      /\ TreeOf(s, P) => TreeOf(t, P)
      /\ Good(s, P, k) => Good(t, P, k)
  BY ONLY <1>3, AlikeSound
<1>5. t.todo = s.todo
  BY <1>3 DEF Alike
<1> QED BY <1>1, <1>4, <1>5 DEF Kept2, Sound

\* References that do not change are closed.
LEMMA StillClosed ==
    ASSUME Types, NEW p, Gains(p), SInv, Clean', NEW r \in Repos
    PROVE  /\ packed' = packed => \A n \in Names : Holds(odb', r, packed'[r][n])
           /\ \A n \in Names : IsCommit(loose[r][n]) => Holds(odb', r, loose[r][n])
<1>1. Closed(r)
  BY MarksStay DEF SInv, Gains
<1>2. odb[r] \subseteq odb'[r]
  BY DEF Gains
<1> QED BY <1>1, <1>2 DEF Closed, Holds

-----------------------------------------------------------------------------
(* Steps that set nothing.                                                 *)

\* Where a turn leads.
LEMMA FlowTurn ==
    ASSUME NEW s \in ProcType, s.todo # <<>>, Flow(s, s.todo), NEW t, Turn(s, t)
    PROVE  Flow(t, t.todo)
<1>1. CASE Over(s, t)
  BY <1>1 DEF Over, Flow
<1>2. CASE After(s, t)
  <2>1. Flow(s, Tail(s.todo))
    BY FlowTail DEF ProcType
  <2> QED BY <1>2, <2>1, KinSame DEF After, Same
<1>3. CASE Stays(s, t)
  BY <1>3, KinSame DEF Stays, Same
<1> QED BY <1>1, <1>2, <1>3 DEF Turn

\* And what it makes of the list of objects.
LEMMA ListTurn ==
    ASSUME NEW s \in ProcType, s.todo # <<>>, NEW O, ListOK(s, O), NEW t, Turn(s, t)
    PROVE  ListOK(t, O)
<1>1. CASE Over(s, t)
  BY <1>1 DEF Over, ListOK
<1>2. CASE After(s, t)
  <2>1. Len(s.todo) # 1 /\ t.todo = Tail(s.todo) /\ t.list = s.list /\ Kin(s, t)
    BY <1>2 DEF After, Same
  <2>2. t.todo # <<>>
    BY <2>1, TailOf DEF ProcType
  <2> QED BY <2>1, <2>2, KinSame DEF ListOK
<1>3. CASE Stays(s, t)
  BY <1>3, KinSame DEF Stays, Same, ListOK
<1> QED BY <1>1, <1>2, <1>3 DEF Turn

\* A call that sets nothing the next one needs.
LEMMA TurnSound ==
    ASSUME NEW p, NEW u \in ProcType, u.todo # <<>>, Kept2(u), u.todo[1].call \in Quietly,
           Turn(u, proc'[p]),
           /\ ~Marked("dropped")' /\ After(u, proc'[p]) /\ u.todo[1].call = "peel" /\ u.todo[1].onerr # "go"
           => Has(odb', u.home, u.val)
    PROVE  Sound(p)'
<1> PICK t, P, k : t = proc'[p] /\ P = odb' /\ k = Hollow'
  OBVIOUS
<1>1. Turn(u, t) /\ Flow(u, u.todo) /\ ListOK(u, P)
  BY DEF Kept2
<1>2. Flow(t, t.todo) /\ ListOK(t, P)
  BY <1>1, FlowTurn, ListTurn
<1>3. ASSUME ~Marked("dropped")' PROVE TreeOf(t, P)
  <2>1. TreeOf(u, P)
    BY <1>3 DEF Kept2
  <2>2. After(u, t) /\ (u.todo[1].call = "commit" \/ (u.todo[1].call = "peel" /\ u.todo[1].onerr # "go"))
          => Has(P, u.home, u.val)
    BY <1>3 DEF Quietly
  <2> QED BY <1>1, <2>1, <2>2, TreeTurn
<1>4. ASSUME Clean', t.todo # <<>> PROVE Good(t, P, k)
  <2>1. Good(u, P, k)
    BY <1>4 DEF Kept2
  <2> QED BY <1>1, <1>4, <2>1, GoodTurn
<1> QED BY <1>2, <1>3, <1>4 DEF Sound

\* A call that sets what the next one needs.
LEMMA ReadySound ==
    ASSUME NEW p, NEW u \in ProcType, u.todo # <<>>, Flow(u, u.todo), ListOK(u, odb'),
           ~Marked("dropped")' => TreeOf(u, odb') /\ (u.todo[1].call = "commit" => Has(odb', u.home, u.val)),
           Clean' => Ready(u, odb', Hollow'), u.todo[1].call # "peel",
           Over(u, proc'[p]) \/ After(u, proc'[p])
    PROVE  Sound(p)'
<1> PICK t, P, k : t = proc'[p] /\ P = odb' /\ k = Hollow'
  OBVIOUS
<1>1. Turn(u, t) /\ ListOK(u, P)
  BY DEF Turn
<1>2. Flow(t, t.todo) /\ ListOK(t, P)
  BY <1>1, FlowTurn, ListTurn
<1>3. ASSUME ~Marked("dropped")' PROVE TreeOf(t, P)
  <2>1. TreeOf(u, P) /\ (u.todo[1].call = "commit" => Has(P, u.home, u.val))
    BY <1>3
  <2> QED BY <1>1, <2>1, TreeTurn
<1>4. ASSUME Clean', t.todo # <<>> PROVE Good(t, P, k)
  <2>1. Ready(u, P, k)
    BY <1>4
  <2>2. After(u, t)
    BY <1>4 DEF Over
  <2> QED BY <2>1, <2>2, ReadyGood
<1> QED BY <1>2, <1>3, <1>4 DEF Sound

\* A process with another value in a field these properties do not read.
LEMMA TurnAlike ==
    ASSUME NEW s, NEW u, Same(s, u), u.todo = s.todo, NEW t
    PROVE  (Over(u, t) => Over(s, t)) /\ (After(u, t) => After(s, t)) /\ (Stays(u, t) => Stays(s, t))
           /\ (Turn(u, t) => Turn(s, t))
<1>1. (Over(u, t) => Over(s, t)) /\ (After(u, t) => After(s, t)) /\ (Stays(u, t) => Stays(s, t))
  BY DEF Over, After, Stays, Same, Kin
<1> QED BY <1>1 DEF Turn

\* Steps after which the process is at the same call or past it, with nothing read or
\* stored.
Quiets(p) ==
    /\ proc[p].todo # <<>> /\ Do(p).call \in Quietly \ {"peel"} /\ Turn(proc[p], proc'[p])
    /\ odb' = odb /\ marks \subseteq marks'

\* The process that made the step.
LEMMA BecomesIs ==
    ASSUME ProcsOK, NEW p \in Procs, NEW t, Becomes(p, t)
    PROVE  proc'[p] = t
  BY DEF ProcsOK, Becomes

\* The steps that write or remove a reference are such steps.
LEMMA RefQuiets ==
    ASSUME Types, NEW p \in Procs,
           RefSkip(p) \/ RefStat(p) \/ RefOld(p) \/ RefOpen(p) \/ RefWrite(p) \/ RefLog(p)
             \/ RmOld(p) \/ RmUnlink(p) \/ RmLog(p)
    PROVE  Quiets(p)
<1> PICK s : s = proc[p]
  OBVIOUS
<1>1. ProcsOK /\ s \in ProcType
  BY DEF Types, ProcsOK
<1>2. s.todo # <<>> /\ Do(p).call \in {"ref", "remove"} /\ odb' = odb /\ marks \subseteq marks'
  BY DEF RefSkip, RefStat, RefOld, RefOpen, RefWrite, RefLog, RmOld, RmUnlink, RmLog, Doing, AddToLog, Mark
<1>3. /\ Turn(s, Returned(s)) /\ Turn(s, Failed(s)) /\ \A a : Turn(s, Goes(s, a))
  BY <1>1, <1>2, Turns DEF Turn
<1>4. ASSUME NEW a, NEW v PROVE Turn(s, [Goes(s, a) EXCEPT !.seen = v])
  BY <1>1 DEF Turn, Stays, Same, Kin, Goes, ProcType
<1>5. ASSUME NEW a, NEW v PROVE Turn(s, [Goes(s, a) EXCEPT !.old = v])
  BY <1>1 DEF Turn, Stays, Same, Kin, Goes, ProcType
<1>6. CASE RefSkip(p)
  <2>1. Becomes(p, Returned(s))
    BY <1>6 DEF RefSkip
  <2> QED BY <1>1, <1>2, <1>3, <2>1, BecomesIs DEF Quiets, Quietly
<1>7. CASE RefStat(p)
  <2>1. PICK t : Becomes(p, t) /\ t \in {[Goes(s, "old") EXCEPT !.seen = Absent], Failed(s)}
    BY <1>7 DEF RefStat
  <2>2. Turn(s, [Goes(s, "old") EXCEPT !.seen = Absent])
    BY <1>4
  <2>3. Turn(s, t)
    BY <1>3, <2>1, <2>2
  <2> QED BY <1>1, <1>2, <2>1, <2>3, BecomesIs DEF Quiets, Quietly
<1>8. CASE RefOld(p) \/ RmOld(p)
  <2>1. PICK a, v : Becomes(p, [Goes(s, a) EXCEPT !.old = v])
    BY <1>8 DEF RefOld, RmOld
  <2>2. Turn(s, [Goes(s, a) EXCEPT !.old = v])
    BY <1>5
  <2>3. proc'[p] = [Goes(s, a) EXCEPT !.old = v]
    BY <1>1, <2>1, BecomesIs
  <2> QED BY <1>2, <2>2, <2>3 DEF Quiets, Quietly
<1>9. CASE RefOpen(p) \/ RefWrite(p) \/ RefLog(p) \/ RmLog(p)
  <2>1. PICK t : Becomes(p, t) /\ (t \in {Failed(s), Returned(s)} \/ \E a : t = Goes(s, a))
    BY <1>9 DEF RefOpen, RefWrite, RefLog, RmLog
  <2>2. Turn(s, t)
    BY <1>3, <2>1
  <2> QED BY <1>1, <1>2, <2>1, <2>2, BecomesIs DEF Quiets, Quietly
<1>10. CASE RmUnlink(p)
  <2>1. proc'[p] \in {Failed(s), Goes(s, "log")}
    <3>1. CASE Becomes(p, Failed(s))
      BY <1>1, <3>1, BecomesIs
    <3>2. CASE ~Becomes(p, Failed(s))
      <4>1. proc' = [q \in Procs |->
                  CASE q = p -> Goes(proc[p], "log")
                    [] q # p /\ Doing(q, "ref", "write") /\ ThisRef(q) = ThisRef(p) ->
                          [proc[q] EXCEPT !.lost = TRUE]
                    [] OTHER -> proc[q]]
        BY <1>10, <3>2 DEF RmUnlink
      <4> QED BY <4>1
    <3> QED BY <3>1, <3>2
  <2> QED BY <1>2, <1>3, <2>1 DEF Quiets, Quietly
<1> QED BY <1>6, <1>7, <1>8, <1>9, <1>10

\* So are those that write the index or the working tree.
LEMMA TreeQuiets ==
    ASSUME Types, NEW p \in Procs,
           TreeOpen(p) \/ FileOpen(p) \/ FileWrite(p) \/ LockOpen(p) \/ LockWrite(p) \/ LockRename(p)
              \/ WriteTrees(p)
    PROVE  Quiets(p)
<1> PICK s : s = proc[p]
  OBVIOUS
<1>1. ProcsOK /\ s \in ProcType
  BY DEF Types, ProcsOK
<1>2. s.todo # <<>> /\ Do(p).call \in {"checkout", "index_write", "write_tree"} /\ odb' = odb
      /\ marks \subseteq marks'
  BY DEF TreeOpen, FileOpen, FileWrite, LockOpen, LockWrite, LockRename, WriteTrees, Doing, Mark
<1>3. /\ Turn(s, Returned(s)) /\ Turn(s, Failed(s)) /\ \A a : Turn(s, Goes(s, a))
  BY <1>1, <1>2, Turns DEF Turn
<1>4. ASSUME NEW a, NEW v PROVE Turn(s, [Goes(s, a) EXCEPT !.fd = v]) /\ Turn(s, [Goes(s, a) EXCEPT !.left = v])
  BY <1>1 DEF Turn, Stays, Same, Kin, Goes, ProcType
<1>5. ASSUME NEW t, Becomes(p, t), Turn(s, t) PROVE Quiets(p)
  BY <1>1, <1>2, <1>5, BecomesIs DEF Quiets, Quietly
<1>6. Turn(s, FileDone(p)) /\ Turn(s, FileFailed(p))
  <2> DEFINE u == [Goes(s, "file") EXCEPT !.left = @ \ {NextPath(p)}]
  <2>1. u \in ProcType /\ u.todo = s.todo /\ Same(s, u)
    <3>1. Goes(s, "file") \in ProcType /\ Goes(s, "file").todo = s.todo
      <4>1. "file" \in Steps
        BY DEF Steps
      <4>2. Goes(s, "file") \in ProcType
        BY <1>1, <4>1, Fields DEF Goes
      <4> QED BY <1>1, <4>2 DEF Goes, ProcType
    <3>2. Goes(s, "file").left \ {NextPath(p)} \in SUBSET Paths
      BY <3>1 DEF ProcType
    <3>3. u \in ProcType
      BY <3>1, <3>2, Fields
    <3>4. Same(s, u)
      BY <1>1 DEF Same, Kin, Goes, ProcType
    <3> QED BY <1>1, <3>1, <3>3, <3>4 DEF ProcType
  <2>2. FileDone(p) = IF u.left = {} THEN Returned(u) ELSE u
    BY DEF FileDone
  <2>3. Turn(s, u)
    BY <1>4
  <2> HIDE DEF u
  <2>4. Turn(u, Returned(u))
    BY <1>2, <2>1, Turns DEF Turn
  <2>5. Turn(s, Returned(u))
    BY <2>1, <2>4, TurnAlike
  <2> QED BY <1>3, <2>2, <2>3, <2>5 DEF FileFailed
<1>7. CASE TreeOpen(p)
  <2>1. \E a, v : \E t \in {Returned(s), Failed(s), [Goes(s, a) EXCEPT !.left = v]} : Becomes(p, t)
    BY <1>7 DEF TreeOpen
  <2>2. PICK a, v, t : t \in {Returned(s), Failed(s), [Goes(s, a) EXCEPT !.left = v]} /\ Becomes(p, t)
    BY <2>1
  <2>3. Turn(s, [Goes(s, a) EXCEPT !.left = v])
    BY <1>4
  <2>4. Turn(s, t)
    BY <1>3, <2>2, <2>3
  <2> QED BY <1>5, <2>2, <2>4
<1>8. CASE FileOpen(p) \/ FileWrite(p)
  <2>1. \E t \in {Goes(s, "filewrite"), FileDone(p), FileFailed(p)} : Becomes(p, t)
    BY <1>8 DEF FileOpen, FileWrite
  <2> QED BY <1>3, <1>5, <1>6, <2>1
<1>9. CASE LockOpen(p)
  <2>1. \E a, v : \E t \in {Failed(s), [Goes(s, a) EXCEPT !.fd = v]} : Becomes(p, t)
    BY <1>9 DEF LockOpen
  <2>2. PICK a, v, t : t \in {Failed(s), [Goes(s, a) EXCEPT !.fd = v]} /\ Becomes(p, t)
    BY <2>1
  <2>3. Turn(s, [Goes(s, a) EXCEPT !.fd = v])
    BY <1>4
  <2>4. Turn(s, t)
    BY <1>3, <2>2, <2>3
  <2> QED BY <1>5, <2>2, <2>4
<1>10. CASE LockWrite(p) \/ LockRename(p) \/ WriteTrees(p)
  <2>1. \E a : \E t \in {Failed(s), Returned(s), Goes(s, a)} : Becomes(p, t)
    BY <1>10 DEF LockWrite, LockRename, WriteTrees
  <2> QED BY <1>3, <1>5, <2>1
<1> QED BY <1>7, <1>8, <1>9, <1>10

\* Such steps leave their process sound.
LEMMA QuietSound ==
    ASSUME Types, SInv, NEW p \in Procs, Kindred(p), Quiets(p)
    PROVE  Gains(p) /\ Sound(p)'
<1>1. Gains(p)
  BY NoGain DEF Quiets
<1>2. Kept2(proc[p]) /\ proc[p] \in ProcType
  BY <1>1, StillSound DEF Types, ProcsOK
<1> QED BY <1>1, <1>2, TurnSound DEF Quiets, Do

\* A command that has ended.
LEMMA OverSound ==
    ASSUME NEW p, NEW u, Over(u, proc'[p])
    PROVE  Sound(p)'
<1> PICK t, P : t = proc'[p] /\ P = odb'
  OBVIOUS
<1>1. t.todo = <<>> /\ t.mem = NoCommit /\ t.list = {}
  BY DEF Over
<1>2. Flow(t, t.todo) /\ ListOK(t, P) /\ TreeOf(t, P)
  BY <1>1 DEF Flow, ListOK, TreeOf, Has
<1> QED BY <1>1, <1>2 DEF Sound

\* The call a process is at.
LEMMA AtCall ==
    ASSUME Types, SInv, NEW p \in Procs, proc[p].todo # <<>>
    PROVE  /\ ProcsOK /\ proc[p] \in ProcType /\ Fits(proc[p], Do(p)) /\ Flow(proc[p], proc[p].todo)
           /\ proc[p].home \in Repos /\ Other(proc[p].home) \in Repos
           /\ Src(proc[p]) \in Repos /\ Tgt(proc[p]) \in Repos
<1>1. ProcsOK /\ proc[p] \in ProcType
  BY DEF Types, ProcsOK
<1>2. Flow(proc[p], proc[p].todo) /\ proc[p].todo \in Seq(CallType)
  BY <1>1 DEF SInv, Sound, ProcType
<1>3. Fits(proc[p], Do(p))
  BY <1>2, FlowTail DEF Do
<1>4. proc[p].home \in Repos
  BY <1>1 DEF ProcType
<1> QED BY <1>1, <1>2, <1>3, <1>4, Others, Ends2

\* What a lookup finds in a closed repository is stored.
LEMMA ResolveHolds ==
    ASSUME NEW r \in Repos, Closed(r), NEW n \in Names \cup {"HEAD"}
    PROVE  Holds(odb, r, Resolve(r, n))
<1>1. FileOf(n) \in Names
  BY DEF FileOf, Names, Branches
<1>2. Holds(odb, r, NoCommit)
  BY HistoryRoot DEF Holds, NoCommit
<1>3. n # "HEAD" => n \in Names
  OBVIOUS
<1> QED BY <1>1, <1>2, <1>3 DEF Resolve, Closed

\* A killed process.
LEMMA CrashSound ==
    ASSUME Types, SInv, NEW p \in Procs, Crash(p)
    PROVE  Gains(p) /\ Sound(p)'
<1>1. proc[p].todo # <<>> /\ odb' = odb /\ marks \subseteq marks' /\ Becomes(p, Ended(proc[p], "crashed"))
  BY DEF Crash
<1>2. Over(proc[p], Ended(proc[p], "crashed")) /\ ProcsOK
  BY <1>1, Turns DEF Types, ProcsOK
<1>3. Over(proc[p], proc'[p])
  BY <1>1, <1>2, BecomesIs
<1> QED BY <1>1, <1>3, NoGain, OverSound

\* The commit that is looked up is stored.
LEMMA PeelSound ==
    ASSUME Types, SInv, NEW p \in Procs, Kindred(p), Peel(p)
    PROVE  Gains(p) /\ Sound(p)'
<1> PICK s : s = proc[p]
  OBVIOUS
<1>1. s.todo # <<>> /\ odb' = odb /\ marks \subseteq marks' /\ Do(p).call = "peel"
  BY DEF Peel, Doing
<1>2. s \in ProcType /\ ProcsOK /\ Do(p).repo = s.home
  BY <1>1, AtCall DEF Fits, AtHome
<1>3. Gains(p)
  BY <1>1, NoGain
<1>4. Kept2(s)
  BY <1>3, StillSound
<1>5. proc'[p] = IF s.val \in odb[s.home] THEN Returned(s) ELSE Failed(s)
  BY <1>2, BecomesIs DEF Peel
<1>6. CASE s.val \in odb[s.home]
  <2>1. Turn(s, proc'[p])
    BY <1>1, <1>2, <1>5, <1>6, Turns DEF Turn
  <2>2. Has(odb', s.home, s.val)
    BY <1>1, <1>6 DEF Has
  <2>3. s.todo[1].call \in Quietly
    BY <1>1 DEF Quietly, Do
  <2> QED BY <1>1, <1>2, <1>3, <1>4, <2>1, <2>2, <2>3, TurnSound
<1>7. CASE s.val \notin odb[s.home]
  <2>1. Over(s, proc'[p]) \/ (After(s, proc'[p]) /\ s.todo[1].onerr = "go")
    BY <1>1, <1>2, <1>5, <1>7, Turns
  <2>2. CASE Over(s, proc'[p])
    BY <1>3, <2>2, OverSound
  <2>3. CASE After(s, proc'[p]) /\ s.todo[1].onerr = "go"
    <3>1. Turn(s, proc'[p]) /\ s.todo[1].onerr = "go"
      BY <2>3 DEF Turn
    <3>2. s.todo[1].call \in Quietly
      BY <1>1 DEF Quietly, Do
    <3> QED BY <1>1, <1>2, <1>3, <1>4, <3>1, <3>2, TurnSound
  <2> QED BY <2>1, <2>2, <2>3
<1> QED BY <1>6, <1>7

\* u is s with other values in fields, and kept.
Sets(s, u) == u \in ProcType /\ Kin(s, u) /\ u.todo = s.todo

\* Its calls are still in their order.
LEMMA SetFlow ==
    ASSUME NEW s \in ProcType, NEW u, Sets(s, u)
    PROVE  /\ Src(u) = Src(s) /\ Tgt(u) = Tgt(s) /\ (Flow(s, s.todo) => Flow(u, u.todo))
           /\ u.cmd = s.cmd /\ u.home = s.home /\ u.todo = s.todo /\ u \in ProcType
  BY KinSame DEF Sets, Kin

\* HEAD is read.
LEMMA ReadHeadSound ==
    ASSUME Types, SInv, NEW p \in Procs, Kindred(p), ReadHead(p)
    PROVE  Gains(p) /\ Sound(p)'
<1> PICK s, v : s = proc[p] /\ v = Resolve(Do(p).repo, "HEAD")
  OBVIOUS
<1> PICK u : u = [s EXCEPT !.head = v, !.seen = v]
  OBVIOUS
<1>1. s.todo # <<>> /\ odb' = odb /\ marks \subseteq marks' /\ Do(p).call = "head"
  BY DEF ReadHead, Doing
<1>2. s \in ProcType /\ ProcsOK /\ Do(p).repo = s.home /\ s.home \in Repos
  BY <1>1, AtCall DEF Fits, AtHome
<1>3. Gains(p)
  BY <1>1, NoGain
<1>4. Kept2(s)
  BY <1>3, StillSound
<1>5. v \in Value
  BY <1>2, ResolveOK DEF Types
<1>6. /\ u.cmd = s.cmd /\ u.home = s.home /\ u.todo = s.todo /\ u.val = s.val /\ u.mem = s.mem /\ u.head = v
      /\ u.list = s.list /\ u.bundle = s.bundle /\ u.adv = s.adv /\ u.at = s.at /\ u \in ProcType
  BY <1>2, <1>5 DEF ProcType
<1>7. Sets(s, u) /\ Src(u) = Src(s) /\ Tgt(u) = Tgt(s) /\ Flow(u, u.todo)
  <2>1. Sets(s, u)
    BY <1>6 DEF Sets, Kin
  <2> QED BY <1>2, <1>4, <2>1, SetFlow DEF Kept2
<1>8. Kept2(u)
  <2> PICK P, k : P = odb' /\ k = Hollow'
    OBVIOUS
  <2>1. ListOK(s, P) => ListOK(u, P)
    BY <1>6, <1>7 DEF ListOK
  <2>2. TreeOf(s, P) => TreeOf(u, P)
    BY <1>6 DEF TreeOf
  <2>3. ASSUME Clean', Good(s, P, k) PROVE Good(u, P, k)
    <3>1. Holds(P, s.home, v)
      BY <1>1, <1>2, <1>3, <2>3, ResolveHolds, MarksStay DEF SInv, Gains
    <3>2. CopiedOK(u, P, k)
      BY <1>6, <1>7, <2>3 DEF Good, CopiedOK, Past
    <3>3. BundleOK(u, P)
      BY <1>6, <1>7, <2>3 DEF Good, BundleOK
    <3>4. ValueOK(u, P)
      BY <1>6, <1>7, <2>3, <3>1 DEF Good, ValueOK
    <3> QED BY <3>2, <3>3, <3>4 DEF Good
  <2> QED BY <1>4, <1>6, <1>7, <2>1, <2>2, <2>3 DEF Kept2
<1>9. proc'[p] \in {Returned(u), Failed(u)}
  <2>1. \E t \in {Returned(u), Failed(u)} : Becomes(p, t)
    BY DEF ReadHead
  <2> QED BY <1>2, <2>1, BecomesIs
<1>10. Turn(u, proc'[p])
  <2>1. Turn(u, Returned(u)) /\ Turn(u, Failed(u))
    BY <1>1, <1>6, Turns DEF Turn
  <2> QED BY <1>9, <2>1
<1>11. u.todo[1].call \in Quietly /\ u.todo[1].call # "peel"
  BY <1>1, <1>6 DEF Quietly, Do
<1> QED BY <1>1, <1>3, <1>6, <1>8, <1>10, <1>11, TurnSound

\* The index in memory is set.
LEMMA MemKept ==
    ASSUME NEW s \in ProcType, Kept2(s), NEW v \in Value, ~Marked("dropped")' => Has(odb', s.home, v),
           NEW u, u = [s EXCEPT !.mem = v]
    PROVE  Kept2(u) /\ u \in ProcType /\ u.todo = s.todo
<1>6. /\ u.cmd = s.cmd /\ u.home = s.home /\ u.todo = s.todo /\ u.val = s.val /\ u.mem = v /\ u.head = s.head
      /\ u.list = s.list /\ u.bundle = s.bundle /\ u.adv = s.adv /\ u.at = s.at /\ u \in ProcType
  BY DEF ProcType
<1>7. Sets(s, u) /\ Src(u) = Src(s) /\ Tgt(u) = Tgt(s) /\ Flow(u, u.todo)
  <2>1. Sets(s, u)
    BY <1>6 DEF Sets, Kin
  <2> QED BY <2>1, SetFlow DEF Kept2
<1> PICK P, k : P = odb' /\ k = Hollow'
  OBVIOUS
<1>1. ListOK(s, P) => ListOK(u, P)
  BY <1>6, <1>7 DEF ListOK
<1>2. ~Marked("dropped")' /\ TreeOf(s, P) => TreeOf(u, P)
  BY <1>6 DEF TreeOf
<1>3. ASSUME Good(s, P, k) PROVE Good(u, P, k)
  <3>2. CopiedOK(u, P, k)
    BY <1>6, <1>7, <1>3 DEF Good, CopiedOK, Past
  <3>3. BundleOK(u, P)
    BY <1>6, <1>7, <1>3 DEF Good, BundleOK
  <3>4. ValueOK(u, P)
    BY <1>6, <1>7, <1>3 DEF Good, ValueOK
  <3> QED BY <3>2, <3>3, <3>4 DEF Good
<1>4. Kept2(u)
  BY <1>1, <1>2, <1>3, <1>6, <1>7 DEF Kept2
<1> QED BY <1>4, <1>6

\* A field is set, and the call returns or goes on.
LEMMA SetTurn ==
    ASSUME NEW p, NEW u \in ProcType, Kept2(u), u.todo # <<>>, u.todo[1].call \in Quietly \ {"peel"},
           proc'[p] \in {Returned(u), Failed(u), Goes(u, "unpack")}
    PROVE  Sound(p)'
<1>1. Turn(u, Returned(u)) /\ Turn(u, Failed(u)) /\ Turn(u, Goes(u, "unpack"))
  BY Turns DEF Turn
<1>2. Turn(u, proc'[p])
  BY <1>1
<1> QED BY <1>2, TurnSound

\* The tree is loaded.
LEMMA LoadSound ==
    ASSUME Types, SInv, NEW p \in Procs, Kindred(p), LoadTree(p)
    PROVE  Gains(p) /\ Sound(p)'
<1> PICK s : s = proc[p]
  OBVIOUS
<1>1. s.todo # <<>> /\ odb' = odb /\ marks \subseteq marks' /\ Do(p).call = "read_tree"
  BY DEF LoadTree, Doing
<1>2. s \in ProcType /\ ProcsOK /\ s.val \in Value /\ NoCommit \in Value
  BY <1>1, AtCall DEF ProcType, Value, NoCommit
<1>3. Gains(p)
  BY <1>1, NoGain
<1>4. Kept2(s)
  BY <1>3, StillSound
<1>5. PICK v \in {s.val, NoCommit} : \/ Becomes(p, Returned([s EXCEPT !.mem = v]))
                                     \/ Becomes(p, Failed([s EXCEPT !.mem = v]))
  BY DEF LoadTree
<1> PICK u : u = [s EXCEPT !.mem = v]
  OBVIOUS
<1>6. ~Marked("dropped")' => Has(odb', s.home, v)
  BY <1>1, <1>4 DEF Kept2, TreeOf, Has, Do
<1>7. Kept2(u) /\ u \in ProcType /\ u.todo = s.todo
  BY <1>2, <1>4, <1>6, MemKept
<1>8. proc'[p] \in {Returned(u), Failed(u), Goes(u, "unpack")}
  BY <1>2, <1>5, BecomesIs
<1>9. u.todo # <<>> /\ u.todo[1].call \in Quietly \ {"peel"}
  BY <1>1, <1>7 DEF Quietly, Do
<1> QED BY <1>3, <1>7, <1>8, <1>9, SetTurn

\* A blob is staged.
LEMMA StageSound ==
    ASSUME Types, SInv, NEW p \in Procs, Kindred(p), Stage(p)
    PROVE  Gains(p) /\ Sound(p)'
<1> PICK s, v, r : s = proc[p] /\ v = Staged(p) /\ r = proc[p].home
  OBVIOUS
<1>1. s.todo # <<>> /\ Do(p).call = "stage" /\ Becomes(p, Returned([s EXCEPT !.mem = v]))
  BY DEF Stage, Doing
<1>2. s \in ProcType /\ ProcsOK /\ v \in Value /\ r \in Repos /\ Do(p).repo = r
  <2>1. v \in Value
    BY ProcsAssumption DEF Value, Staged
  <2>2. Fits(s, Do(p)) /\ s \in ProcType /\ ProcsOK /\ r \in Repos
    BY <1>1, AtCall
  <2> QED BY <1>1, <2>1, <2>2 DEF Fits, AtHome
<1>3. s.cmd \in Makers
  <2>1. "stage" \in Calls(s.cmd)
    BY <1>1, AtCall DEF Fits
  <2> QED BY <2>1 DEF Calls, Given, Copiers, Makers
<1>4. Store(r, {v}) /\ OdbOK
  BY <1>2 DEF Stage, Types
<1>5. Gains(p) /\ (~Marked("dropped")' => odb' = [odb EXCEPT ![r] = @ \cup {v}])
  BY <1>2, <1>3, <1>4, StoreGain
<1>6. Kept2(s)
  BY <1>5, StillSound
<1> PICK u : u = [s EXCEPT !.mem = v]
  OBVIOUS
<1>7. ~Marked("dropped")' => Has(odb', r, v)
  BY <1>2, <1>4, <1>5 DEF Has, OdbOK
<1>8. Kept2(u) /\ u \in ProcType /\ u.todo = s.todo
  BY <1>2, <1>6, <1>7, MemKept
<1>9. proc'[p] \in {Returned(u), Failed(u), Goes(u, "unpack")}
  BY <1>1, <1>2, BecomesIs
<1>10. u.todo # <<>> /\ u.todo[1].call \in Quietly \ {"peel"}
  BY <1>1, <1>8 DEF Quietly, Do
<1> QED BY <1>5, <1>8, <1>9, <1>10, SetTurn

\* A step that sets nothing.
LEMMA PlainSound ==
    ASSUME Types, SInv, NEW p \in Procs, Kindred(p), Gains(p), proc[p].todo # <<>>,
           Do(p).call \in Quietly \ {"peel"},
           Becomes(p, Returned(proc[p])) \/ Becomes(p, Failed(proc[p]))
    PROVE  Sound(p)'
<1>1. proc[p] \in ProcType /\ ProcsOK /\ Kept2(proc[p])
  BY StillSound DEF Types, ProcsOK
<1>2. proc'[p] \in {Returned(proc[p]), Failed(proc[p]), Goes(proc[p], "unpack")}
  BY <1>1, BecomesIs
<1> QED BY <1>1, <1>2, SetTurn DEF Do

\* The server's references are read.
LEMMA AdvertSound ==
    ASSUME Types, SInv, NEW p \in Procs, Kindred(p), Advert(p)
    PROVE  Gains(p) /\ Sound(p)'
<1> PICK s, r : s = proc[p] /\ r = Do(p).repo
  OBVIOUS
<1> PICK v : v = [n \in Branches |-> Resolve(r, n)]
  OBVIOUS
<1>1. s.todo # <<>> /\ Do(p).call = "advert" /\ odb' = odb /\ marks \subseteq marks'
  BY DEF Advert, Doing
<1>2. s \in ProcType /\ ProcsOK /\ r \in Repos /\ r = Other(s.home)
  BY <1>1, AtCall DEF Fits
<1>3. Gains(p)
  BY <1>1, NoGain
<1>4. Kept2(s)
  BY <1>3, StillSound
<1>5. Do(p).call \in Quietly \ {"peel"}
  BY <1>1 DEF Quietly
<1>6. CASE Becomes(p, Failed(s))
  BY <1>1, <1>3, <1>5, <1>6, PlainSound
<1>7. CASE Becomes(p, Returned([s EXCEPT !.adv = v]))
  <2> PICK u : u = [s EXCEPT !.adv = v]
    OBVIOUS
  <2>1. \A n \in Branches : v[n] = Resolve(r, n) /\ Resolve(r, n) \in Value
    BY <1>2, ResolveOK DEF Types, Names
  <2>2. v \in [Branches -> Value]
    BY <2>1
  <2>3. /\ u.cmd = s.cmd /\ u.home = s.home /\ u.todo = s.todo /\ u.val = s.val /\ u.mem = s.mem /\ u.head = s.head
        /\ u.list = s.list /\ u.bundle = s.bundle /\ u.adv = v /\ u.at = s.at /\ u \in ProcType
    BY <1>2, <2>2 DEF ProcType
  <2>4. Sets(s, u)
    BY <2>3 DEF Sets, Kin
  <2>5. Src(u) = Src(s) /\ Tgt(u) = Tgt(s) /\ Flow(u, u.todo)
    BY <1>2, <1>4, <2>4, SetFlow DEF Kept2
  <2> PICK P, k : P = odb' /\ k = Hollow'
    OBVIOUS
  <2>6. ListOK(s, P) => ListOK(u, P)
    BY <2>3, <2>5 DEF ListOK
  <2>7. TreeOf(s, P) => TreeOf(u, P)
    BY <2>3 DEF TreeOf
  <2>8. ASSUME Clean', Good(s, P, k) PROVE Good(u, P, k)
    <3>1. \A n \in Branches : Holds(P, r, v[n])
      BY <1>1, <1>2, <1>3, <2>1, <2>8, ResolveHolds, MarksStay DEF SInv, Gains, Names
    <3>2. CopiedOK(u, P, k)
      BY <2>3, <2>5, <2>8 DEF Good, CopiedOK, Past
    <3>3. BundleOK(u, P)
      BY <2>3, <2>5, <2>8 DEF Good, BundleOK
    <3>4. s.cmd = "fetch_wire" => Src(s) = r
      BY <1>2 DEF Src
    <3>5. ValueOK(u, P)
      BY <2>3, <2>5, <2>8, <3>1, <3>4 DEF Good, ValueOK
    <3> QED BY <3>2, <3>3, <3>5 DEF Good
  <2>9. Kept2(u)
    BY <1>4, <2>3, <2>5, <2>6, <2>7, <2>8 DEF Kept2
  <2>10. proc'[p] \in {Returned(u), Failed(u), Goes(u, "unpack")}
    BY <1>2, <1>7, BecomesIs
  <2>11. u.todo # <<>> /\ u.todo[1].call \in Quietly \ {"peel"}
    BY <1>1, <1>5, <2>3 DEF Do
  <2> QED BY <1>3, <2>3, <2>9, <2>10, <2>11, SetTurn
<1> QED BY <1>6, <1>7 DEF Advert

\* What two sequences hold, one after the other.
LEMMA ConcatSet ==
    ASSUME NEW S, NEW a \in Seq(S), NEW b \in Seq(S)
    PROVE  a \o b \in Seq(S) /\ ToSet(a \o b) \subseteq ToSet(a) \cup ToSet(b)
<1> PICK v : v = a \o b
  OBVIOUS
<1>1. /\ v \in Seq(S) /\ Len(v) = Len(a) + Len(b) /\ Len(a) \in Nat /\ Len(b) \in Nat
      /\ \A i \in 1..Len(v) : IF i <= Len(a) THEN i \in 1..Len(a) /\ v[i] = a[i]
                              ELSE i - Len(a) \in 1..Len(b) /\ v[i] = b[i - Len(a)]
  OBVIOUS
<1>2. DOMAIN a = 1..Len(a) /\ DOMAIN b = 1..Len(b) /\ DOMAIN v = 1..Len(v)
  BY <1>1
<1>3. ASSUME NEW i \in 1..Len(v) PROVE v[i] \in ToSet(a) \cup ToSet(b)
  <2>1. CASE i <= Len(a)
    BY <1>1, <1>2, <2>1 DEF ToSet
  <2>2. CASE ~(i <= Len(a))
    BY <1>1, <1>2, <2>2 DEF ToSet
  <2> QED BY <2>1, <2>2
<1>4. ToSet(v) \subseteq ToSet(a) \cup ToSet(b)
  BY <1>2, <1>3 DEF ToSet
<1> QED BY <1>1, <1>4

\* A reference is added to a bundle.
LEMMA BundleRefSound ==
    ASSUME Types, SInv, NEW p \in Procs, Kindred(p), BundleRef(p)
    PROVE  Gains(p) /\ Sound(p)'
<1> PICK s : s = proc[p]
  OBVIOUS
<1> PICK new, e : /\ e = <<Do(p).name, s.val>>
                  /\ new = IF s.val = NoCommit THEN <<>> ELSE <<e>>
  OBVIOUS
<1> PICK v : v = s.bundle \o new
  OBVIOUS
<1> PICK u : u = [s EXCEPT !.bundle = v]
  OBVIOUS
<1>1. s.todo # <<>> /\ Do(p).call = "bundle_ref" /\ odb' = odb /\ marks \subseteq marks'
  BY DEF BundleRef, Doing
<1>2. s \in ProcType /\ ProcsOK /\ s.bundle \in Seq(Branches \X Commits) /\ s.val \in Value
  BY <1>1, AtCall DEF ProcType
<1>3. Gains(p)
  BY <1>1, NoGain
<1>4. Kept2(s)
  BY <1>3, StillSound
<1>5. e[2] = s.val /\ e[1] \in Branches
  BY <1>1, <1>2, DoOK
<1>6. new \in Seq(Branches \X Commits) /\ ToSet(new) \subseteq {e}
  <2>1. CASE s.val = NoCommit
    <3>1. new = <<>>
      BY <2>1
    <3> QED BY <3>1 DEF ToSet
  <2>2. CASE s.val # NoCommit
    <3>1. new = <<e>> /\ e \in Branches \X Commits
      BY <1>2, <1>5, <2>2 DEF Commits, Value, NoCommit
    <3>2. \A i \in DOMAIN new : new[i] = e
      BY <3>1
    <3> QED BY <3>1, <3>2 DEF ToSet
  <2> QED BY <2>1, <2>2
<1>7. v \in Seq(Branches \X Commits) /\ ToSet(v) \subseteq ToSet(s.bundle) \cup {e}
  BY <1>2, <1>6, ConcatSet
<1>8. /\ u.cmd = s.cmd /\ u.home = s.home /\ u.todo = s.todo /\ u.val = s.val /\ u.mem = s.mem /\ u.head = s.head
      /\ u.list = s.list /\ u.bundle = v /\ u.adv = s.adv /\ u.at = s.at /\ u \in ProcType
  <2>1. u \in ProcType
    BY <1>2, <1>7, Fields
  <2> QED BY <1>2, <2>1 DEF ProcType
<1>9. Sets(s, u)
  BY <1>8 DEF Sets, Kin
<1>10. Src(u) = Src(s) /\ Tgt(u) = Tgt(s) /\ Flow(u, u.todo)
  BY <1>2, <1>4, <1>9, SetFlow DEF Kept2
<1> PICK P, k : P = odb' /\ k = Hollow'
  OBVIOUS
<1>11. ListOK(s, P) => ListOK(u, P)
  BY <1>8, <1>10 DEF ListOK
<1>12. TreeOf(s, P) => TreeOf(u, P)
  BY <1>8 DEF TreeOf
<1>13. ASSUME Good(s, P, k) PROVE Good(u, P, k)
  <2>1. Holds(P, s.home, e[2])
    BY <1>1, <1>5, <1>13 DEF Good, ValueOK, Do
  <2>2. CopiedOK(u, P, k)
    BY <1>8, <1>10, <1>13 DEF Good, CopiedOK, Past
  <2>3. \A x \in ToSet(s.bundle) : Holds(P, s.home, x[2])
    BY <1>13 DEF Good, BundleOK
  <2>4. \A x \in ToSet(v) : Holds(P, s.home, x[2])
    BY <1>7, <2>1, <2>3
  <2>5. s.todo[1].call = "bundle_ref"
    BY <1>1 DEF Do
  <2>6. BundleOK(u, P)
    BY <1>8, <2>4, <2>5 DEF BundleOK
  <2>7. ValueOK(u, P)
    BY <1>8, <1>10, <1>13 DEF Good, ValueOK
  <2> QED BY <2>2, <2>6, <2>7 DEF Good
<1>14. Kept2(u)
  BY <1>4, <1>8, <1>10, <1>11, <1>12, <1>13 DEF Kept2
<1>15. proc'[p] \in {Returned(u), Failed(u), Goes(u, "unpack")}
  <2>1. Becomes(p, Returned(u))
    BY DEF BundleRef
  <2> QED BY <1>2, <2>1, BecomesIs
<1>16. u.todo # <<>> /\ u.todo[1].call \in Quietly \ {"peel"}
  BY <1>1, <1>8 DEF Do, Quietly
<1> QED BY <1>3, <1>8, <1>14, <1>15, <1>16, SetTurn

-----------------------------------------------------------------------------
(* Over the wire.                                                          *)

\* The list of a fetch over the wire is set.
LEMMA ListKept ==
    ASSUME NEW s \in ProcType, Kept2(s), s.cmd = "fetch_wire", s.todo # <<>>, s.todo[1].call = "request",
           NEW v \in SUBSET Commits, v \subseteq odb'[Src(s)], NEW u, u = [s EXCEPT !.list = v]
    PROVE  Kept2(u) /\ u \in ProcType /\ u.todo = s.todo
<1>1. /\ u.cmd = s.cmd /\ u.home = s.home /\ u.todo = s.todo /\ u.val = s.val /\ u.mem = s.mem /\ u.head = s.head
      /\ u.list = v /\ u.bundle = s.bundle /\ u.adv = s.adv /\ u.at = s.at /\ u \in ProcType
  BY DEF ProcType
<1>2. Sets(s, u)
  BY <1>1 DEF Sets, Kin
<1>3. Src(u) = Src(s) /\ Tgt(u) = Tgt(s) /\ Flow(u, u.todo)
  BY <1>2, SetFlow DEF Kept2
<1> PICK P, k : P = odb' /\ k = Hollow'
  OBVIOUS
<1>4. ListOK(u, P)
  BY <1>1, <1>3 DEF ListOK
<1>5. TreeOf(s, P) => TreeOf(u, P)
  BY <1>1 DEF TreeOf
<1>6. ASSUME Good(s, P, k) PROVE Good(u, P, k)
  <2>1. CopiedOK(u, P, k)
    BY <1>1 DEF CopiedOK, Copiers
  <2>2. BundleOK(u, P)
    BY <1>1, <1>3, <1>6 DEF Good, BundleOK
  <2>3. ValueOK(u, P)
    BY <1>1, <1>3, <1>6 DEF Good, ValueOK
  <2> QED BY <2>1, <2>2, <2>3 DEF Good
<1>7. Kept2(u)
  BY <1>1, <1>3, <1>4, <1>5, <1>6 DEF Kept2
<1> QED BY <1>1, <1>7

\* Who asks a server for objects.
LEMMA Requests ==
    ASSUME Types, SInv, NEW p \in Procs, proc[p].todo # <<>>, Do(p).call = "request"
    PROVE  /\ proc[p].cmd = "fetch_wire" /\ Do(p).repo = proc[p].home
           /\ Src(proc[p]) = Other(proc[p].home) /\ Tgt(proc[p]) = proc[p].home
<1>1. Fits(proc[p], Do(p))
  BY AtCall
<1>2. "request" \in Calls(proc[p].cmd) /\ Do(p).repo = proc[p].home
  BY <1>1 DEF Fits, AtHome
<1>3. proc[p].cmd = "fetch_wire"
  BY <1>2 DEF Calls, Given, Copiers
<1> QED BY <1>2, <1>3 DEF Src, Tgt

\* The pack comes.
LEMMA RequestSound ==
    ASSUME Types, SInv, NEW p \in Procs, Kindred(p), Request(p)
    PROVE  Gains(p) /\ Sound(p)'
<1> PICK s, r : s = proc[p] /\ r = Do(p).repo
  OBVIOUS
<1>1. s.todo # <<>> /\ Do(p).call = "request" /\ odb' = odb /\ marks \subseteq marks'
  BY DEF Request, Doing
<1>2. s \in ProcType /\ ProcsOK /\ s.cmd = "fetch_wire" /\ r = s.home /\ Src(s) = Other(r) /\ Src(s) \in Repos
  BY <1>1, AtCall, Requests
<1>3. Gains(p)
  BY <1>1, NoGain
<1>4. Kept2(s)
  BY <1>3, StillSound
<1>5. Do(p).call \in Quietly \ {"peel"}
  BY <1>1 DEF Quietly
<1>6. CASE Becomes(p, Returned(s)) \/ Becomes(p, Failed(s))
  BY <1>1, <1>3, <1>5, <1>6, PlainSound
<1>7. ASSUME NEW v, v \subseteq odb[Other(r)], Becomes(p, AfterUnpack([s EXCEPT !.list = v]))
      PROVE  Gains(p) /\ Sound(p)'
  <2> PICK u : u = [s EXCEPT !.list = v]
    OBVIOUS
  <2>1. v \in SUBSET Commits /\ v \subseteq odb'[Src(s)]
    BY <1>1, <1>2, <1>7 DEF Types, OdbOK
  <2>2. Kept2(u) /\ u \in ProcType /\ u.todo = s.todo
    BY <1>1, <1>2, <1>4, <2>1, ListKept DEF Do
  <2>3. proc'[p] \in {Returned(u), Failed(u), Goes(u, "unpack")}
    BY <1>2, <1>7, BecomesIs DEF AfterUnpack
  <2>4. u.todo # <<>> /\ u.todo[1].call \in Quietly \ {"peel"}
    BY <1>1, <1>5, <2>2 DEF Do
  <2> QED BY <1>3, <2>2, <2>3, <2>4, SetTurn
<1>8. CASE \E haves : Becomes(p, AfterUnpack([s EXCEPT !.list = Answer(Other(r), Wants(p), haves)]))
  <2>1. PICK haves : Becomes(p, AfterUnpack([s EXCEPT !.list = Answer(Other(r), Wants(p), haves)]))
    BY <1>8
  <2>2. Answer(Other(r), Wants(p), haves) \subseteq odb[Other(r)]
    BY DEF Answer
  <2> QED BY <1>7, <2>1, <2>2
<1> QED BY <1>6, <1>8 DEF Request

\* An object is unpacked.
LEMMA UnpackSound ==
    ASSUME Types, SInv, NEW p \in Procs, Kindred(p), UnpackOne(p)
    PROVE  Gains(p) /\ Sound(p)'
<1> PICK s, r : s = proc[p] /\ r = Do(p).repo
  OBVIOUS
<1>1. s.todo # <<>> /\ Do(p).call = "request"
  BY DEF UnpackOne, Doing
<1>2. s \in ProcType /\ ProcsOK /\ s.cmd = "fetch_wire" /\ r = s.home /\ Src(s) = Other(r) /\ Src(s) \in Repos
      /\ r \in Repos
  BY <1>1, AtCall, Requests
<1>3. s.list \subseteq odb[Src(s)] /\ OdbOK
  BY DEF SInv, Sound, ListOK, Types
<1>5. Do(p).call \in Quietly \ {"peel"}
  BY <1>1 DEF Quietly
<1>6. CASE Becomes(p, Returned(s)) /\ UNCHANGED <<odb, marks>>
  <2>1. Gains(p)
    BY <1>6, NoGain
  <2> QED BY <1>1, <1>5, <1>6, <2>1, PlainSound
<1>7. ASSUME NEW c \in s.list, Store(r, {c}), Becomes(p, AfterUnpack([s EXCEPT !.list = @ \ {c}]))
      PROVE  Gains(p) /\ Sound(p)'
  <2> PICK v : v = s.list \ {c}
    OBVIOUS
  <2> PICK u : u = [s EXCEPT !.list = v]
    OBVIOUS
  <2>1. Gains(p)
    <3>1. {c} \subseteq odb[Other(r)]
      BY <1>2, <1>3
    <3> QED BY <1>2, <1>3, <1>7, <3>1, StoreGain
  <2>2. Kept2(s)
    BY <2>1, StillSound
  <2>3. v \in SUBSET Commits /\ v \subseteq odb'[Src(s)]
    BY <1>2, <1>3, <2>1 DEF ProcType, Gains
  <2>4. Kept2(u) /\ u \in ProcType /\ u.todo = s.todo
    <3>1. s.todo[1].call = "request"
      BY <1>1 DEF Do
    <3> QED BY <1>1, <1>2, <2>2, <2>3, <3>1, ListKept, ZenonT(60)
  <2>5. proc'[p] \in {Returned(u), Failed(u), Goes(u, "unpack")}
    <3>1. Becomes(p, AfterUnpack(u))
      BY <1>7
    <3> QED BY <1>2, <3>1, BecomesIs DEF AfterUnpack
  <2>6. u.todo # <<>> /\ u.todo[1].call \in Quietly \ {"peel"}
    BY <1>1, <1>5, <2>4 DEF Do
  <2> QED BY <2>1, <2>4, <2>5, <2>6, SetTurn
<1> QED BY <1>6, <1>7 DEF UnpackOne

\* Who sends objects to a server.
LEMMA Receives ==
    ASSUME Types, SInv, NEW p \in Procs, proc[p].todo # <<>>, Do(p).call = "receive"
    PROVE  /\ proc[p].cmd = "push_wire" /\ Do(p).repo = Tgt(proc[p]) /\ Do(p).repo \in Repos
           /\ Src(proc[p]) = Other(Do(p).repo)
<1>1. Fits(proc[p], Do(p)) /\ proc[p] \in ProcType
  BY AtCall
<1>2. "receive" \in Calls(proc[p].cmd) /\ Do(p).repo = Tgt(proc[p])
  BY <1>1 DEF Fits, AtTgt
<1>3. proc[p].cmd = "push_wire"
  BY <1>2 DEF Calls, Given, Copiers
<1> QED BY <1>1, <1>2, <1>3, Ends2

\* git receive-pack.
LEMMA ReceiveSound ==
    ASSUME Types, SInv, NEW p \in Procs, Kindred(p), Receive(p)
    PROVE  Gains(p) /\ Sound(p)'
<1> PICK s, r : s = proc[p] /\ r = Do(p).repo
  OBVIOUS
<1>1. s.todo # <<>> /\ Do(p).call = "receive"
  BY DEF Receive, Doing
<1>2. s \in ProcType /\ ProcsOK /\ r \in Repos /\ Src(s) = Other(r)
  BY <1>1, AtCall, Receives
<1>3. s.list \subseteq odb[Other(r)] /\ OdbOK
  BY <1>2 DEF SInv, Sound, ListOK, Types
<1>5. Do(p).call \in Quietly \ {"peel"}
  BY <1>1 DEF Quietly
<1>6. CASE Becomes(p, Failed(s)) /\ UNCHANGED <<odb, loose, marks>>
  <2>1. Gains(p)
    BY <1>6, NoGain
  <2> QED BY <1>1, <1>5, <1>6, <2>1, PlainSound
<1>7. ASSUME NEW done, NEW end \in {Returned(s), Failed(s)}, Served(p, done, end)
      PROVE  Gains(p) /\ Sound(p)'
  <2>1. /\ odb' = [odb EXCEPT ![r] = IF done = {} THEN @ ELSE odb[r] \cup s.list]
        /\ proc'[p] = end /\ marks \subseteq marks'
    BY <1>7 DEF Served, Mark
  <2>2. \A x \in Repos : odb[x] \subseteq odb'[x] /\ odb'[x] \subseteq odb[x] \cup odb[Other(x)]
    BY <1>2, <1>3, <2>1 DEF OdbOK
  <2>3. Gains(p)
    BY <2>1, <2>2 DEF Gains
  <2>4. Kept2(s)
    BY <2>3, StillSound
  <2>5. proc'[p] \in {Returned(s), Failed(s), Goes(s, "unpack")}
    BY <2>1
  <2> QED BY <1>1, <1>2, <1>5, <2>3, <2>4, <2>5, SetTurn DEF Do
<1> QED BY <1>6, <1>7, ReceiveIs

-----------------------------------------------------------------------------
(* Values that are looked up.                                              *)

\* A value is set that the next call needs.
Finders == {"lookup", "remote_head", "bundled", "commit"}

\* The process is sound if the value is stored where it is needed.
LEMMA ValSound ==
    ASSUME NEW p, NEW s \in ProcType, Kept2(s), s.todo # <<>>, s.todo[1].call \in Finders,
           NEW v \in Value, NEW u, u = [s EXCEPT !.val = v],
           Clean' => /\ s.todo[1].call = "commit" => Holds(odb', s.home, v)
                     /\ s.todo[1].call \in {"remote_head", "bundled"} => Holds(odb', Tgt(s), v)
                     /\ s.todo[1].call = "lookup" /\ s.todo[1].repo = Src(s) => Holds(odb', Src(s), v),
           ~Marked("dropped")' /\ s.todo[1].call = "commit" => Has(odb', s.home, v),
           proc'[p] \in {Returned(u), Failed(u)}
    PROVE  Sound(p)'
<1>1. /\ u.cmd = s.cmd /\ u.home = s.home /\ u.todo = s.todo /\ u.val = v /\ u.mem = s.mem /\ u.head = s.head
      /\ u.list = s.list /\ u.bundle = s.bundle /\ u.adv = s.adv /\ u.at = s.at /\ u \in ProcType
  BY DEF ProcType
<1>2. Sets(s, u)
  BY <1>1 DEF Sets, Kin
<1>3. Src(u) = Src(s) /\ Tgt(u) = Tgt(s) /\ Flow(u, u.todo) /\ Flow(s, s.todo)
  BY <1>2, SetFlow DEF Kept2
<1> PICK P, k, c : P = odb' /\ k = Hollow' /\ c = s.todo[1]
  OBVIOUS
<1>4. s.cmd \notin Given
  <2>1. Fits(s, c)
    BY <1>3, FlowTail DEF ProcType
  <2>2. c.call \in Calls(s.cmd) /\ c.call \in Finders
    BY <2>1 DEF Fits
  <2> QED BY <2>2 DEF Calls, Given, Copiers, Finders
<1>5. ListOK(u, P)
  BY <1>1, <1>3 DEF ListOK, Kept2
<1>6. TreeOf(s, P) => TreeOf(u, P)
  BY <1>1 DEF TreeOf, Finders
<1>7. ASSUME Clean' PROVE Ready(u, P, k)
  <2>1. Good(s, P, k) /\ c.call \in Finders
    BY <1>7 DEF Kept2
  <2>2. s.cmd \in Copiers => P[Src(s)] \subseteq P[Tgt(s)] /\ (s.list # {} \/ (Src(s) = "local" /\ k))
    BY <2>1 DEF Good, CopiedOK, Past, Finders
  <2>3. ASSUME NEW e \in ToSet(s.bundle)
        PROVE /\ Holds(P, s.home, e[2])
              /\ s.cmd = "bundle" /\ c.call \in {"bundled", "ref"} => Holds(P, Tgt(s), e[2])
    BY <2>1 DEF Good, BundleOK
  <2>4. Holds(P, s.home, s.head) /\ (s.cmd = "fetch_wire" => \A n \in Branches : Holds(P, Src(s), s.adv[n]))
    BY <2>1 DEF Good, ValueOK
  <2>5. /\ c.call = "commit" => Holds(P, s.home, v)
        /\ c.call \in {"remote_head", "bundled"} => Holds(P, Tgt(s), v)
        /\ c.call = "lookup" /\ c.repo = Src(s) => Holds(P, Src(s), v)
    BY <1>7
  <2>6. c.call \notin {"bundle_pack", "unbundle"}
    BY <2>1 DEF Finders
  <2> QED BY <1>1, <1>3, <1>4, <2>2, <2>3, <2>4, <2>5, <2>6 DEF Ready
<1>8. Over(u, proc'[p]) \/ After(u, proc'[p])
  <2>1. \A t \in {Returned(u), Failed(u)} : Over(u, t) \/ After(u, t)
    BY <1>1, Turns
  <2> QED BY <2>1
<1>9. ~Marked("dropped")' => TreeOf(u, odb') /\ (u.todo[1].call = "commit" => Has(odb', u.home, u.val))
  BY <1>1, <1>6 DEF Kept2
<1>10. u.todo # <<>> /\ u.todo[1].call # "peel"
  BY <1>1 DEF Finders
<1> QED BY <1>1, <1>3, <1>5, <1>7, <1>8, <1>9, <1>10, ReadySound

\* A step within a call.
LEMMA StaysSound ==
    ASSUME NEW p, NEW s \in ProcType, Kept2(s), s.todo # <<>>, s.todo[1].call # "copy", Stays(s, proc'[p])
    PROVE  Sound(p)'
<1> PICK P, k, t : P = odb' /\ k = Hollow' /\ t = proc'[p]
  OBVIOUS
<1>1. /\ t.val = s.val /\ t.head = s.head /\ t.mem = s.mem /\ t.list = s.list /\ t.bundle = s.bundle
      /\ t.adv = s.adv /\ t.cmd = s.cmd /\ t.home = s.home /\ t.todo = s.todo /\ Kin(s, t)
  BY DEF Stays, Same, Kin
<1>2. Src(t) = Src(s) /\ Tgt(t) = Tgt(s) /\ \A q : Flow(s, q) => Flow(t, q)
  BY <1>1, KinSame
<1>3. ListOK(s, P) => ListOK(t, P)
  BY <1>1, <1>2 DEF ListOK
<1>4. TreeOf(s, P) => TreeOf(t, P)
  BY <1>1 DEF TreeOf
<1>5. CopiedOK(s, P, k) => CopiedOK(t, P, k)
  BY <1>1, <1>2 DEF CopiedOK, Past
<1>6. BundleOK(s, P) => BundleOK(t, P)
  BY <1>1, <1>2 DEF BundleOK
<1>7. ValueOK(s, P) => ValueOK(t, P)
  BY <1>1, <1>2 DEF ValueOK
<1>8. Good(s, P, k) => Good(t, P, k)
  BY <1>5, <1>6, <1>7 DEF Good
<1> QED BY <1>1, <1>2, <1>3, <1>4, <1>8 DEF Kept2, Sound

\* A reference is looked up.
LEMMA LookupSound ==
    ASSUME Types, SInv, NEW p \in Procs, Kindred(p), Lookup(p)
    PROVE  Gains(p) /\ Sound(p)'
<1> PICK s, v : s = proc[p] /\ v = Resolve(Do(p).repo, Do(p).name)
  OBVIOUS
<1> PICK u : u = [s EXCEPT !.val = v]
  OBVIOUS
<1>1. s.todo # <<>> /\ Do(p).call = "lookup" /\ odb' = odb /\ marks \subseteq marks'
  BY DEF Lookup, Doing
<1>2. s \in ProcType /\ ProcsOK /\ Do(p).repo \in Repos /\ Do(p).name \in Names \cup {"HEAD"}
  BY <1>1, AtCall, DoOK
<1>3. Gains(p)
  BY <1>1, NoGain
<1>4. Kept2(s)
  BY <1>3, StillSound
<1>5. v \in Value
  BY <1>2, ResolveOK DEF Types
<1>6. Clean' => Holds(odb', Do(p).repo, v)
  BY <1>1, <1>2, ResolveHolds, MarksStay DEF SInv
<1>7. proc'[p] \in {Returned(u), Failed(u)}
  <2>1. \E t \in {Returned(u), Failed(u)} : Becomes(p, t)
    BY DEF Lookup
  <2> QED BY <1>2, <2>1, BecomesIs
<1>8. s.todo[1].call = "lookup" /\ s.todo[1].repo = Do(p).repo /\ "lookup" \in Finders
  BY <1>1 DEF Do, Finders
<1>9. Clean' => /\ s.todo[1].call = "commit" => Holds(odb', s.home, v)
                /\ s.todo[1].call \in {"remote_head", "bundled"} => Holds(odb', Tgt(s), v)
                /\ s.todo[1].call = "lookup" /\ s.todo[1].repo = Src(s) => Holds(odb', Src(s), v)
  BY <1>6, <1>8
<1> QED BY <1>1, <1>2, <1>3, <1>4, <1>5, <1>7, <1>8, <1>9, ValSound

\* The branch of the remote's HEAD.
LEMMA RemoteHeadSound ==
    ASSUME Types, SInv, NEW p \in Procs, Kindred(p), RemoteHead(p)
    PROVE  Gains(p) /\ Sound(p)'
<1> PICK s, r : s = proc[p] /\ r = Do(p).repo
  OBVIOUS
<1>1. s.todo # <<>> /\ Do(p).call = "remote_head" /\ odb' = odb /\ marks \subseteq marks'
  BY DEF RemoteHead, Doing
<1>2. s \in ProcType /\ ProcsOK /\ r = Src(s) /\ r \in Repos /\ s.cmd \in Copiers
  <2>1. Fits(s, Do(p)) /\ s \in ProcType /\ ProcsOK /\ Src(s) \in Repos
    BY <1>1, AtCall
  <2>2. r = Src(s) /\ "remote_head" \in Calls(s.cmd)
    BY <1>1, <2>1 DEF Fits
  <2>3. s.cmd \in Copiers
    BY <2>2 DEF Calls, Given, Copiers
  <2> QED BY <2>1, <2>2, <2>3
<1>3. Gains(p)
  BY <1>1, NoGain
<1>4. Kept2(s)
  BY <1>3, StillSound
<1>5. s.todo[1].call = "remote_head" /\ "remote_head" \in Finders
  BY <1>1 DEF Do, Finders
<1>6. CASE Becomes(p, Goes(s, "branch"))
  <2>1. Stays(s, proc'[p])
    BY <1>1, <1>2, <1>6, Turns, BecomesIs
  <2> QED BY <1>1, <1>2, <1>3, <1>4, <1>5, <2>1, StaysSound
<1>7. ASSUME NEW v \in Value, Becomes(p, Returned([s EXCEPT !.val = v])), Clean' => Holds(odb', r, v)
      PROVE  Gains(p) /\ Sound(p)'
  <2> PICK u : u = [s EXCEPT !.val = v]
    OBVIOUS
  <2>1. proc'[p] \in {Returned(u), Failed(u)}
    BY <1>2, <1>7, BecomesIs
  <2>2. Clean' => Holds(odb', Tgt(s), v)
    <3> SUFFICES ASSUME Clean' PROVE Holds(odb', Tgt(s), v)
      OBVIOUS
    <3>1. odb'[Src(s)] \subseteq odb'[Tgt(s)]
      BY <1>1, <1>2, <1>4, <1>5 DEF Kept2, Good, CopiedOK, Past
    <3> QED BY <1>2, <1>7, <3>1 DEF Holds
  <2>3. Clean' => /\ s.todo[1].call = "commit" => Holds(odb', s.home, v)
                  /\ s.todo[1].call \in {"remote_head", "bundled"} => Holds(odb', Tgt(s), v)
                  /\ s.todo[1].call = "lookup" /\ s.todo[1].repo = Src(s) => Holds(odb', Src(s), v)
    BY <1>5, <2>2
  <2> QED BY <1>1, <1>2, <1>3, <1>4, <1>5, <2>1, <2>3, ValSound
<1>8. CASE Becomes(p, Returned([s EXCEPT !.val = NoCommit]))
  <2>1. NoCommit \in Value /\ Holds(odb', r, NoCommit)
    BY HistoryRoot DEF Value, NoCommit, Holds
  <2> QED BY <1>7, <1>8, <2>1
<1>9. CASE Becomes(p, Returned([s EXCEPT !.val = Resolve(r, "main")]))
  <2>1. "main" \in Names \cup {"HEAD"}
    BY DEF Names, Branches
  <2>2. Resolve(r, "main") \in Value
    BY <1>2, <2>1, ResolveOK DEF Types
  <2>3. Clean' => Holds(odb', r, Resolve(r, "main"))
    BY <1>1, <1>2, <2>1, ResolveHolds, MarksStay DEF SInv
  <2> QED BY <1>7, <1>9, <2>2, <2>3
<1> QED BY <1>6, <1>8, <1>9 DEF RemoteHead

\* A reference of the bundle.
LEMMA BundledSound ==
    ASSUME Types, SInv, NEW p \in Procs, Kindred(p), Bundled(p)
    PROVE  Gains(p) /\ Sound(p)'
<1> PICK s : s = proc[p]
  OBVIOUS
<1>1. s.todo # <<>> /\ Do(p).call = "bundled" /\ odb' = odb /\ marks \subseteq marks'
  BY DEF Bundled, Doing
<1>2. s \in ProcType /\ ProcsOK /\ s.cmd = "bundle" /\ s.bundle \in Seq(Branches \X Commits)
  <2>1. Fits(s, Do(p)) /\ s \in ProcType /\ ProcsOK
    BY <1>1, AtCall
  <2>2. "bundled" \in Calls(s.cmd)
    BY <1>1, <2>1 DEF Fits
  <2>3. s.cmd = "bundle"
    BY <2>2 DEF Calls, Given, Copiers
  <2> QED BY <2>1, <2>3 DEF ProcType
<1>3. Gains(p)
  BY <1>1, NoGain
<1>4. Kept2(s)
  BY <1>3, StillSound
<1>5. s.todo[1].call = "bundled" /\ "bundled" \in Finders
  BY <1>1 DEF Do, Finders
<1>6. PICK i \in DOMAIN s.bundle : Becomes(p, Returned([s EXCEPT !.val = s.bundle[i][2]]))
  BY DEF Bundled
<1> PICK e : e = s.bundle[i]
  OBVIOUS
<1> PICK u : u = [s EXCEPT !.val = e[2]]
  OBVIOUS
<1>7. e \in ToSet(s.bundle) /\ e \in Branches \X Commits
  BY <1>2 DEF ToSet
<1>8. e[2] \in Value
  BY <1>7 DEF Commits, Value
<1>9. proc'[p] \in {Returned(u), Failed(u)}
  BY <1>2, <1>6, BecomesIs
<1>10. Clean' => Holds(odb', Tgt(s), e[2])
  BY <1>1, <1>2, <1>4, <1>5, <1>7 DEF Kept2, Good, BundleOK
<1>11. Clean' => /\ s.todo[1].call = "commit" => Holds(odb', s.home, e[2])
                 /\ s.todo[1].call \in {"remote_head", "bundled"} => Holds(odb', Tgt(s), e[2])
                 /\ s.todo[1].call = "lookup" /\ s.todo[1].repo = Src(s) => Holds(odb', Src(s), e[2])
  BY <1>5, <1>10
<1> QED BY <1>1, <1>2, <1>3, <1>4, <1>5, <1>8, <1>9, <1>11, ValSound

\* A commit is made.
LEMMA MakeCommitSound ==
    ASSUME Types, SInv, NEW p \in Procs, Kindred(p), MakeCommit(p)
    PROVE  Gains(p) /\ Sound(p)'
<1> PICK s, r : s = proc[p] /\ r = proc[p].home
  OBVIOUS
<1> PICK c : c = Append(s.head, Tag(p))
  OBVIOUS
<1> PICK u : u = [s EXCEPT !.val = c]
  OBVIOUS
<1>1. s.todo # <<>> /\ Do(p).call = "commit"
  BY DEF MakeCommit, Doing
<1>2. s \in ProcType /\ ProcsOK /\ r \in Repos /\ Do(p).repo = r /\ s.head \in Value /\ Tag(p) \in Nat
  BY <1>1, AtCall, ProcsAssumption DEF ProcType, Tag, Fits, AtHome
<1>3. s.cmd \in Makers
  <2>1. "commit" \in Calls(s.cmd)
    BY <1>1, AtCall DEF Fits
  <2> QED BY <2>1 DEF Calls, Given, Copiers, Makers
<1>4. Store(r, {c}) /\ OdbOK /\ Becomes(p, Returned(u))
  BY <1>2 DEF MakeCommit, Types
<1>5. Gains(p) /\ (~Marked("dropped")' => odb' = [odb EXCEPT ![r] = @ \cup {c}])
  BY <1>2, <1>3, <1>4, StoreGain
<1>6. Kept2(s)
  BY <1>5, StillSound
<1>7. c \in Value
  BY <1>2 DEF Value
<1>8. ~Marked("dropped")' => c \in odb'[r]
  BY <1>2, <1>4, <1>5 DEF OdbOK
<1>9. Clean' => Holds(odb', r, c)
  <2> SUFFICES ASSUME Clean' PROVE Holds(odb', r, c)
    OBVIOUS
  <2>1. c \in odb'[r]
    BY <1>8 DEF Clean
  <2>2. Holds(odb', r, s.head)
    BY <1>1, <1>6 DEF Kept2, Good, ValueOK
  <2>3. History(c) \subseteq History(s.head) \cup {c}
    BY <1>2, HistoryChild
  <2> QED BY <2>1, <2>2, <2>3 DEF Holds
<1>10. s.todo[1].call = "commit" /\ "commit" \in Finders
  BY <1>1 DEF Do, Finders
<1>11. Clean' => /\ s.todo[1].call = "commit" => Holds(odb', s.home, c)
                 /\ s.todo[1].call \in {"remote_head", "bundled"} => Holds(odb', Tgt(s), c)
                 /\ s.todo[1].call = "lookup" /\ s.todo[1].repo = Src(s) => Holds(odb', Src(s), c)
  BY <1>9, <1>10
<1>12. ~Marked("dropped")' => Has(odb', s.home, c)
  BY <1>8 DEF Has
<1>13. proc'[p] \in {Returned(u), Failed(u)}
  BY <1>2, <1>4, BecomesIs
<1> QED BY <1>1, <1>2, <1>5, <1>6, <1>7, <1>10, <1>11, <1>12, <1>13, ValSound

-----------------------------------------------------------------------------
(* Merge and rebase.                                                       *)

\* The calls after a decision.
LEMMA ForwardFlow ==
    ASSUME NEW s \in ProcType, s.cmd \in Given, NEW calls,
           calls = FastForward(s) \/ calls = <<Stops(Call("ref", s.home, "HEAD"))>>
    PROVE  /\ calls \in Seq(CallType) /\ calls # <<>> /\ Flow(s, calls)
           /\ calls[1].call \in {"ref", "read_tree"}
           /\ calls = <<Stops(Call("ref", s.home, "HEAD"))>> => calls[1].call = "ref"
<1> DEFINE a == Stops(Call("read_tree", s.home, ""))
           b == Stops(Call("index_write", s.home, ""))
           g == Gently(Call("checkout", s.home, "tree"))
           c == IF s.cmd = "rebase" THEN Stops(g) ELSE g
           d == Stops(Call("ref", s.home, "HEAD"))
<1>1. {"read_tree", "index_write", "checkout", "ref"} \subseteq Calls(s.cmd) /\ s.cmd \in Given
  BY DEF Calls, Given, Copiers
<1>2. s.home \in Repos /\ Tgt(s) = s.home
  BY DEF ProcType, Tgt, Given
<1>3. Fit(s, a, "read_tree")
  <2>1. "read_tree" \in PlainCalls /\ "" \in CallNames
        /\ "read_tree" \notin AtTgt \cup {"remote_head", "advert"}
    BY DEF PlainCalls, CallNames, AtTgt
  <2> QED BY <1>1, <1>2, <2>1, FitCalls
<1>4. Fit(s, b, "index_write")
  <2>1. "index_write" \in PlainCalls /\ "" \in CallNames
        /\ "index_write" \notin AtTgt \cup {"remote_head", "advert"}
    BY DEF PlainCalls, CallNames, AtTgt
  <2> QED BY <1>1, <1>2, <2>1, FitCalls
<1>5. Fit(s, d, "ref")
  <2>1. "HEAD" \in Names \cup {"HEAD"} /\ "ref" \notin AtHome \cup {"remote_head", "advert"}
    BY DEF AtHome
  <2> QED BY <1>1, <1>2, <2>1, FitCalls
<1>6. Fit(s, c, "checkout")
  <2>1. "checkout" \in PlainCalls /\ "tree" \in CallNames
        /\ "checkout" \notin AtTgt \cup {"remote_head", "advert"}
    BY DEF PlainCalls, CallNames, AtTgt
  <2>2. Fit(s, g, "checkout") /\ g.repo = s.home
    BY <1>1, <1>2, <2>1, FitCalls
  <2>3. Stops(g) \in CallType /\ Stops(g).call = g.call /\ Stops(g).repo = g.repo
    <3>1. g \in CallType
      BY <2>2 DEF Fit
    <3> HIDE DEF g
    <3> QED BY <3>1 DEF Stops, CallType
  <2> HIDE DEF g
  <2>4. Fit(s, Stops(g), "checkout")
    BY <2>2, <2>3 DEF Fit, Fits
  <2> QED BY <2>2, <2>4
<1>7. FastForward(s) = <<a, b, c, d>> /\ d = Stops(Call("ref", s.home, "HEAD"))
  BY DEF FastForward
<1> HIDE DEF a, b, c, d
<1>8. a.call = "read_tree" /\ b.call = "index_write" /\ c.call = "checkout" /\ d.call = "ref"
  BY <1>3, <1>4, <1>5, <1>6 DEF Fit
<1>9. Leads(s, a, b) /\ Leads(s, b, c) /\ Leads(s, c, d)
  BY <1>1, <1>8 DEF Leads
<1>10. Line(s, <<a, b, c, d>>, a, d) /\ Line(s, <<d>>, d, d)
  <2>1. Fit(s, a, a.call) /\ Fit(s, b, b.call) /\ Fit(s, c, c.call) /\ Fit(s, d, d.call)
    BY <1>3, <1>4, <1>5, <1>6, <1>8
  <2> QED BY <1>9, <2>1, Lines
<1>11. calls = <<a, b, c, d>> \/ calls = <<d>>
  BY <1>7
<1>12. <<d>>[1] = d
  OBVIOUS
<1> QED BY <1>7, <1>8, <1>10, <1>11, <1>12 DEF Line

\* What a fast forward goes to is stored.
LEMMA AheadStored ==
    ASSUME NEW r, NEW h \in Value, NEW v \in Value, h # NoCommit, h # v, IsAncestor(r, h, v)
    PROVE  v \in odb[r]
<1>1. Len(h) \in Nat /\ Len(h) # 0 /\ Len(v) \in Nat /\ h \in Seq(Nat) /\ v \in Seq(Nat)
  BY EmptySeq DEF Value, NoCommit
<1>2. Len(h) <= Len(v) /\ SubSeq(h, 1, Len(h)) = SubSeq(v, 1, Len(h))
  BY DEF IsAncestor, IsPrefix
<1>3. SubSeq(h, 1, Len(h)) = h /\ SubSeq(v, 1, Len(v)) = v
  BY <1>1
<1>4. Len(h) # Len(v)
  <2> SUFFICES ASSUME Len(h) = Len(v) PROVE FALSE
    OBVIOUS
  <2>1. SubSeq(v, 1, Len(h)) = v
    BY <1>3
  <2> QED BY <1>2, <1>3, <2>1
<1>5. Len(v) > Len(h) /\ v # NoCommit
  BY <1>1, <1>2, <1>4, EmptySeq DEF NoCommit
<1>6. v \in History(v)
  BY <1>5, HistoryOf
<1> QED BY <1>5, <1>6 DEF IsAncestor

\* A merge or a rebase decides.
LEMMA DecideSound ==
    ASSUME Types, SInv, NEW p \in Procs, Kindred(p), Decide(p)
    PROVE  Gains(p) /\ Sound(p)'
<1> PICK s : s = proc[p]
  OBVIOUS
<1>1. s.todo # <<>> /\ Do(p).call \in {"merge", "rebase"} /\ odb' = odb /\ marks \subseteq marks'
  BY DEF Decide, Doing
<1>2. s \in ProcType /\ ProcsOK /\ s.head \in Value /\ s.val \in Value
  BY <1>1, AtCall DEF ProcType
<1>3. Gains(p)
  BY <1>1, NoGain
<1>4. Kept2(s)
  BY <1>3, StillSound
<1>5. s.cmd \in Given
  <2>1. Do(p).call \in Calls(s.cmd)
    BY <1>1, AtCall DEF Fits
  <2> QED BY <1>1, <2>1 DEF Calls, Given, Copiers
<1>6. \/ \E e : Becomes(p, Ended(s, e))
      \/ \E calls : /\ Becomes(p, [s EXCEPT !.todo = calls, !.at = "call"])
                    /\ \/ calls = <<Stops(Call("ref", s.home, "HEAD"))>>
                       \/ /\ calls = FastForward(s) /\ s.head # NoCommit /\ s.head # s.val
                          /\ IsAncestor(s.home, s.head, s.val)
  <2>1. CASE s.head = NoCommit
    BY <2>1 DEF Decide
  <2>2. CASE s.head = s.val /\ s.head # NoCommit
    BY <2>2 DEF Decide
  <2>3. CASE s.head # NoCommit /\ s.head # s.val /\ IsAncestor(s.home, s.head, s.val)
    BY <2>3 DEF Decide
  <2>4. CASE s.head # NoCommit /\ s.head # s.val /\ ~IsAncestor(s.home, s.head, s.val)
    BY <2>4 DEF Decide
  <2> QED BY <2>1, <2>2, <2>3, <2>4
<1>7. ASSUME NEW e, Becomes(p, Ended(s, e)) PROVE Gains(p) /\ Sound(p)'
  <2>1. Over(s, proc'[p])
    BY <1>1, <1>2, <1>7, Turns, BecomesIs
  <2> QED BY <1>3, <2>1, OverSound
<1>8. ASSUME NEW calls, Becomes(p, [s EXCEPT !.todo = calls, !.at = "call"]),
             \/ calls = <<Stops(Call("ref", s.home, "HEAD"))>>
             \/ /\ calls = FastForward(s) /\ s.head # NoCommit /\ s.head # s.val
                /\ IsAncestor(s.home, s.head, s.val)
      PROVE  Gains(p) /\ Sound(p)'
  <2> PICK t, P, k : t = proc'[p] /\ P = odb' /\ k = Hollow'
    OBVIOUS
  <2>0. t = [s EXCEPT !.todo = calls, !.at = "call"]
    BY <1>2, <1>8, BecomesIs
  <2>1. /\ t.val = s.val /\ t.head = s.head /\ t.mem = s.mem /\ t.list = s.list /\ t.bundle = s.bundle
        /\ t.adv = s.adv /\ t.cmd = s.cmd /\ t.home = s.home /\ t.todo = calls /\ Kin(s, t)
    BY <1>2, <2>0 DEF Kin, ProcType
  <2>2. Src(t) = Src(s) /\ Tgt(t) = Tgt(s) /\ \A q : Flow(s, q) => Flow(t, q)
    BY <2>1, KinSame
  <2>3. s.cmd \notin Copiers \cup {"stash", "bundle", "fetch_wire"} /\ Tgt(s) = s.home
    BY <1>5 DEF Given, Copiers, Tgt
  <2>4. calls # <<>> /\ Flow(s, calls) /\ calls[1].call \in {"ref", "read_tree"}
        /\ (calls = <<Stops(Call("ref", s.home, "HEAD"))>> => calls[1].call = "ref")
    BY <1>2, <1>5, <1>8, ForwardFlow
  <2>5. ListOK(t, P)
    BY <1>4, <2>1, <2>2, <2>4 DEF ListOK, Kept2
  <2>6. ASSUME ~Marked("dropped")' PROVE TreeOf(t, P)
    <3>1. calls[1].call = "read_tree" => s.val \in odb[s.home]
      BY <1>2, <1>8, <2>4, AheadStored
    <3> QED BY <1>1, <1>4, <2>1, <2>3, <2>4, <2>6, <3>1 DEF TreeOf, Has, Kept2
  <2>7. ASSUME Clean' PROVE Good(t, P, k)
    <3>1. Good(s, P, k)
      BY <1>1, <1>4, <2>7 DEF Kept2
    <3>2. CopiedOK(t, P, k)
      BY <2>1, <2>3 DEF CopiedOK
    <3>3. BundleOK(t, P)
      BY <2>1, <2>2, <2>3, <2>4, <3>1 DEF Good, BundleOK
    <3>4. ValueOK(t, P)
      BY <1>5, <2>1, <2>2, <2>3, <2>4, <3>1 DEF Good, ValueOK
    <3> QED BY <3>2, <3>3, <3>4 DEF Good
  <2> QED BY <1>3, <2>1, <2>2, <2>4, <2>5, <2>6, <2>7 DEF Sound
<1> QED BY <1>6, <1>7, <1>8

-----------------------------------------------------------------------------
(* Copying objects and references.                                         *)

\* Who copies objects, or references.
LEMMA CopierIs ==
    ASSUME Types, SInv, NEW p \in Procs, proc[p].todo # <<>>, Do(p).call \in {"copy", "copy_refs"}
    PROVE  /\ proc[p].cmd \in Copiers /\ Do(p).repo = Tgt(proc[p])
           /\ Src(proc[p]) = Other(Do(p).repo) /\ Src(proc[p]) # Tgt(proc[p])
<1>1. Fits(proc[p], Do(p)) /\ proc[p] \in ProcType
  BY AtCall
<1>2. Do(p).call \in Calls(proc[p].cmd) /\ Do(p).repo = Tgt(proc[p])
  BY <1>1 DEF Fits, AtTgt
<1>3. proc[p].cmd \in Copiers
  BY <1>2 DEF Calls, Given, Copiers
<1> QED BY <1>1, <1>2, <1>3, Ends2

\* The objects are listed.
LEMMA CopyListSound ==
    ASSUME Types, SInv, NEW p \in Procs, Kindred(p), CopyList(p)
    PROVE  Gains(p) /\ Sound(p)'
<1> PICK s : s = proc[p]
  OBVIOUS
<1>1. s.todo # <<>> /\ Do(p).call = "copy" /\ odb' = odb /\ marks \subseteq marks'
  BY ListsAll DEF CopyList, Doing, Mark
<1>2. s \in ProcType /\ ProcsOK /\ s.cmd \in Copiers /\ Src(s) = Other(Do(p).repo) /\ Src(s) \in Repos
      /\ Src(s) # Tgt(s)
  BY <1>1, AtCall, CopierIs
<1>3. Gains(p)
  BY <1>1, NoGain
<1>4. Kept2(s)
  BY <1>3, StillSound
<1>5. PICK S : /\ Becomes(p, [Goes(s, "copy") EXCEPT !.list = S])
               /\ S \subseteq odb[Src(s)] /\ (Clean' => S = odb[Src(s)])
  <2>1. ASSUME Mark(<<"dropped", Other(Do(p).repo)>>) PROVE ~Clean'
    <3>1. <<"dropped", Other(Do(p).repo)>> \in marks'
      BY <2>1 DEF Mark
    <3> QED BY <3>1 DEF Clean, Marked
  <2>2. CASE Becomes(p, [Goes(s, "copy") EXCEPT !.list = {}]) /\ Mark(<<"dropped", Other(Do(p).repo)>>)
    BY <2>1, <2>2
  <2>3. CASE /\ Becomes(p, [Goes(s, "copy") EXCEPT !.list = LooseObjects(Src(s))])
             /\ MarkUnlisted(Src(s))
    <3>1. LooseObjects(Src(s)) \subseteq odb[Src(s)]
      BY DEF LooseObjects
    <3> QED BY <2>3, <3>1, ListsAll
  <2> QED BY <1>2, <2>2, <2>3 DEF CopyList
<1> PICK t, P, k : t = proc'[p] /\ P = odb' /\ k = Hollow'
  OBVIOUS
<1>6. t = [Goes(s, "copy") EXCEPT !.list = S]
  BY <1>2, <1>5, BecomesIs
<1>7. /\ t.val = s.val /\ t.head = s.head /\ t.mem = s.mem /\ t.list = S /\ t.bundle = s.bundle
      /\ t.adv = s.adv /\ t.cmd = s.cmd /\ t.home = s.home /\ t.todo = s.todo /\ t.at = "copy" /\ Kin(s, t)
  BY <1>2, <1>6 DEF Kin, Goes, ProcType
<1>8. Src(t) = Src(s) /\ Tgt(t) = Tgt(s) /\ \A q : Flow(s, q) => Flow(t, q)
  BY <1>7, KinSame
<1>9. ListOK(t, P)
  BY <1>1, <1>5, <1>7, <1>8 DEF ListOK
<1>10. TreeOf(s, P) => TreeOf(t, P)
  BY <1>7 DEF TreeOf
<1>11. ASSUME Clean' PROVE Good(t, P, k)
  <2>1. Good(s, P, k) /\ S = odb[Src(s)]
    BY <1>1, <1>4, <1>5, <1>11 DEF Kept2
  <2>2. S # {} \/ (Src(s) = "local" /\ k)
    BY <1>2, <1>3, <2>1, Others, HollowStays DEF SInv, Rooted
  <2>4. s.todo[1].call = "copy"
    BY <1>1 DEF Do
  <2>3. CopiedOK(t, P, k)
    BY <1>1, <1>7, <1>8, <2>1, <2>2, <2>4 DEF CopiedOK, Past
  <2>5. BundleOK(t, P)
    BY <1>7, <2>1, <2>4 DEF Good, BundleOK
  <2>6. ValueOK(t, P)
    BY <1>7, <1>8, <2>1 DEF Good, ValueOK
  <2> QED BY <2>3, <2>5, <2>6 DEF Good
<1> QED BY <1>3, <1>4, <1>7, <1>8, <1>9, <1>10, <1>11 DEF Sound, Kept2

\* And copied.
LEMMA CopyObjectsSound ==
    ASSUME Types, SInv, NEW p \in Procs, Kindred(p), CopyObjects(p)
    PROVE  Gains(p) /\ Sound(p)'
<1> PICK s, r : s = proc[p] /\ r = Do(p).repo
  OBVIOUS
<1>1. s.todo # <<>> /\ Do(p).call = "copy" /\ s.at = "copy" /\ Store(r, s.list) /\ Becomes(p, Returned(s))
  BY DEF CopyObjects, Doing
<1>2. s \in ProcType /\ ProcsOK /\ s.cmd \in Copiers /\ Src(s) = Other(r) /\ r = Tgt(s) /\ r \in Repos
  BY <1>1, AtCall, CopierIs
<1>3. s.list \subseteq odb[Other(r)] /\ OdbOK
  BY <1>2 DEF SInv, Sound, ListOK, Types
<1>4. Gains(p) /\ (~Marked("dropped")' => odb' = [odb EXCEPT ![r] = @ \cup s.list])
  BY <1>1, <1>2, <1>3, StoreGain
<1>5. Kept2(s)
  BY <1>4, StillSound
<1>6. s.todo[1].call = "copy"
  BY <1>1 DEF Do
<1>7. ASSUME Clean' PROVE Ready(s, odb', Hollow')
  <2> PICK P, k : P = odb' /\ k = Hollow'
    OBVIOUS
  <2>1. Good(s, P, k)
    BY <1>1, <1>5, <1>7 DEF Kept2
  <2>2. s.list \subseteq P[r]
    BY <1>2, <1>3, <1>4, <1>7 DEF Clean, OdbOK
  <2>3. P[Src(s)] \subseteq P[Tgt(s)] /\ (s.list # {} \/ (Src(s) = "local" /\ k))
    BY <1>1, <1>2, <1>6, <2>1, <2>2 DEF Good, CopiedOK, Past
  <2>4. s.cmd \notin Given
    BY <1>2 DEF Copiers, Given
  <2>5. \A e \in ToSet(s.bundle) : Holds(P, s.home, e[2])
    BY <2>1 DEF Good, BundleOK
  <2>6. Holds(P, s.home, s.head) /\ (s.cmd = "fetch_wire" => \A n \in Branches : Holds(P, Src(s), s.adv[n]))
    BY <2>1 DEF Good, ValueOK
  <2> QED BY <1>6, <2>3, <2>4, <2>5, <2>6 DEF Ready
<1>8. Over(s, proc'[p]) \/ After(s, proc'[p])
  BY <1>1, <1>2, Turns, BecomesIs
<1>9. Flow(s, s.todo) /\ ListOK(s, odb') /\ (~Marked("dropped")' => TreeOf(s, odb'))
  BY <1>5 DEF Kept2
<1> QED BY <1>1, <1>2, <1>4, <1>6, <1>7, <1>8, <1>9, ReadySound

\* A loop over references.
LEMMA LoopSound ==
    ASSUME Types, SInv, NEW p \in Procs, Kindred(p), Gains(p), ~proc[p].lost, proc[p].todo # <<>>,
           Do(p).call \in {"copy_refs", "bundle_refs"}, proc[p].at = "call",
           NEW calls \in Seq(CallType), Flow(proc[p], calls),
           calls # <<>> => calls[1].call = "lookup", Becomes(p, Loop(proc[p], calls))
    PROVE  Sound(p)'
<1> PICK s, t, P, k, c : s = proc[p] /\ t = proc'[p] /\ P = odb' /\ k = Hollow' /\ c = Do(p)
  OBVIOUS
<1>1. s \in ProcType /\ ProcsOK /\ Fits(s, c) /\ Flow(s, s.todo) /\ c = s.todo[1] /\ s.todo \in Seq(CallType)
  BY AtCall DEF Do, ProcType
<1>2. t = Loop(s, calls)
  BY <1>1, BecomesIs
<1>3. Kept2(s)
  BY StillSound
<1>4. calls # <<>> /\ Len(s.todo) # 1 => Leads(s, calls[Len(calls)], Tail(s.todo)[1])
  <2> SUFFICES ASSUME Len(s.todo) # 1 PROVE Leads(s, calls[Len(calls)], Tail(s.todo)[1])
    OBVIOUS
  <2>1. Leads(s, c, Tail(s.todo)[1])
    BY <1>1, FlowTail
  <2> QED BY <1>1, <2>1, LoopLeads
<1>5. /\ Flow(t, t.todo)
      /\ \/ Over(s, t)
         \/ calls = <<>> /\ After(s, t)
         \/ calls # <<>> /\ Looped(s, calls, t) /\ t.todo[1] = calls[1]
  BY <1>1, <1>2, <1>4, Loops
<1>6. c.call \in Quietly /\ c.call \notin {"peel", "copy"}
  BY DEF Quietly
<1>7. CASE Over(s, t)
  BY <1>7, OverSound
<1>8. CASE After(s, t)
  <2>1. Turn(s, proc'[p])
    BY <1>8 DEF Turn
  <2> QED BY <1>1, <1>3, <1>6, <2>1, TurnSound
<1>9. CASE calls # <<>> /\ Looped(s, calls, t) /\ t.todo[1] = calls[1]
  <2>1. /\ t.val = s.val /\ t.head = s.head /\ t.mem = s.mem /\ t.list = s.list /\ t.bundle = s.bundle
        /\ t.adv = s.adv /\ t.cmd = s.cmd /\ t.home = s.home /\ t.todo # <<>> /\ Kin(s, t)
        /\ t.todo[1].call = "lookup"
    BY <1>9 DEF Looped, Same, Kin
  <2>2. Src(t) = Src(s) /\ Tgt(t) = Tgt(s)
    BY <2>1, KinSame
  <2>3. ListOK(t, P)
    BY <1>3, <2>1, <2>2 DEF ListOK, Kept2
  <2>4. TreeOf(s, P) => TreeOf(t, P)
    BY <2>1 DEF TreeOf
  <2>5. ASSUME Good(s, P, k) PROVE Good(t, P, k)
    <3>1. CopiedOK(t, P, k)
      BY <1>1, <1>6, <2>1, <2>2, <2>5 DEF Good, CopiedOK, Past
    <3>2. BundleOK(t, P)
      BY <2>1, <2>5 DEF Good, BundleOK
    <3>3. ValueOK(t, P)
      BY <2>1, <2>2, <2>5 DEF Good, ValueOK
    <3> QED BY <3>1, <3>2, <3>3 DEF Good
  <2> QED BY <1>3, <1>5, <2>1, <2>3, <2>4, <2>5 DEF Kept2, Sound
<1> QED BY <1>5, <1>7, <1>8, <1>9

\* The references to copy are listed.
LEMMA CopyRefsSound ==
    ASSUME Types, SInv, NEW p \in Procs, Kindred(p), CopyRefs(p), ~proc[p].lost
    PROVE  Gains(p) /\ Sound(p)'
<1> PICK s, to : s = proc[p] /\ to = Do(p).repo
  OBVIOUS
<1>1. s.todo # <<>> /\ Do(p).call = "copy_refs" /\ s.at = "call" /\ odb' = odb /\ marks \subseteq marks'
  BY DEF CopyRefs, Doing
<1>2. s \in ProcType /\ s.cmd \in Copiers /\ Src(s) = Other(to) /\ to = Tgt(s) /\ to \in Repos
      /\ Src(s) \in Repos
  BY <1>1, AtCall, CopierIs
<1>3. Gains(p)
  BY <1>1, NoGain
<1> PICK calls : calls = RefPairs(Other(to), Listed(Other(to)), "ref", to)
  OBVIOUS
<1>4. calls \in Seq(CallType) /\ Flow(s, calls) /\ (calls # <<>> => calls[1].call = "lookup")
  BY <1>2, PairsFlow
<1>5. Becomes(p, Loop(s, calls))
  BY DEF CopyRefs
<1> QED BY <1>1, <1>3, <1>4, <1>5, LoopSound

\* The references for a bundle are listed.
LEMMA BundleRefsSound ==
    ASSUME Types, SInv, NEW p \in Procs, Kindred(p), BundleRefs(p), ~proc[p].lost
    PROVE  Gains(p) /\ Sound(p)'
<1> PICK s, r : s = proc[p] /\ r = Do(p).repo
  OBVIOUS
<1>1. s.todo # <<>> /\ Do(p).call = "bundle_refs" /\ s.at = "call" /\ odb' = odb /\ marks \subseteq marks'
  BY DEF BundleRefs, Doing
<1>2. s \in ProcType /\ s.cmd \in {"bundle", "push_wire"} /\ r = s.home /\ r \in Repos
  <2>1. Fits(s, Do(p)) /\ s \in ProcType /\ s.home \in Repos
    BY <1>1, AtCall
  <2>2. "bundle_refs" \in Calls(s.cmd) /\ r = s.home
    BY <1>1, <2>1 DEF Fits, AtHome
  <2>3. s.cmd \in {"bundle", "push_wire"}
    BY <2>2 DEF Calls, Given, Copiers
  <2> QED BY <2>1, <2>2, <2>3
<1>3. Gains(p)
  BY <1>1, NoGain
<1> PICK calls : calls = RefPairs(r, Listed(r), "bundle_ref", r)
  OBVIOUS
<1>4. calls \in Seq(CallType) /\ Flow(s, calls) /\ (calls # <<>> => calls[1].call = "lookup")
  BY <1>2, PairsFlow
<1>5. Becomes(p, Loop(s, calls))
  BY DEF BundleRefs
<1> QED BY <1>1, <1>3, <1>4, <1>5, LoopSound

-----------------------------------------------------------------------------
(* Bundles.                                                                *)

\* Who packs objects.
LEMMA PackerIs ==
    ASSUME Types, SInv, NEW p \in Procs, proc[p].todo # <<>>, Do(p).call = "bundle_pack"
    PROVE  proc[p].cmd \in {"bundle", "push_wire"} /\ Do(p).repo = proc[p].home /\ Src(proc[p]) = proc[p].home
<1>1. Fits(proc[p], Do(p)) /\ proc[p] \in ProcType
  BY AtCall
<1>2. "bundle_pack" \in Calls(proc[p].cmd) /\ Do(p).repo = proc[p].home
  BY <1>1 DEF Fits, AtHome
<1>3. proc[p].cmd \in {"bundle", "push_wire"}
  BY <1>2 DEF Calls, Given, Copiers
<1> QED BY <1>1, <1>2, <1>3, Ends2

\* The objects of a bundle are packed.
LEMMA BundlePackSound ==
    ASSUME Types, SInv, NEW p \in Procs, Kindred(p), BundlePack(p)
    PROVE  Gains(p) /\ Sound(p)'
<1> PICK s, P, k : s = proc[p] /\ P = odb' /\ k = Hollow'
  OBVIOUS
<1>1. s.todo # <<>> /\ Do(p).call = "bundle_pack" /\ odb' = odb /\ marks \subseteq marks'
      /\ s.todo[1].call = "bundle_pack"
  BY ListsAll DEF BundlePack, Doing, Mark, Do
<1>2. s \in ProcType /\ ProcsOK /\ s.cmd \in {"bundle", "push_wire"} /\ Src(s) = s.home /\ Do(p).repo = s.home
      /\ s.home \in Repos
  BY <1>1, AtCall, PackerIs
<1>3. Gains(p)
  BY <1>1, NoGain
<1>4. Kept2(s)
  BY <1>3, StillSound
<1>5. ASSUME Clean' PROVE /\ Holds(P, s.home, s.head)
                          /\ \A e \in ToSet(s.bundle) : Holds(P, s.home, e[2])
  BY <1>1, <1>4, <1>5 DEF Kept2, Good, BundleOK, ValueOK
<1>6. s.cmd \notin Given \cup Copiers \cup {"fetch_wire"}
  BY <1>2 DEF Given, Copiers
<1>7. CASE Becomes(p, Failed(s))
  <2>1. proc'[p] = Failed(s)
    BY <1>2, <1>7, BecomesIs
  <2>2. Over(s, proc'[p]) \/ (After(s, proc'[p]) /\ s.todo[1].onerr = "go")
    BY <1>1, <1>2, <2>1, Turns
  <2>3. CASE Over(s, proc'[p])
    BY <1>3, <2>3, OverSound
  <2>4. CASE After(s, proc'[p]) /\ s.todo[1].onerr = "go"
    <3>1. Clean' => Ready(s, P, k)
      BY <1>1, <1>5, <1>6, <2>4 DEF Ready
    <3> QED BY <1>1, <1>2, <1>3, <1>4, <2>4, <3>1, ReadySound DEF Kept2
  <2> QED BY <2>2, <2>3, <2>4
<1>8. ASSUME NEW S, S \subseteq odb[s.home], Clean' => S = odb[s.home],
             Becomes(p, Returned([s EXCEPT !.list = S]))
      PROVE  Sound(p)'
  <2>1. PICK u : u = [s EXCEPT !.list = S]
    OBVIOUS
  <2>2. odb[s.home] \subseteq Commits
    BY <1>2 DEF Types, OdbOK
  <2>3. Sets(s, u) /\ u.list = S /\ u.val = s.val /\ u.head = s.head /\ u.mem = s.mem /\ u.bundle = s.bundle
    BY <1>2, <1>8, <2>1, <2>2 DEF Sets, Kin, ProcType
  <2>4. /\ Src(u) = Src(s) /\ Tgt(u) = Tgt(s) /\ (Flow(s, s.todo) => Flow(u, u.todo))
        /\ u.cmd = s.cmd /\ u.home = s.home /\ u.todo = s.todo /\ u \in ProcType
    BY <1>2, <2>3, SetFlow
  <2>5. proc'[p] = Returned(u)
    BY <1>2, <1>8, <2>1, BecomesIs
  <2>6. Over(u, proc'[p]) \/ After(u, proc'[p])
    BY <1>1, <2>4, <2>5, Turns
  <2>7. ListOK(u, P)
    BY <1>1, <1>2, <1>8, <2>3, <2>4 DEF ListOK
  <2>8. TreeOf(s, P) => TreeOf(u, P)
    BY <2>3, <2>4 DEF TreeOf
  <2>9. ASSUME Clean' PROVE Ready(u, P, k)
    <3>1. \A e \in ToSet(s.bundle) : History(e[2]) \subseteq S
      BY <1>1, <1>5, <1>8, <2>9 DEF Holds
    <3> QED BY <1>1, <1>5, <1>6, <2>3, <2>4, <2>9, <3>1 DEF Ready
  <2> QED BY <1>1, <1>4, <2>4, <2>6, <2>7, <2>8, <2>9, ReadySound DEF Kept2
<1> PICK all : all = LooseObjects(s.home)
  OBVIOUS
<1>11. all \subseteq odb[s.home]
  BY DEF LooseObjects
<1>9. CASE \E lost \in all : /\ Becomes(p, Returned([s EXCEPT !.list = all \ {lost}]))
                            /\ Mark(<<"dropped", Do(p).repo>>)
  <2>1. PICK lost \in all : /\ Becomes(p, Returned([s EXCEPT !.list = all \ {lost}]))
                           /\ Mark(<<"dropped", Do(p).repo>>)
    BY <1>9
  <2>2. ~Clean'
    <3>1. <<"dropped", Do(p).repo>> \in marks' /\ <<"dropped", Do(p).repo>>[1] = "dropped"
      BY <2>1 DEF Mark
    <3> QED BY <3>1 DEF Clean, Marked
  <2>3. all \ {lost} \subseteq odb[s.home]
    BY <1>11
  <2> QED BY <1>3, <1>8, <2>1, <2>2, <2>3
<1>10. CASE Becomes(p, Returned([s EXCEPT !.list = all])) /\ MarkUnlisted(s.home)
  <2>1. Clean' => all = odb[s.home]
    BY <1>10, ListsAll
  <2> QED BY <1>3, <1>8, <1>10, <1>11, <2>1
<1> QED BY <1>2, <1>7, <1>9, <1>10 DEF BundlePack

\* A bundle is unpacked.
LEMMA UnbundleSound ==
    ASSUME Types, SInv, NEW p \in Procs, Kindred(p), Unbundle(p), ~proc[p].lost
    PROVE  Gains(p) /\ Sound(p)'
<1> PICK s, r, P, k : s = proc[p] /\ r = Do(p).repo /\ P = odb' /\ k = Hollow'
  OBVIOUS
<1>1. s.todo # <<>> /\ Do(p).call = "unbundle" /\ s.todo[1].call = "unbundle" /\ s.at = "call"
      /\ s.todo[1] = Do(p)
  BY DEF Unbundle, Doing, Do
<1>2. s \in ProcType /\ ProcsOK /\ s.cmd = "bundle" /\ r = Tgt(s) /\ r \in Repos /\ Fits(s, Do(p))
      /\ Flow(s, s.todo) /\ Src(s) = Other(r) /\ Src(s) # r
  <2>1. Fits(s, Do(p)) /\ s \in ProcType /\ ProcsOK /\ Tgt(s) \in Repos /\ Flow(s, s.todo)
    BY <1>1, AtCall
  <2>2. "unbundle" \in Calls(s.cmd) /\ r = Tgt(s)
    BY <1>1, <2>1 DEF Fits, AtTgt
  <2>3. s.cmd = "bundle"
    BY <2>2 DEF Calls, Given, Copiers
  <2> QED BY <2>1, <2>2, <2>3, Ends2
<1>3. s.cmd \notin Given \cup Copiers \cup {"fetch_wire"}
  BY <1>2 DEF Given, Copiers
<1>4. CASE Becomes(p, Failed(s)) /\ odb' = odb /\ marks' = marks
  <2>0. Gains(p)
    BY <1>4, NoGain
  <2>1. proc'[p] = Failed(s)
    BY <1>2, <1>4, BecomesIs
  <2>2. Over(s, proc'[p]) \/ (After(s, proc'[p]) /\ s.todo[1].onerr = "go")
    BY <1>1, <1>2, <2>1, Turns
  <2>3. CASE Over(s, proc'[p])
    BY <2>0, <2>3, OverSound
  <2>4. CASE After(s, proc'[p]) /\ s.todo[1].onerr = "go"
    <3>1. Kept2(s)
      BY <2>0, StillSound
    <3>2. ASSUME Clean' PROVE Ready(s, P, k)
      <4>1. Holds(P, s.home, s.head) /\ \A e \in ToSet(s.bundle) : Holds(P, s.home, e[2])
        BY <1>1, <3>1, <3>2 DEF Kept2, Good, BundleOK, ValueOK
      <4> QED BY <1>1, <1>3, <2>4, <4>1 DEF Ready
    <3> QED BY <1>1, <1>2, <2>0, <3>1, <2>4, <3>2, ReadySound DEF Kept2
  <2> QED BY <2>2, <2>3, <2>4
<1> PICK b, calls : /\ b = s.bundle
                    /\ calls = [i \in 1..(2 * Len(s.bundle)) |-> Call(IF i % 2 = 1 THEN "bundled" ELSE "ref",
                                                           r, s.bundle[(i + 1) \div 2][1])]
  OBVIOUS
<1>5. CASE Store(r, s.list) /\ Becomes(p, Loop(s, calls))
  <2>1. s.list \subseteq odb[Other(r)] /\ OdbOK
    BY <1>2 DEF SInv, Sound, ListOK, Types
  <2>2. Gains(p) /\ (~Marked("dropped")' => odb' = [odb EXCEPT ![r] = @ \cup s.list])
    BY <1>2, <1>5, <2>1, StoreGain
  <2>3. Kept2(s)
    BY <2>2, StillSound
  <2> PICK t : t = proc'[p]
    OBVIOUS
  <2>4. t = Loop(s, calls)
    BY <1>2, <1>5, BecomesIs
  <2>5. /\ calls \in Seq(CallType) /\ Flow(s, calls)
        /\ s.bundle = <<>> <=> calls = <<>>
        /\ calls # <<>> => calls[1].call = "bundled" /\ calls[Len(calls)].call = "ref"
    <3>1. ASSUME NEW q, q = [i \in 1..(2 * Len(s.bundle)) |-> Call(IF i % 2 = 1 THEN "bundled" ELSE "ref",
                                                           r, s.bundle[(i + 1) \div 2][1])]
          PROVE  /\ q \in Seq(CallType) /\ Flow(s, q)
                 /\ s.bundle = <<>> <=> q = <<>>
                 /\ q # <<>> => q[1].call = "bundled" /\ q[Len(q)].call = "ref"
      BY <1>2, <3>1, UnbundleFlow, ZenonT(60)
    <3> QED BY <3>1
  <2>6. calls # <<>> /\ Len(s.todo) # 1 => Leads(s, calls[Len(calls)], Tail(s.todo)[1])
    <3> SUFFICES ASSUME Len(s.todo) # 1, calls # <<>> PROVE Leads(s, calls[Len(calls)], Tail(s.todo)[1])
      OBVIOUS
    <3>1. Leads(s, Do(p), Tail(s.todo)[1])
      <4>1. s.todo \in Seq(CallType)
        BY <1>2 DEF ProcType
      <4> QED BY <1>1, <1>2, <4>1, FlowTail
    <3> QED BY <1>1, <1>2, <2>5, <3>1, LoopLeads
  <2>7. /\ Flow(t, t.todo)
        /\ \/ Over(s, t)
           \/ calls = <<>> /\ After(s, t)
           \/ calls # <<>> /\ Looped(s, calls, t) /\ t.todo[1] = calls[1]
    BY <1>1, <1>2, <2>4, <2>5, <2>6, Loops, ZenonT(60)
  <2>8. ASSUME Clean' PROVE /\ Holds(P, s.home, s.head)
                            /\ \A e \in ToSet(s.bundle) : Holds(P, s.home, e[2]) /\ Holds(P, r, e[2])
    <3>1. Good(s, P, k)
      BY <1>1, <2>3, <2>8 DEF Kept2
    <3>2. s.list \subseteq P[r]
      BY <1>2, <2>1, <2>2, <2>8 DEF Clean, OdbOK
    <3>3. \A e \in ToSet(s.bundle) : Holds(P, s.home, e[2]) /\ History(e[2]) \subseteq s.list
      BY <1>1, <3>1 DEF Good, BundleOK
    <3> QED BY <3>1, <3>2, <3>3 DEF Good, ValueOK, Holds
  <2>9. CASE Over(s, t)
    BY <2>2, <2>9, OverSound
  <2>10. CASE calls = <<>> /\ After(s, t)
    <3>1. ToSet(s.bundle) = {}
      <4>1. s.bundle = <<>>
        BY <2>5, <2>10
      <4> QED BY <4>1 DEF ToSet
    <3>2. Clean' => Ready(s, P, k)
      BY <1>1, <1>3, <2>8, <3>1 DEF Ready
    <3> QED BY <1>1, <1>2, <2>2, <2>3, <2>10, <3>2, ReadySound DEF Kept2
  <2>11. CASE calls # <<>> /\ Looped(s, calls, t) /\ t.todo[1] = calls[1]
    <3>1. /\ t.val = s.val /\ t.head = s.head /\ t.mem = s.mem /\ t.list = s.list /\ t.bundle = s.bundle
          /\ t.adv = s.adv /\ t.cmd = s.cmd /\ t.home = s.home /\ t.todo # <<>> /\ Kin(s, t)
          /\ t.todo[1].call = "bundled"
      BY <2>5, <2>11 DEF Looped, Same, Kin
    <3>2. Src(t) = Src(s) /\ Tgt(t) = Tgt(s)
      BY <3>1, KinSame
    <3>3. ListOK(t, P)
      BY <2>3, <3>1, <3>2 DEF ListOK, Kept2
    <3>4. TreeOf(s, P) => TreeOf(t, P)
      BY <3>1 DEF TreeOf
    <3>5. ASSUME Clean' PROVE Good(t, P, k)
      <4>1. CopiedOK(t, P, k)
        BY <1>3, <3>1 DEF CopiedOK
      <4>2. BundleOK(t, P)
        BY <1>2, <2>8, <3>1, <3>2, <3>5 DEF BundleOK
      <4>3. ValueOK(t, P)
        BY <1>3, <2>8, <3>1, <3>5 DEF ValueOK
      <4> QED BY <4>1, <4>2, <4>3 DEF Good
    <3> QED BY <2>2, <2>3, <2>7, <3>3, <3>4, <3>5 DEF Kept2, Sound
  <2> QED BY <2>7, <2>9, <2>10, <2>11
<1> QED BY <1>4, <1>5 DEF Unbundle

-----------------------------------------------------------------------------
(* Empty files.                                                            *)

\* Only a process that is writing a reference, or has just written it, has lost its file.
LostOK(s) == s.lost => s.todo # <<>> /\ s.todo[1].call = "ref" /\ s.at \in {"write", "log"}
Losses == \A p \in Procs : LostOK(proc[p])
\* A file is empty where somebody is about to write it, or was.
Empties ==
    \A r \in Repos, n \in Names : loose[r][n] = Empty =>
        \/ \E p \in Procs : On(proc[p], "ref", "write", r, n) /\ ~proc[p].lost
        \/ <<"cut", <<r, n>>>> \in marks

\* Only while they write, or have written, do processes lose their file.
LEMMA LossStep ==
    ASSUME Types, Losses, NEW p \in Procs, StepOf(p)
    PROVE  Losses'
<1>1. Kindred(p) /\ ProcsOK
  BY OneSteps DEF Types
<1>2. ASSUME NEW q \in Procs, q # p PROVE LostOK(proc'[q])
  <2>1. CASE proc'[q] = proc[q]
    BY <2>1 DEF Losses
  <2>2. CASE proc'[q] # proc[q]
    <3>1. Doing(q, "ref", "write") /\ proc'[q] = [proc[q] EXCEPT !.lost = TRUE] /\ proc[q] \in ProcType
      BY <1>1, <1>2, <2>2 DEF Kindred, ProcsOK
    <3>2. proc'[q].todo = proc[q].todo /\ proc'[q].at = proc[q].at
      BY <3>1 DEF ProcType
    <3> QED BY <3>1, <3>2 DEF LostOK, Doing, Do
  <2> QED BY <2>1, <2>2
<1>3. LostOK(proc'[p])
  <2> SUFFICES ASSUME proc[p].lost PROVE LostOK(proc'[p])
    BY <1>1 DEF Kindred, LostOK
  <2>1. proc[p].todo # <<>> /\ Do(p).call = "ref" /\ proc[p].at \in {"write", "log"} /\ proc[p] \in ProcType
    BY <1>1 DEF Losses, LostOK, Do, ProcsOK
  <2>2. CASE Crash(p)
    <3>1. proc'[p] = Ended(proc[p], "crashed")
      BY <1>1, <2>2, BecomesIs DEF Crash
    <3> QED BY <3>1 DEF LostOK, Ended, Idle
  <2>3. CASE ~Crash(p)
    <3>1. RefWrite(p) \/ RefLog(p)
      BY <2>1, <2>3, ActsOf DEF RefSkip, RefStat, RefOld, RefOpen, Doing
    <3>2. CASE RefWrite(p)
      <4>1. proc'[p] = Goes(proc[p], "log")
        BY <1>1, <3>2, BecomesIs DEF RefWrite
      <4> QED BY <2>1, <4>1, GoesIs DEF LostOK, Do
    <3>3. CASE RefLog(p)
      <4>1. proc'[p] = Returned(proc[p])
        BY <1>1, <3>3, BecomesIs DEF RefLog
      <4> QED BY <2>1, <4>1, Turns DEF LostOK, Over, After
    <3> QED BY <3>1, <3>2, <3>3
  <2> QED BY <2>2, <2>3
<1> QED BY <1>2, <1>3 DEF Losses

\* Steps that change no reference.
Loud(p) == RefOpen(p) \/ RefWrite(p) \/ RmUnlink(p) \/ Receive(p) \/ Crash(p)

\* The others leave the references' files alone.
LEMMA Silent ==
    ASSUME NEW p, StepOf(p), ~Loud(p)
    PROVE  UNCHANGED <<loose, packed>> /\ \E t : Becomes(p, t)
<1>1. CASE RefNext(p)
  BY <1>1 DEF Loud, RefNext, Lookup, ReadHead, RefSkip, RefStat, RefOld, RefLog, RmOld, RmLog, refVars
<1>2. CASE LockOpen(p) \/ LockWrite(p) \/ LockRename(p)
  BY <1>2 DEF LockOpen, LockWrite, LockRename, refVars
<1>3. CASE LoadTree(p) \/ TreeOpen(p) \/ FileOpen(p) \/ FileWrite(p)
  BY <1>3 DEF LoadTree, TreeOpen, FileOpen, FileWrite, refVars
<1>4. CASE Stage(p) \/ WriteTrees(p) \/ MakeCommit(p) \/ Peel(p) \/ CopyList(p) \/ CopyObjects(p)
  BY <1>4 DEF Stage, WriteTrees, MakeCommit, Peel, CopyList, CopyObjects, refVars
<1>5. CASE Decide(p)
  BY <1>5 DEF Decide, refVars
<1>6. CASE CopyRefs(p) \/ RemoteHead(p) \/ BundleRefs(p) \/ BundleRef(p) \/ BundlePack(p)
  BY <1>6 DEF CopyRefs, RemoteHead, BundleRefs, BundleRef, BundlePack, refVars
<1>7. CASE Unbundle(p)
  BY <1>7 DEF Unbundle, refVars
<1>8. CASE Bundled(p) \/ Advert(p) \/ UnpackOne(p)
  BY <1>8 DEF Bundled, Advert, UnpackOne, refVars
<1>9. CASE Request(p)
  BY <1>9 DEF Request, refVars
<1> QED BY <1>1, <1>2, <1>3, <1>4, <1>5, <1>6, <1>7, <1>8, <1>9 DEF StepOf, OtherNext, Loud

\* A server's answer: the references it moves.
LEMMA ServedRefs ==
    ASSUME Types, NEW p \in Procs, proc[p].todo # <<>>, NEW done, NEW end, Served(p, done, end)
    PROVE  \A r \in Repos, n \in Names :
             \/ loose'[r][n] = loose[r][n] /\ (Sent(done, n) = {} \/ r # Do(p).repo)
             \/ r = Do(p).repo /\ \E e \in done : e[2] = loose'[r][n] /\ e \in ToSet(proc[p].bundle)
<1> SUFFICES ASSUME NEW r \in Repos, NEW n \in Names, r = Do(p).repo
             PROVE  \/ loose'[r][n] = loose[r][n] /\ Sent(done, n) = {}
                    \/ \E e \in done : e[2] = loose'[r][n] /\ e \in ToSet(proc[p].bundle)
  <2>1. loose \in [Repos -> [Names -> Commits \cup {Absent, Empty}]] /\ Do(p).repo \in Repos
    BY DoOK DEF Types, RefsOK
  <2>2. \A r \in Repos : r # Do(p).repo => loose'[r] = loose[r]
    BY <2>1 DEF Served
  <2> QED BY <2>2
<1>1. loose \in [Repos -> [Names -> Commits \cup {Absent, Empty}]]
  BY DEF Types, RefsOK
<1>2. loose'[r][n] = IF Sent(done, n) = {} THEN loose[r][n] ELSE CHOOSE c \in Sent(done, n) : TRUE
  BY <1>1 DEF Served
<1>3. CASE Sent(done, n) # {}
  <2>1. loose'[r][n] \in Sent(done, n)
    BY <1>2, <1>3
  <2>2. PICK e \in done : e[2] = loose'[r][n]
    BY <2>1 DEF Sent
  <2>3. done \subseteq ToSet(proc[p].bundle)
    BY DEF Served
  <2> QED BY <2>2, <2>3
<1> QED BY <1>2, <1>3

\* What is in a bundle.
LEMMA BundleItems ==
    ASSUME NEW s \in ProcType, NEW e \in ToSet(s.bundle)
    PROVE  e[1] \in Branches /\ e[2] \in Commits
<1>1. s.bundle \in Seq(Branches \X Commits)
  BY DEF ProcType
<1>2. PICK i \in DOMAIN s.bundle : e = s.bundle[i]
  BY DEF ToSet
<1>3. e \in Branches \X Commits
  BY <1>1, <1>2
<1> QED BY <1>3

\* A commit is neither mark of a file.
LEMMA NotMarks == ASSUME NEW c \in Value PROVE c # Absent /\ c # Empty
  BY DEF Value, Absent, Empty

\* Every empty file still has its writer, or a mark.
LEMMA EmptyStep ==
    ASSUME Types, Losses, Empties, NEW p \in Procs, StepOf(p), marks \subseteq marks'
    PROVE  Empties'
<1> SUFFICES ASSUME NEW r \in Repos, NEW n \in Names, loose'[r][n] = Empty, <<"cut", <<r, n>>>> \notin marks'
             PROVE  \E q \in Procs : On(proc'[q], "ref", "write", r, n) /\ ~proc'[q].lost
  BY DEF Empties
<1>0. ProcsOK /\ proc[p] \in ProcType /\ Kindred(p) /\ proc[p].todo # <<>>
  BY OneSteps DEF Types, ProcsOK, Kindred
<1>1. ASSUME loose[r][n] = Empty,
             \A q \in Procs : On(proc[q], "ref", "write", r, n) /\ ~proc[q].lost => q # p /\ proc'[q] = proc[q]
      PROVE  \E q \in Procs : On(proc'[q], "ref", "write", r, n) /\ ~proc'[q].lost
  <2>1. PICK q \in Procs : On(proc[q], "ref", "write", r, n) /\ ~proc[q].lost
    BY <1>1 DEF Empties
  <2>2. proc'[q] = proc[q]
    BY <1>1, <2>1
  <2> QED BY <2>1, <2>2
<1>2. On(proc[p], "ref", "write", r, n) => Doing(p, "ref", "write") /\ ThisRef(p) = <<r, n>>
  BY DEF On, Doing, Do, ThisRef
<1>3. CASE ~Loud(p)
  <2>1. loose' = loose /\ \A q \in Procs \ {p} : proc'[q] = proc[q]
    BY <1>0, <1>3, Silent DEF Becomes, ProcsOK
  <2>2. ~Doing(p, "ref", "write")
    BY <1>3, ActsOf DEF Loud, RefSkip, RefStat, RefOld, RefLog, Doing
  <2> QED BY <1>1, <1>2, <2>1, <2>2
<1>4. CASE Crash(p)
  <2>1. loose' = loose /\ \A q \in Procs \ {p} : proc'[q] = proc[q]
    BY <1>0, <1>4 DEF Crash, Becomes, ProcsOK, refVars
  <2>2. Doing(p, "ref", "write") => <<"cut", ThisRef(p)>> \in marks'
    BY <1>4 DEF Crash
  <2> QED BY <1>1, <1>2, <2>1, <2>2
<1>5. CASE RefOpen(p)
  <2>1. Doing(p, "ref", "open") /\ Do(p).call = "ref"
    BY <1>5 DEF RefOpen, Doing
  <2>2. ~proc[p].lost
    BY <2>1 DEF Losses, LostOK, Doing
  <2>3. CASE SetRef(p, Empty) /\ Becomes(p, Goes(proc[p], "write"))
    <3>1. \A q \in Procs \ {p} : proc'[q] = proc[q]
      BY <1>0, <2>3 DEF Becomes, ProcsOK
    <3>2. proc'[p] = Goes(proc[p], "write")
      BY <1>0, <2>3, BecomesIs
    <3>3. loose'[r][n] = IF r = Do(p).repo /\ n = FileOf(Do(p).name) THEN Empty ELSE loose[r][n]
      BY <1>0, <2>1, <2>3, SetRefIs
    <3>4. CASE r = Do(p).repo /\ n = FileOf(Do(p).name)
      <4>1. On(proc'[p], "ref", "write", r, n) /\ ~proc'[p].lost
        BY <1>0, <2>1, <2>2, <3>2, <3>4, GoesIs DEF On, Do
      <4> QED BY <4>1
    <3>5. CASE ~(r = Do(p).repo /\ n = FileOf(Do(p).name))
      BY <1>1, <1>2, <2>1, <3>1, <3>3, <3>5 DEF Doing
    <3> QED BY <3>4, <3>5
  <2>4. CASE Becomes(p, Failed(proc[p])) /\ loose' = loose
    <3>1. \A q \in Procs \ {p} : proc'[q] = proc[q]
      BY <1>0, <2>4 DEF Becomes, ProcsOK
    <3> QED BY <1>1, <1>2, <2>1, <2>4, <3>1 DEF Doing
  <2> QED BY <1>5, <2>3, <2>4 DEF RefOpen
<1>6. CASE RefWrite(p)
  <2>1. Doing(p, "ref", "write") /\ Do(p).call = "ref" /\ proc[p].val \in Value /\ proc[p].val # NoCommit
    BY <1>0, <1>6 DEF RefWrite, Doing, ProcType, ProcsOK, ProcOK, HasValue, Do
  <2>2. \A q \in Procs \ {p} : proc'[q] = proc[q]
    BY <1>0, <1>6 DEF RefWrite, Becomes, ProcsOK
  <2>3. CASE Mark(<<"cut", ThisRef(p)>>) /\ loose' = loose
    BY <1>1, <1>2, <2>2, <2>3 DEF Mark
  <2>4. CASE proc[p].lost /\ loose' = loose
    BY <1>1, <2>2, <2>4
  <2>5. CASE SetRef(p, proc[p].val)
    <3>1. proc[p].val \in Commits
      BY <2>1 DEF Commits, Value, NoCommit
    <3>2. loose'[r][n] = IF r = Do(p).repo /\ n = FileOf(Do(p).name) THEN proc[p].val ELSE loose[r][n]
      BY <1>0, <2>1, <2>5, <3>1, SetRefIs
    <3>3. ~(r = Do(p).repo /\ n = FileOf(Do(p).name))
      BY <2>1, <3>2, NotMarks
    <3>4. ~On(proc[p], "ref", "write", r, n)
      BY <3>3 DEF On, Do
    <3> QED BY <1>1, <2>2, <3>2, <3>3, <3>4
  <2> QED BY <1>6, <2>3, <2>4, <2>5 DEF RefWrite
<1>7. CASE RmUnlink(p)
  <2>1. Doing(p, "remove", "unlink") /\ Do(p).call = "remove"
    BY <1>7 DEF RmUnlink, Doing
  <2>2. CASE Becomes(p, Failed(proc[p])) /\ loose' = loose
    <3>1. \A q \in Procs \ {p} : proc'[q] = proc[q]
      BY <1>0, <2>2 DEF Becomes, ProcsOK
    <3> QED BY <1>1, <1>2, <2>1, <2>2, <3>1 DEF Doing
  <2>3. CASE SetRef(p, Absent) /\ proc' = [q \in Procs |->
                  CASE q = p -> Goes(proc[p], "log")
                    [] q # p /\ Doing(q, "ref", "write") /\ ThisRef(q) = ThisRef(p) ->
                          [proc[q] EXCEPT !.lost = TRUE]
                    [] OTHER -> proc[q]]
    <3>1. loose'[r][n] = IF r = Do(p).repo /\ n = FileOf(Do(p).name) THEN Absent ELSE loose[r][n]
      BY <1>0, <2>1, <2>3, SetRefIs
    <3>2. ~(r = Do(p).repo /\ n = FileOf(Do(p).name)) /\ loose[r][n] = Empty
      BY <3>1 DEF Absent, Empty
    <3>3. ASSUME NEW q \in Procs, On(proc[q], "ref", "write", r, n)
          PROVE  q # p /\ proc'[q] = proc[q]
      <4>1. q # p
        BY <2>1, <3>3 DEF On, Do
      <4>2. ThisRef(q) # ThisRef(p)
        BY <3>2, <3>3 DEF On, ThisRef, Do
      <4> QED BY <2>3, <4>1, <4>2
    <3> QED BY <1>1, <3>2, <3>3
  <2> QED BY <1>7, <2>2, <2>3 DEF RmUnlink
<1>8. CASE Receive(p)
  <2>1. Doing(p, "receive", "call")
    BY <1>8 DEF Receive
  <2>2. CASE Becomes(p, Failed(proc[p])) /\ loose' = loose
    <3>1. \A q \in Procs \ {p} : proc'[q] = proc[q]
      BY <1>0, <2>2 DEF Becomes, ProcsOK
    <3> QED BY <1>1, <1>2, <2>1, <2>2, <3>1 DEF Doing
  <2>3. ASSUME NEW done, NEW end, Served(p, done, end)
        PROVE  \E q \in Procs : On(proc'[q], "ref", "write", r, n) /\ ~proc'[q].lost
    <3>1. loose'[r][n] = loose[r][n] /\ (Sent(done, n) = {} \/ r # Do(p).repo)
      <4>1. SUFFICES ASSUME NEW e \in ToSet(proc[p].bundle), e[2] = loose'[r][n] PROVE FALSE
        BY <1>0, <2>3, ServedRefs
      <4>2. e[2] \in Commits
        BY <1>0, <4>1, BundleItems
      <4> QED BY <4>1, <4>2, NotMarks DEF Commits, Value
    <3>2. proc' = [q \in Procs |->
              CASE q = p -> end
                [] q # p /\ Doing(q, "ref", "write") /\ ThisRef(q)[1] = Do(p).repo /\ Sent(done, ThisRef(q)[2]) # {} ->
                      [proc[q] EXCEPT !.lost = TRUE]
                [] OTHER -> proc[q]]
      BY <2>3 DEF Served
    <3>3. ASSUME NEW q \in Procs, On(proc[q], "ref", "write", r, n)
          PROVE  q # p /\ proc'[q] = proc[q]
      <4>1. q # p
        BY <2>1, <3>3 DEF On, Do, Doing
      <4>2. ThisRef(q)[1] = r /\ ThisRef(q)[2] = n
        BY <3>3 DEF On, ThisRef, Do
      <4> QED BY <3>1, <3>2, <4>1, <4>2
    <3> QED BY <1>1, <3>1, <3>3
  <2> QED BY <1>8, <2>2, <2>3, ReceiveIs
<1> QED BY <1>3, <1>4, <1>5, <1>6, <1>7, <1>8 DEF Loud

-----------------------------------------------------------------------------
(* Every step.                                                             *)

\* Every step leaves its process sound.
LEMMA StepSound ==
    ASSUME Types, SInv, Losses, NEW p \in Procs, StepOf(p)
    PROVE  Kindred(p) /\ Gains(p) /\ Sound(p)'
<1>1. Kindred(p) /\ proc[p].todo # <<>>
  BY OneSteps DEF Kindred
<1>2. Do(p).call # "ref" => ~proc[p].lost
  BY DEF Losses, LostOK, Do
<1>3. CASE RefNext(p)
  <2>1. CASE Lookup(p)
    BY <1>1, <2>1, LookupSound
  <2>2. CASE ReadHead(p)
    BY <1>1, <2>2, ReadHeadSound
  <2>3. CASE RefSkip(p) \/ RefStat(p) \/ RefOld(p) \/ RefOpen(p) \/ RefWrite(p) \/ RefLog(p)
             \/ RmOld(p) \/ RmUnlink(p) \/ RmLog(p)
    BY <1>1, <2>3, RefQuiets, QuietSound
  <2> QED BY <1>3, <2>1, <2>2, <2>3 DEF RefNext
<1>4. CASE TreeOpen(p) \/ FileOpen(p) \/ FileWrite(p) \/ LockOpen(p) \/ LockWrite(p) \/ LockRename(p)
              \/ WriteTrees(p)
  BY <1>1, <1>4, TreeQuiets, QuietSound
<1>5. CASE LoadTree(p)
  BY <1>1, <1>5, LoadSound
<1>6. CASE Stage(p)
  BY <1>1, <1>6, StageSound
<1>7. CASE MakeCommit(p)
  BY <1>1, <1>7, MakeCommitSound
<1>8. CASE Peel(p)
  BY <1>1, <1>8, PeelSound
<1>9. CASE Decide(p)
  BY <1>1, <1>9, DecideSound
<1>10. CASE CopyList(p) \/ CopyObjects(p)
  BY <1>1, <1>10, CopyListSound, CopyObjectsSound
<1>11. CASE CopyRefs(p)
  <2>1. ~proc[p].lost
    BY <1>2, <1>11 DEF CopyRefs, Doing
  <2> QED BY <1>1, <1>11, <2>1, CopyRefsSound
<1>12. CASE BundleRefs(p)
  <2>1. ~proc[p].lost
    BY <1>2, <1>12 DEF BundleRefs, Doing
  <2> QED BY <1>1, <1>12, <2>1, BundleRefsSound
<1>13. CASE Unbundle(p)
  <2>1. ~proc[p].lost
    BY <1>2, <1>13 DEF Unbundle, Doing
  <2> QED BY <1>1, <1>13, <2>1, UnbundleSound
<1>14. CASE RemoteHead(p) \/ Bundled(p)
  BY <1>1, <1>14, RemoteHeadSound, BundledSound
<1>15. CASE BundleRef(p) \/ BundlePack(p)
  BY <1>1, <1>15, BundleRefSound, BundlePackSound
<1>16. CASE Advert(p) \/ Request(p) \/ UnpackOne(p)
  BY <1>1, <1>16, AdvertSound, RequestSound, UnpackSound
<1>17. CASE Receive(p)
  BY <1>1, <1>17, ReceiveSound
<1>18. CASE Crash(p)
  BY <1>1, <1>18, CrashSound
<1> QED BY <1>3, <1>4, <1>5, <1>6, <1>7, <1>8, <1>9, <1>10, <1>11, <1>12, <1>13, <1>14, <1>15, <1>16,
           <1>17, <1>18 DEF StepOf, OtherNext

\* What references name is stored.
LEMMA ClosedStep ==
    ASSUME Types, SInv, NEW p \in Procs, StepOf(p), Gains(p), Clean'
    PROVE  \A r \in Repos : Closed(r)'
<1> SUFFICES ASSUME NEW r \in Repos, NEW n \in Names
             PROVE  /\ IsCommit(loose'[r][n]) => Holds(odb', r, loose'[r][n])
                    /\ Holds(odb', r, packed'[r][n])
  BY DEF Closed
<1>0. ProcsOK /\ proc[p] \in ProcType /\ proc[p].todo # <<>>
  BY OneSteps DEF Types, ProcsOK, Kindred
<1>1. /\ packed' = packed => Holds(odb', r, packed'[r][n])
      /\ IsCommit(loose[r][n]) => Holds(odb', r, loose[r][n])
  BY StillClosed
<1>2. ASSUME NEW x, ~IsCommit(x) \/ Holds(odb', r, x), packed' = packed, loose'[r][n] \in {x, loose[r][n]}
      PROVE  /\ IsCommit(loose'[r][n]) => Holds(odb', r, loose'[r][n])
             /\ Holds(odb', r, packed'[r][n])
  BY <1>1, <1>2
<1>3. ~IsCommit(Absent) /\ ~IsCommit(Empty)
  BY DEF IsCommit, Absent, Empty, NoCommit
<1>4. CASE ~Loud(p) \/ Crash(p)
  <2>1. loose' = loose /\ packed' = packed
    BY <1>4, Silent DEF Crash, refVars
  <2> QED BY <1>2, <1>3, <2>1
<1>5. CASE RefOpen(p)
  <2>1. loose' = loose \/ SetRef(p, Empty)
    BY <1>5 DEF RefOpen
  <2>2. packed' = packed /\ Do(p).call = "ref"
    BY <1>5 DEF RefOpen, Doing
  <2>3. loose'[r][n] \in {Empty, loose[r][n]}
    BY <1>0, <2>1, <2>2, SetRefIs
  <2> QED BY <1>2, <1>3, <2>2, <2>3
<1>6. CASE RefWrite(p)
  <2>1. Doing(p, "ref", "write") /\ Do(p).call = "ref" /\ proc[p].val \in Value /\ proc[p].val # NoCommit
    BY <1>0, <1>6 DEF RefWrite, Doing, ProcType, ProcsOK, ProcOK, HasValue, Do
  <2>2. packed' = packed /\ odb' = odb /\ marks \subseteq marks' /\ (loose' = loose \/ SetRef(p, proc[p].val))
    BY <1>6 DEF RefWrite, Mark
  <2>3. Clean
    BY <2>2, MarksStay
  <2>4. Holds(odb, Tgt(proc[p]), proc[p].val)
    BY <1>0, <2>1, <2>3 DEF SInv, Sound, Good, ValueOK, Do
  <2>5. Do(p).repo = Tgt(proc[p])
    BY <1>0, <2>1, AtCall DEF Fits, AtTgt
  <2>6. CASE loose' = loose
    BY <1>2, <1>3, <2>2, <2>6
  <2>7. CASE SetRef(p, proc[p].val)
    <3>1. proc[p].val \in Commits
      BY <2>1 DEF Commits, Value, NoCommit
    <3>2. loose'[r][n] = IF r = Do(p).repo /\ n = FileOf(Do(p).name) THEN proc[p].val ELSE loose[r][n]
      BY <1>0, <2>1, <2>7, <3>1, SetRefIs
    <3>3. CASE r = Do(p).repo
      BY <1>2, <2>2, <2>4, <2>5, <3>2, <3>3
    <3>4. CASE r # Do(p).repo
      BY <1>2, <1>3, <2>2, <3>2, <3>4
    <3> QED BY <3>3, <3>4
  <2> QED BY <2>2, <2>6, <2>7
<1>7. CASE RmUnlink(p)
  <2>1. loose' = loose \/ SetRef(p, Absent)
    BY <1>7 DEF RmUnlink
  <2>2. packed' = packed /\ Do(p).call = "remove"
    BY <1>7 DEF RmUnlink, Doing
  <2>3. loose'[r][n] \in {Absent, loose[r][n]}
    BY <1>0, <2>1, <2>2, SetRefIs
  <2> QED BY <1>2, <1>3, <2>2, <2>3
<1>8. CASE Receive(p)
  <2>1. packed' = packed
    BY <1>8 DEF Receive
  <2>2. CASE loose' = loose
    BY <1>2, <1>3, <2>1, <2>2
  <2>3. ASSUME NEW done, NEW end, Served(p, done, end)
        PROVE  /\ IsCommit(loose'[r][n]) => Holds(odb', r, loose'[r][n])
               /\ Holds(odb', r, packed'[r][n])
    <3>1. CASE loose'[r][n] = loose[r][n]
      BY <1>2, <1>3, <2>1, <3>1
    <3>2. CASE loose'[r][n] # loose[r][n]
      <4>1. PICK e \in done : e[2] = loose'[r][n] /\ r = Do(p).repo
        BY <1>0, <2>3, <3>2, ServedRefs
      <4>2. odb' = [odb EXCEPT ![r] = odb[r] \cup proc[p].list]
            /\ History(e[2]) \subseteq odb[r] \cup proc[p].list
        BY <2>3, <4>1 DEF Served
      <4>3. odb'[r] = odb[r] \cup proc[p].list
        BY <4>2 DEF Types, OdbOK
      <4>4. Holds(odb', r, e[2])
        BY <4>2, <4>3 DEF Holds
      <4> QED BY <1>2, <2>1, <4>1, <4>4
    <3> QED BY <3>1, <3>2
  <2> QED BY <1>8, <2>2, <2>3, ReceiveIs
<1> QED BY <1>4, <1>5, <1>6, <1>7, <1>8 DEF Loud

\* All of it is kept by every step.
LEMMA SoundStep ==
    ASSUME Types, SInv, Losses, NEW p \in Procs, StepOf(p)
    PROVE  SInv' /\ Gains(p) /\ Kindred(p)
<1>1. Kindred(p) /\ Gains(p) /\ Sound(p)'
  BY StepSound
<1>2. \A q \in Procs : Sound(q)'
  BY <1>1, OthersSound
<1>3. Rooted'
  BY <1>1, HollowStays DEF SInv
<1>4. Clean' => \A r \in Repos : Closed(r)'
  BY <1>1, ClosedStep
<1> QED BY <1>1, <1>2, <1>3, <1>4 DEF SInv

-----------------------------------------------------------------------------
(* The index files.                                                        *)

\* What is in the files of r's index is stored.
FilesStored ==
    ~Marked("dropped") =>
        \A r \in Repos, i \in {0} \cup Procs : Uses(r, i) => \A c \in ToSet(disk[i]) : Has(odb, r, c)

\* A write brings nothing to a file but what is written.
LEMMA WriteSet ==
    ASSUME NEW c \in Value, NEW new, new = Content(c) \/ new = SubSeq(Content(c), 1, 1), NEW old \in Seq(Value)
    PROVE  ToSet(Overlay(new, old)) \subseteq ToSet(old) \cup {c}
<1>1. PICK a : a = Content(c)
  OBVIOUS
<1>2. a \in Seq(Value) /\ a # <<>> /\ Len(a) \in Nat /\ Len(a) # 0
  BY <1>1, ContentOK, EmptySeq
<1>3. \A i \in DOMAIN a : a[i] = c
  BY <1>1 DEF Content
<1>4. new \in Seq(Value) /\ \A i \in DOMAIN new : new[i] = c
  <2>1. CASE new = a
    BY <1>2, <1>3, <2>1
  <2>2. CASE new = SubSeq(a, 1, 1)
    <3>1. \A i \in 1..1 : i \in DOMAIN a
      BY <1>2
    <3> QED BY <1>2, <1>3, <2>2, <3>1
  <2> QED BY <1>1, <2>1, <2>2
<1>5. PICK b : b = SubSeq(old, Len(new) + 1, Len(old))
  OBVIOUS
<1>6. b \in Seq(Value) /\ \A i \in DOMAIN b : \E j \in DOMAIN old : b[i] = old[j]
  <2>1. Len(new) \in Nat /\ Len(old) \in Nat /\ DOMAIN old = 1..Len(old)
    BY <1>4
  <2>2. b \in Seq(Value)
    BY <1>5, <2>1, SubSeqProperties
  <2>3. ASSUME NEW i \in DOMAIN b PROVE \E j \in DOMAIN old : b[i] = old[j]
    <3>1. CASE Len(new) + 1 <= Len(old)
      <4>1. Len(b) = Len(old) - Len(new) /\ \A k \in 1..(Len(old) - Len(new)) : b[k] = old[Len(new) + k]
        BY <1>5, <2>1, <3>1, SubSeqProperties
      <4>2. i \in 1..(Len(old) - Len(new))
        BY <2>2, <4>1
      <4>3. Len(new) + i \in DOMAIN old
        BY <2>1, <4>2
      <4> QED BY <4>1, <4>2, <4>3
    <3>2. CASE ~(Len(new) + 1 <= Len(old))
      <4>1. Len(b) = 0
        BY <1>5, <2>1, <3>2
      <4>2. DOMAIN b = {}
        BY <2>2, <4>1
      <4> QED BY <4>2
    <3> QED BY <3>1, <3>2
  <2> QED BY <2>2, <2>3
<1>7. Overlay(new, old) = new \o b
  BY <1>5 DEF Overlay
<1>8. ToSet(new \o b) \subseteq ToSet(new) \cup ToSet(b)
  BY <1>4, <1>6, ConcatSet
<1>9. ToSet(new) \subseteq {c} /\ ToSet(b) \subseteq ToSet(old)
  BY <1>4, <1>6 DEF ToSet
<1> QED BY <1>7, <1>8, <1>9

\* Steps on the lock: whose file is which, and what is in it.
LEMMA UsesStep ==
    ASSUME IInv, NEW p \in Procs, StepOf(p), NEW r \in Repos, NEW i \in {0} \cup Procs, Uses(r, i)'
    PROVE  \/ Uses(r, i) /\ disk'[i] = disk[i]
           \/ disk'[i] = <<>>
           \/ /\ Uses(r, i) /\ Locking(p, r) /\ proc[p].mem \in Value
              /\ ToSet(disk'[i]) \subseteq ToSet(disk[i]) \cup {proc[p].mem}
<1>1. TInv /\ Types /\ Apart /\ Unused /\ TreeOK /\ ProcsOK /\ proc[p] \in ProcType
  BY DEF IInv, TInv, Types, ProcsOK
<1>2. ASSUME AllMild, disk'[i] = disk[i], idx' = idx, lock' = lock
      PROVE  Uses(r, i) /\ disk'[i] = disk[i]
  BY <1>2, MildLocks DEF Uses
<1>3. CASE RefNext(p) /\ UNCHANGED treeVars
  BY <1>1, <1>2, <1>3, RefSteps
<1>4. CASE OtherNext(p)
  BY <1>1, <1>2, <1>4, OtherSteps, PlainIsMild
<1>5. CASE LockOpen(p)
  <2>1. idx' = idx /\ proc[p].at = "call"
    BY <1>5 DEF LockOpen, Doing
  <2>2. CASE AllPlain /\ UNCHANGED <<lock, disk, idx, marks>>
    BY <1>2, <2>2, PlainIsMild
  <2>3. CASE /\ \A q \in Procs \ {p} : proc'[q] = proc[q]
             /\ proc'[p].fd = Inode(p)
             /\ lock' = [lock EXCEPT ![Do(p).repo] = Inode(p)]
             /\ disk' = [disk EXCEPT ![Inode(p)] = <<>>]
    <3>1. CASE i = Inode(p)
      <4>1. disk'[i] = <<>>
        BY <1>1, <2>3, <3>1 DEF TreeOK
      <4> QED BY <4>1
    <3>2. CASE i # Inode(p)
      <4>1. disk'[i] = disk[i]
        BY <1>1, <2>3, <3>2 DEF TreeOK
      <4>2. lock'[r] = lock[r] \/ lock'[r] = Inode(p)
        BY <1>1, <2>3 DEF TreeOK
      <4>3. ASSUME NEW q \in Procs, Locking(q, r)', proc'[q].fd = i PROVE Locking(q, r) /\ proc[q].fd = i
        <5>1. proc'[q] = proc[q]
          BY <2>3, <3>2, <4>3
        <5> QED BY <4>3, <5>1 DEF Locking, Doing, Do
      <4> QED BY <2>1, <3>2, <4>1, <4>2, <4>3 DEF Uses
    <3> QED BY <3>1, <3>2
  <2> QED BY <1>1, <1>5, <2>2, <2>3, LockOpenOK
<1>6. CASE LockWrite(p)
  <2>1. /\ idx' = idx /\ proc[p].todo # <<>> /\ Do(p).call = "index_write" /\ proc[p].at = "write"
        /\ Locking(p, Do(p).repo) /\ proc[p].mem \in Value /\ Do(p).repo \in Repos
    BY <1>1, <1>6, DoOK DEF LockWrite, Doing, Locking, ProcType
  <2>2. proc[p].fd \in {0} \cup Procs /\ Uses(Do(p).repo, proc[p].fd)
    BY <1>1, <2>1, LockerUses
  <2>3. PICK new : /\ new = Content(proc[p].mem) \/ new = SubSeq(Content(proc[p].mem), 1, 1)
                   /\ disk' = [disk EXCEPT ![proc[p].fd] = Overlay(new, @)]
                   /\ \/ Becomes(p, Goes(proc[p], "rename")) /\ lock' = lock
                      \/ Becomes(p, Failed(proc[p])) /\ lock' = [lock EXCEPT ![Do(p).repo] = NoFile]
    BY <1>6 DEF LockWrite
  <2>4. lock'[r] = lock[r] \/ lock'[r] = NoFile
    BY <1>1, <2>1, <2>3 DEF TreeOK
  <2>5. ASSUME NEW q \in Procs, Locking(q, r)' PROVE Locking(q, r) /\ proc'[q].fd = proc[q].fd
    <3>1. CASE q # p
      <4>1. proc'[q] = proc[q]
        BY <1>1, <2>3, <3>1 DEF Becomes, ProcsOK
      <4> QED BY <2>5, <4>1 DEF Locking, Doing, Do
    <3>2. CASE q = p /\ Becomes(p, Goes(proc[p], "rename"))
      <4>1. proc'[p].todo = proc[p].todo /\ proc'[p].fd = proc[p].fd
        BY <1>1, <3>2, BecomesIs DEF Goes, ProcType
      <4> QED BY <2>1, <2>5, <3>2, <4>1 DEF Locking, Doing, Do
    <3>3. CASE q = p /\ Becomes(p, Failed(proc[p]))
      <4>1. proc'[p].at = "call"
        BY <1>1, <2>1, <3>3, BecomesIs, BackToCall
      <4> QED BY <2>5, <3>3, <4>1 DEF Locking, Doing
    <3> QED BY <2>3, <3>1, <3>2, <3>3
  <2>6. Uses(r, i)
    BY <2>1, <2>4, <2>5 DEF Uses
  <2>7. CASE i # proc[p].fd
    <3>1. disk'[i] = disk[i]
      BY <1>1, <2>3, <2>7 DEF TreeOK
    <3> QED BY <2>6, <3>1
  <2>8. CASE i = proc[p].fd
    <3>1. r = Do(p).repo
      BY <1>1, <2>1, <2>2, <2>6, <2>8 DEF Apart
    <3>2. disk[i] \in Seq(Value) /\ disk'[i] = Overlay(new, disk[i])
      BY <1>1, <2>3, <2>8 DEF TreeOK
    <3>3. ToSet(disk'[i]) \subseteq ToSet(disk[i]) \cup {proc[p].mem}
      BY <2>1, <2>3, <3>2, WriteSet
    <3> QED BY <2>1, <2>6, <3>1, <3>3
  <2> QED BY <2>7, <2>8
<1>7. CASE LockRename(p)
  <2>1. /\ AllPlain /\ TreeOK' /\ lock' = [lock EXCEPT ![Do(p).repo] = NoFile] /\ disk' = disk
        /\ \/ idx' = idx
           \/ lock[Do(p).repo] # NoFile /\ idx' = [idx EXCEPT ![Do(p).repo] = lock[Do(p).repo]]
    BY <1>1, <1>7, LockRenameOK DEF LockRename
  <2>2. AllMild
    BY <2>1, PlainIsMild
  <2>3. lock'[r] = lock[r] \/ lock'[r] = NoFile
    BY <1>1, <2>1 DEF TreeOK
  <2>4. idx'[r] = idx[r] \/ idx'[r] = lock[r]
    BY <1>1, <2>1 DEF TreeOK
  <2> QED BY <2>1, <2>2, <2>3, <2>4, MildLocks DEF Uses
<1> QED BY <1>3, <1>4, <1>5, <1>6, <1>7 DEF StepOf

\* It still is.
LEMMA FilesStep ==
    ASSUME IInv, SInv, FilesStored, NEW p \in Procs, StepOf(p), Gains(p)
    PROVE  FilesStored'
<1> SUFFICES ASSUME ~Marked("dropped")', NEW r \in Repos, NEW i \in {0} \cup Procs, Uses(r, i)',
                    NEW c \in ToSet(disk'[i])
             PROVE  Has(odb', r, c)
  BY DEF FilesStored
<1>1. Types /\ ~Marked("dropped") /\ odb[r] \subseteq odb'[r]
  BY MarksStay DEF IInv, TInv, Gains
<1>2. Has(odb, r, c) => Has(odb', r, c)
  BY <1>1 DEF Has
<1>3. Uses(r, i) /\ c \in ToSet(disk[i]) => Has(odb, r, c)
  BY <1>1 DEF FilesStored
<1>4. CASE disk'[i] = <<>>
  <2>1. ToSet(<<>>) = {}
    BY DEF ToSet
  <2> QED BY <1>4, <2>1
<1>5. CASE Locking(p, r) /\ c = proc[p].mem
  <2>1. proc[p].todo # <<>> /\ Do(p).call = "index_write" /\ Do(p).repo = r
    BY <1>5 DEF Locking, Doing
  <2>2. r = proc[p].home
    BY <1>1, <2>1, AtCall DEF Fits, AtHome
  <2>3. Has(odb, proc[p].home, proc[p].mem)
    BY <1>1 DEF SInv, Sound, TreeOf
  <2> QED BY <1>2, <1>5, <2>2, <2>3
<1> QED BY <1>2, <1>3, <1>4, <1>5, UsesStep

-----------------------------------------------------------------------------
(* Failures and marks.                                                     *)

\* Every step is fine or a fault.
LEMMA FineOrFault ==
    ASSUME NEW p, StepOf(p)
    PROVE  Fine \/ Fault
<1>1. CASE RefNext(p)
  BY <1>1 DEF RefNext, Lookup, ReadHead, RefSkip, RefStat, RefOld, RefOpen, RefWrite, RefLog, RmOld, RmUnlink,
              RmLog, AddToLog
<1>2. CASE LockOpen(p) \/ LockWrite(p) \/ LockRename(p)
  BY <1>2 DEF LockOpen, LockWrite, LockRename
<1>3. CASE LoadTree(p) \/ TreeOpen(p) \/ FileOpen(p) \/ FileWrite(p)
  BY <1>3 DEF LoadTree, TreeOpen, FileOpen, FileWrite
<1>4. CASE Stage(p) \/ WriteTrees(p) \/ MakeCommit(p) \/ Peel(p) \/ CopyList(p) \/ CopyObjects(p)
  BY <1>4 DEF Stage, WriteTrees, MakeCommit, Peel, CopyList, CopyObjects, Store
<1>5. CASE Decide(p)
  BY <1>5 DEF Decide
<1>6. CASE CopyRefs(p) \/ RemoteHead(p) \/ BundleRefs(p) \/ BundleRef(p) \/ BundlePack(p)
  BY <1>6 DEF CopyRefs, RemoteHead, BundleRefs, BundleRef, BundlePack
<1>7. CASE Unbundle(p)
  BY <1>7 DEF Unbundle, Store
<1>8. CASE Bundled(p) \/ Advert(p) \/ UnpackOne(p)
  BY <1>8 DEF Bundled, Advert, UnpackOne, Store
<1>9. CASE Request(p)
  BY <1>9 DEF Request
<1>10. CASE Receive(p)
  BY <1>10 DEF Receive
<1>11. CASE Crash(p)
  BY <1>11 DEF Crash
<1> QED BY <1>1, <1>2, <1>3, <1>4, <1>5, <1>6, <1>7, <1>8, <1>9, <1>10, <1>11 DEF StepOf, OtherNext

\* As long as nothing has failed, nothing has.
LEMMA NoFault ==
    ASSUME FaultsOK, NEW p, StepOf(p), faults' = MaxFaults
    PROVE  faults = MaxFaults /\ ~Fault
  BY FineOrFault, RepositoryConstants DEF FaultsOK, Fine, Fault

\* What a store marks.
LEMMA StoreMarks ==
    ASSUME NEW r, NEW new, Store(r, new), ~Fault, NEW m \in marks', m \notin marks
    PROVE  m[1] \notin {"dropped", "want"}
<1>1. Mark(<<"late", r>>)
  BY DEF Store
<1>2. m = <<"late", r>>
  BY <1>1 DEF Mark
<1> QED BY <1>2

\* What a list of objects marks.
LEMMA ListMarks ==
    ASSUME NEW p \in Procs, CopyList(p) \/ BundlePack(p), ~Fault, NEW m \in marks', m \notin marks
    PROVE  m[1] \notin {"dropped", "want"}
<1>1. PICK r : MarkUnlisted(r)
  BY DEF CopyList, BundlePack
<1>2. m = <<"unlisted", r>>
  BY <1>1 DEF MarkUnlisted, Mark
<1> QED BY <1>2

\* The marks of a step without a fault.
LEMMA FreshMarks ==
    ASSUME NEW p \in Procs, StepOf(p), ~Fault, NEW m \in marks', m \notin marks, ~Request(p)
    PROVE  m[1] \notin {"dropped", "want"}
<1>1. CASE RefNext(p)
  BY <1>1 DEF RefNext, Lookup, ReadHead, RefSkip, RefStat, RefOld, RefOpen, RefWrite, RefLog, RmOld, RmUnlink,
              RmLog, AddToLog
<1>2. CASE LockOpen(p)
  <2>1. Mark(<<"shared", Do(p).repo>>)
    BY <1>2 DEF LockOpen
  <2>2. m = <<"shared", Do(p).repo>>
    BY <2>1 DEF Mark
  <2> QED BY <2>2
<1>3. CASE LockWrite(p) \/ LockRename(p) \/ LoadTree(p) \/ TreeOpen(p) \/ FileOpen(p) \/ FileWrite(p)
  BY <1>3 DEF LockWrite, LockRename, LoadTree, TreeOpen, FileOpen, FileWrite
<1>4. CASE WriteTrees(p) \/ Peel(p) \/ Decide(p)
  BY <1>4 DEF WriteTrees, Peel, Decide
<1>12. CASE CopyList(p) \/ BundlePack(p)
  BY <1>12, ListMarks
<1>5. CASE Stage(p) \/ MakeCommit(p) \/ CopyObjects(p)
  BY <1>5, StoreMarks DEF Stage, MakeCommit, CopyObjects
<1>6. CASE CopyRefs(p) \/ RemoteHead(p) \/ BundleRefs(p) \/ BundleRef(p)
  BY <1>6 DEF CopyRefs, RemoteHead, BundleRefs, BundleRef
<1>7. CASE Unbundle(p)
  BY <1>7, StoreMarks DEF Unbundle
<1>8. CASE Bundled(p) \/ Advert(p)
  BY <1>8 DEF Bundled, Advert
<1>9. CASE UnpackOne(p)
  BY <1>9, StoreMarks DEF UnpackOne
<1>10. CASE Receive(p)
  <2>1. Mark(<<"unlogged", "server">>)
    BY <1>10, ReceiveIs DEF Served
  <2>2. m = <<"unlogged", "server">>
    BY <2>1 DEF Mark
  <2> QED BY <2>2
<1>11. CASE Crash(p)
  BY <1>11 DEF Crash
<1> QED BY <1>1, <1>2, <1>3, <1>4, <1>5, <1>6, <1>7, <1>8, <1>9, <1>10, <1>11, <1>12 DEF StepOf, OtherNext

\* Who stores objects.
LEMMA SameOdb ==
    ASSUME NEW p \in Procs, StepOf(p), ~Stage(p), ~MakeCommit(p), ~CopyObjects(p), ~Unbundle(p), ~UnpackOne(p),
           ~Receive(p)
    PROVE  odb' = odb
<1>1. CASE RefNext(p)
  BY <1>1 DEF RefNext, Lookup, ReadHead, RefSkip, RefStat, RefOld, RefOpen, RefWrite, RefLog, RmOld, RmUnlink,
              RmLog
<1>2. CASE LockOpen(p) \/ LockWrite(p) \/ LockRename(p)
  BY <1>2 DEF LockOpen, LockWrite, LockRename
<1>3. CASE LoadTree(p) \/ TreeOpen(p) \/ FileOpen(p) \/ FileWrite(p)
  BY <1>3 DEF LoadTree, TreeOpen, FileOpen, FileWrite
<1>4. CASE WriteTrees(p) \/ Peel(p) \/ CopyList(p) \/ Decide(p)
  BY <1>4 DEF WriteTrees, Peel, CopyList, Decide
<1>6. CASE CopyRefs(p) \/ RemoteHead(p) \/ BundleRefs(p) \/ BundleRef(p) \/ BundlePack(p)
  BY <1>6 DEF CopyRefs, RemoteHead, BundleRefs, BundleRef, BundlePack
<1>8. CASE Bundled(p) \/ Advert(p) \/ Request(p)
  BY <1>8 DEF Bundled, Advert, Request
<1>11. CASE Crash(p)
  BY <1>11 DEF Crash
<1> QED BY <1>1, <1>2, <1>3, <1>4, <1>6, <1>8, <1>11 DEF StepOf, OtherNext

-----------------------------------------------------------------------------
(* Lists of objects.                                                       *)

\* The list of objects stays or goes.
Lists(s, t) == t.list \in {s.list, {}}

\* So it does when a call returns, fails or ends its command.
LEMMA ListCalls ==
    ASSUME NEW s \in ProcType, s.todo # <<>>
    PROVE  /\ Lists(s, Returned(s)) /\ Lists(s, Failed(s))
           /\ \A e : Lists(s, Ended(s, e))
           /\ \A a : Lists(s, Goes(s, a))
           /\ \A calls : Lists(s, Loop(s, calls))
           /\ \A v : Lists(s, [s EXCEPT !.todo = v, !.at = "call"])
           /\ \A v : Lists(s, Returned([s EXCEPT !.val = v])) /\ Lists(s, Failed([s EXCEPT !.val = v]))
           /\ \A v : LET u == [s EXCEPT !.head = v, !.seen = v]
                     IN  Lists(s, Returned(u)) /\ Lists(s, Failed(u))
           /\ \A v : Lists(s, Returned([s EXCEPT !.mem = v])) /\ Lists(s, Failed([s EXCEPT !.mem = v]))
           /\ \A v : Lists(s, Returned([s EXCEPT !.bundle = v]))
           /\ \A v : Lists(s, Returned([s EXCEPT !.adv = v]))
<1>1. s.todo[1].onerr \in {"go", "stop", "end"}
  BY EmptySeq DEF ProcType, CallType
<1> DEFINE OK(u) == u.list = s.list /\ DOMAIN u = DOMAIN s /\ u = [f \in DOMAIN s |-> u[f]] /\ u.todo = s.todo
<1>2. ASSUME NEW u, OK(u)
      PROVE  Lists(s, Returned(u)) /\ Lists(s, Failed(u)) /\ (\A a : Lists(s, Goes(u, a)))
             /\ (\A e : Lists(s, Ended(u, e))) /\ (\A calls : Lists(s, Loop(u, calls)))
  <2>0. {"cmd", "home", "todo", "at", "old", "lost", "list"} \subseteq DOMAIN u
    BY <1>2 DEF ProcType
  <2>1. \A e : Lists(s, Ended(u, e))
    BY <1>2 DEF Lists, Ended, Idle
  <2>2. Lists(s, Returned(u))
    BY <1>2, <2>0, <2>1 DEF Returned, Lists
  <2>3. Lists(s, Failed(u))
    BY <1>1, <1>2, <2>1, <2>2 DEF Failed
  <2>4. \A a : Lists(s, Goes(u, a))
    BY <1>2, <2>0 DEF Lists, Goes
  <2>5. \A calls : Lists(s, Loop(u, calls))
    BY <1>2, <2>0, <2>1 DEF Loop, Lists
  <2> QED BY <2>1, <2>2, <2>3, <2>4, <2>5
<1>3. OK(s)
  BY DEF ProcType
<1>4. \A v : OK([s EXCEPT !.val = v]) /\ OK([s EXCEPT !.mem = v])
  BY DEF ProcType
<1>5. \A v : OK([s EXCEPT !.head = v, !.seen = v])
  BY DEF ProcType
<1>6. \A v : OK([s EXCEPT !.bundle = v]) /\ OK([s EXCEPT !.adv = v])
  BY DEF ProcType
<1>7. \A v : Lists(s, [s EXCEPT !.todo = v, !.at = "call"])
  BY DEF Lists, ProcType
<1> HIDE DEF OK
<1> QED BY <1>2, <1>3, <1>4, <1>5, <1>6, <1>7

\* So it does in all steps but those that make one or take from one.
LEMMA ListStays ==
    ASSUME Types, NEW p \in Procs, StepOf(p), ~CopyList(p), ~BundlePack(p), ~Request(p), ~UnpackOne(p)
    PROVE  Lists(proc[p], proc'[p])
<1> DEFINE s == proc[p]
<1>1. ProcsOK /\ s \in ProcType /\ s.todo # <<>>
  BY OneSteps DEF Types, ProcsOK, Kindred
<1>2. ASSUME NEW t, Becomes(p, t), Lists(s, t) PROVE Lists(s, proc'[p])
  BY <1>1, <1>2, BecomesIs
<1>3. /\ Lists(s, Returned(s)) /\ Lists(s, Failed(s)) /\ (\A a : Lists(s, Goes(s, a)))
      /\ (\A e : Lists(s, Ended(s, e))) /\ (\A calls : Lists(s, Loop(s, calls)))
  BY <1>1, ListCalls
<1>4. CASE RefSkip(p) \/ RefStat(p) \/ RefOld(p) \/ RefOpen(p) \/ RefWrite(p) \/ RefLog(p)
             \/ RmOld(p) \/ RmUnlink(p) \/ RmLog(p)
  BY <1>4, RefQuiets DEF Quiets, Turn, Over, After, Stays, Same, Lists
<1>5. CASE TreeOpen(p) \/ FileOpen(p) \/ FileWrite(p) \/ LockOpen(p) \/ LockWrite(p) \/ LockRename(p)
              \/ WriteTrees(p)
  BY <1>5, TreeQuiets DEF Quiets, Turn, Over, After, Stays, Same, Lists
<1>6. CASE Lookup(p) \/ MakeCommit(p) \/ Bundled(p)
  <2>1. PICK v : Becomes(p, Returned([s EXCEPT !.val = v])) \/ Becomes(p, Failed([s EXCEPT !.val = v]))
    BY <1>6 DEF Lookup, MakeCommit, Bundled
  <2> QED BY <1>1, <1>2, <2>1, ListCalls
<1>7. CASE ReadHead(p)
  <2>1. PICK v : \/ Becomes(p, Returned([s EXCEPT !.head = v, !.seen = v]))
                 \/ Becomes(p, Failed([s EXCEPT !.head = v, !.seen = v]))
    BY <1>7 DEF ReadHead
  <2> QED BY <1>1, <1>2, <2>1, ListCalls
<1>8. CASE LoadTree(p) \/ Stage(p)
  <2>1. PICK v : Becomes(p, Returned([s EXCEPT !.mem = v])) \/ Becomes(p, Failed([s EXCEPT !.mem = v]))
    BY <1>8 DEF LoadTree, Stage
  <2> QED BY <1>1, <1>2, <2>1, ListCalls
<1>9. CASE Peel(p) \/ CopyObjects(p)
  BY <1>2, <1>3, <1>9 DEF Peel, CopyObjects
<1>10. CASE Decide(p)
  <2>1. PICK v, e : Becomes(p, [s EXCEPT !.todo = v, !.at = "call"]) \/ Becomes(p, Ended(s, e))
    <3>1. Decide(p)!2
      BY <1>10 DEF Decide
    <3> QED BY <3>1
  <2> QED BY <1>1, <1>2, <2>1, ListCalls
<1>11. CASE CopyRefs(p) \/ BundleRefs(p)
  BY <1>2, <1>3, <1>11 DEF CopyRefs, BundleRefs
<1>12. CASE RemoteHead(p)
  <2>1. PICK v : \/ Becomes(p, Returned([s EXCEPT !.val = v])) \/ Becomes(p, Goes(s, "branch"))
    BY <1>12 DEF RemoteHead
  <2> QED BY <1>1, <1>2, <2>1, ListCalls
<1>13. CASE BundleRef(p)
  <2>1. PICK v : Becomes(p, Returned([s EXCEPT !.bundle = v]))
    BY <1>13 DEF BundleRef
  <2> QED BY <1>1, <1>2, <2>1, ListCalls
<1>14. CASE Unbundle(p)
  <2>1. PICK v : Becomes(p, Loop(s, v)) \/ Becomes(p, Failed(s))
    BY <1>14 DEF Unbundle
  <2> QED BY <1>2, <1>3, <2>1
<1>15. CASE Advert(p)
  <2>1. PICK v : Becomes(p, Returned([s EXCEPT !.adv = v])) \/ Becomes(p, Failed(s))
    BY <1>15 DEF Advert
  <2> QED BY <1>1, <1>2, <2>1, ListCalls
<1>16. CASE Receive(p)
  <2>1. proc'[p] \in {Returned(s), Failed(s)}
    <3>1. CASE Becomes(p, Failed(s))
      BY <1>1, <3>1, BecomesIs
    <3>2. ASSUME NEW done, NEW end \in {Returned(s), Failed(s)}, Served(p, done, end)
          PROVE  proc'[p] \in {Returned(s), Failed(s)}
      BY <3>2 DEF Served
    <3> QED BY <1>16, <3>1, <3>2, ReceiveIs
  <2> QED BY <1>3, <2>1
<1>17. CASE Crash(p)
  BY <1>2, <1>3, <1>17 DEF Crash
<1> QED BY <1>4, <1>5, <1>6, <1>7, <1>8, <1>9, <1>10, <1>11, <1>12, <1>13, <1>14, <1>15, <1>16,
           <1>17 DEF StepOf, RefNext, OtherNext

-----------------------------------------------------------------------------
(* What is on its way over the wire.                                       *)

\* What r has, or will have when those that fetch over the wire are done.
Due(r) == odb[r] \cup {c \in Commits : \E q \in Procs : /\ proc[q].cmd = "fetch_wire" /\ proc[q].home = r
                                                        /\ c \in proc[q].list}
\* As long as nothing failed: it has every history, what others are about to store too,
\* a fetch has a list only while it unpacks it, and what fetches asked for is on its way.
Portable(s, O) == s.cmd # "fetch_wire" => \A c \in s.list : History(c) \subseteq s.list \cup O[Tgt(s)]
Unpacking(s) == s.cmd = "fetch_wire" /\ s.at # "unpack" => s.list = {}
Wire ==
    /\ \A r \in Repos : \A c \in Due(r) : History(c) \subseteq Due(r)
    /\ \A p \in Procs : Portable(proc[p], odb) /\ Unpacking(proc[p])
    /\ \A m \in marks : m[1] = "want" => History(m[2]) \subseteq Due("local")
WireInv == /\ faults = MaxFaults => ~Marked("dropped")
           /\ faults = MaxFaults /\ Clean => Wire

\* The other processes, but for a file that is gone.
LEMMA OtherLists ==
    ASSUME Types, NEW p \in Procs, Kindred(p), NEW q \in Procs, q # p
    PROVE  /\ proc'[q].list = proc[q].list /\ proc'[q].cmd = proc[q].cmd /\ proc'[q].home = proc[q].home
           /\ proc'[q].at = proc[q].at /\ Tgt(proc'[q]) = Tgt(proc[q])
<1>1. proc'[q] \in {proc[q], [proc[q] EXCEPT !.lost = TRUE]} /\ proc[q] \in ProcType
  BY DEF Kindred, Types, ProcsOK
<1>2. Alike(proc[q], proc'[q])
  BY <1>1, LostAlike
<1>3. Kin(proc[q], proc'[q])
  BY <1>2 DEF Alike, Same
<1> QED BY <1>2, <1>3, KinSame DEF Alike, Same, Kin

\* What is due stays due.
LEMMA DueGrows ==
    ASSUME Types, NEW p \in Procs, Kindred(p), Gains(p), NEW r \in Repos,
           proc[p].cmd = "fetch_wire" => proc[p].list \subseteq proc'[p].list \cup odb'[proc[p].home]
    PROVE  Due(r) \subseteq Due(r)'
<1> PICK s, t, O, P : s = proc[p] /\ t = proc'[p] /\ O = odb /\ P = odb'
  OBVIOUS
<1>1. /\ \A x \in Repos : O[x] \subseteq P[x]
      /\ Kin(s, t) /\ s \in ProcType
  BY DEF Gains, Types, OdbOK, Kindred, ProcsOK
<1>2. ASSUME NEW q \in Procs, q # p
      PROVE  /\ proc'[q].list = proc[q].list /\ proc'[q].cmd = proc[q].cmd /\ proc'[q].home = proc[q].home
             /\ proc'[q].at = proc[q].at /\ Tgt(proc'[q]) = Tgt(proc[q])
  BY <1>2, OtherLists
<1> SUFFICES ASSUME NEW c \in Due(r) PROVE c \in Due(r)'
  OBVIOUS
<1>3. CASE c \in O[r]
  BY <1>1, <1>3 DEF Due
<1>4. CASE c \notin O[r]
  <2>1. PICK q \in Procs : proc[q].cmd = "fetch_wire" /\ proc[q].home = r /\ c \in proc[q].list /\ c \in Commits
    BY <1>4 DEF Due
  <2>2. CASE q # p
    BY <1>2, <2>1, <2>2 DEF Due
  <2>3. CASE q = p
    <3>1. c \in t.list \cup P[r] /\ t.cmd = "fetch_wire" /\ t.home = r
      BY <1>1, <2>1, <2>3 DEF Kin
    <3> QED BY <2>1, <3>1 DEF Due
  <2> QED BY <2>2, <2>3
<1> QED BY <1>3, <1>4

\* What a step has to keep.
LEMMA WireKept ==
    ASSUME Types, Types', NEW p \in Procs, Kindred(p), Gains(p), Wire,
           Portable(proc'[p], odb'), Unpacking(proc'[p]),
           proc[p].cmd = "fetch_wire" =>
              /\ proc[p].list \subseteq proc'[p].list \cup odb'[proc[p].home]
              /\ \A c \in proc'[p].list : c \in proc[p].list \/ History(c) \subseteq Due(proc[p].home)',
           \A r \in Repos : \A c \in odb'[r] \ odb[r] : c \in Due(r) \/ History(c) \subseteq Due(r)',
           \A m \in marks' : m[1] = "want" => m \in marks \/ History(m[2]) \subseteq Due("local")'
    PROVE  Wire'
<1> PICK s, t, O, P : s = proc[p] /\ t = proc'[p] /\ O = odb /\ P = odb'
  OBVIOUS
<1>1. /\ \A r \in Repos : O[r] \subseteq P[r]
      /\ Kin(s, t) /\ s \in ProcType
  BY DEF Gains, Types, OdbOK, Kindred, ProcsOK
<1>2. ASSUME NEW q \in Procs, q # p
      PROVE  /\ proc'[q].list = proc[q].list /\ proc'[q].cmd = proc[q].cmd /\ proc'[q].home = proc[q].home
             /\ proc'[q].at = proc[q].at /\ Tgt(proc'[q]) = Tgt(proc[q])
  BY <1>2, OtherLists
<1>3. \A r \in Repos : Due(r) \subseteq Due(r)'
  BY DueGrows
<1>4. ASSUME NEW r \in Repos, NEW c \in Due(r)' PROVE History(c) \subseteq Due(r)'
  <2>1. CASE c \in Due(r)
    BY <1>3, <2>1 DEF Wire
  <2>2. CASE c \notin Due(r) /\ c \in P[r]
    <3>1. c \notin O[r]
      BY <2>2 DEF Due
    <3> QED BY <2>2, <3>1
  <2>3. CASE c \notin Due(r) /\ c \notin P[r]
    <3>1. PICK q \in Procs : proc'[q].cmd = "fetch_wire" /\ proc'[q].home = r /\ c \in proc'[q].list /\ c \in Commits
      BY <1>4, <2>3 DEF Due
    <3>2. CASE q # p
      BY <1>2, <2>3, <3>1, <3>2 DEF Due
    <3>3. CASE q = p
      <4>1. s.cmd = "fetch_wire" /\ s.home = r /\ c \in t.list /\ t.home = r
        BY <1>1, <3>1, <3>3 DEF Kin
      <4>2. /\ c \notin proc[p].list /\ c \in proc'[p].list /\ proc[p].cmd = "fetch_wire" /\ proc[p].home = r
            /\ proc'[p].home = r
        BY <2>3, <3>1, <3>3, <4>1 DEF Due
      <4>3. \A d \in proc'[p].list : d \in proc[p].list \/ History(d) \subseteq Due(proc[p].home)'
        BY <4>2
      <4>4. c \in proc[p].list \/ History(c) \subseteq Due(proc[p].home)'
        BY <4>2, <4>3
      <4> QED BY <4>2, <4>4
    <3> QED BY <3>2, <3>3
  <2> QED BY <2>1, <2>2, <2>3
<1>5. ASSUME NEW q \in Procs PROVE Portable(proc'[q], odb') /\ Unpacking(proc'[q])
  <2>1. CASE q = p
    BY <2>1
  <2>2. CASE q # p
    <3>1. Portable(proc[q], odb) /\ Unpacking(proc[q]) /\ proc[q] \in ProcType
      BY DEF Wire, Types, ProcsOK
    <3>2. Tgt(proc[q]) \in Repos
      BY <3>1, Ends2
    <3> QED BY <1>1, <1>2, <2>2, <3>1, <3>2 DEF Portable, Unpacking
  <2> QED BY <2>1, <2>2
<1>6. ASSUME NEW m \in marks', m[1] = "want" PROVE History(m[2]) \subseteq Due("local")'
  <2>1. "local" \in Repos
    BY DEF Repos
  <2> QED BY <1>3, <1>6, <2>1 DEF Wire
<1> QED BY <1>4, <1>5, <1>6 DEF Wire

\* What a copier or a packer lists can be stored on the other side.
LEMMA Packable ==
    ASSUME Types, SInv, Wire, NEW s \in ProcType, s.cmd \in Copiers \cup {"bundle", "push_wire"}
    PROVE  \A c \in odb[Src(s)] : History(c) \subseteq odb[Src(s)] \cup odb[Tgt(s)]
<1>1. Src(s) \in Repos /\ Tgt(s) \in Repos /\ Tgt(s) = Other(Src(s))
  BY Ends2, Others
<1> SUFFICES ASSUME NEW c \in odb[Src(s)], NEW d \in History(c) PROVE d \in odb[Src(s)] \cup odb[Tgt(s)]
  OBVIOUS
<1>2. d \in Due(Src(s))
  BY <1>1 DEF Wire, Due
<1>3. CASE d \notin odb[Src(s)]
  <2>1. PICK q \in Procs : proc[q].cmd = "fetch_wire" /\ proc[q].home = Src(s) /\ d \in proc[q].list
    BY <1>2, <1>3 DEF Due
  <2>2. proc[q].list \subseteq odb[Src(proc[q])]
    BY DEF SInv, Sound, ListOK
  <2>3. Src(proc[q]) = Other(Src(s))
    BY <2>1 DEF Src
  <2> QED BY <1>1, <2>1, <2>2, <2>3
<1> QED BY <1>3

\* Objects are added to r that it can hold.
Adds(O, P, r, new) == /\ P = [O EXCEPT ![r] = O[r] \cup new]
                      /\ \A c \in new : History(c) \subseteq new \cup O[r]

\* The steps of processes that do not fetch over the wire.
LEMMA WireOthers ==
    ASSUME TInv, SInv, Types', NEW p \in Procs, StepOf(p), Kindred(p), Gains(p), Wire, Clean', ~Fault,
           proc[p].cmd # "fetch_wire"
    PROVE  Wire'
<1> PICK s, t, O, P : s = proc[p] /\ t = proc'[p] /\ O = odb /\ P = odb'
  OBVIOUS
<1>1. /\ \A r \in Repos : O[r] \subseteq P[r] /\ O[r] \subseteq Commits
      /\ Kin(s, t) /\ s \in ProcType /\ t \in ProcType /\ s.todo # <<>> /\ t.cmd = s.cmd /\ Types /\ ProcsOK
      /\ Clean /\ t.cmd # "fetch_wire"
  BY MarksStay DEF Gains, Types, OdbOK, Kindred, ProcsOK, TInv, Kin
<1>2. Tgt(t) = Tgt(s) /\ Tgt(s) \in Repos /\ Src(s) \in Repos /\ Fits(s, Do(p)) /\ s.home \in Repos
  BY <1>1, KinSame, AtCall
<1>3. Unpacking(t)
  BY <1>1 DEF Unpacking
<1>4. ASSUME NEW m \in marks', m[1] = "want" PROVE m \in marks
  <2>1. ~Request(p)
    <3>1. Do(p).call = "request" => s.cmd = "fetch_wire"
      BY <1>1, Requests
    <3> QED BY <3>1 DEF Request, Doing
  <2> QED BY <1>4, <2>1, FreshMarks
<1>5. Portable(s, O)
  BY DEF Wire
<1>6. ASSUME Lists(s, t) PROVE Portable(t, P)
  BY <1>1, <1>2, <1>5, <1>6 DEF Portable, Lists
<1>7. ASSUME Portable(t, P), odb' = odb PROVE Wire'
  BY <1>1, <1>3, <1>4, <1>7, WireKept
<1>8. ~Request(p) /\ ~UnpackOne(p)
  BY <1>1, Requests DEF Request, UnpackOne, Doing
<1>9. \A c \in s.list : History(c) \subseteq s.list \cup O[Tgt(s)]
  BY <1>1, <1>5 DEF Portable
<1>10. ASSUME NEW r \in Repos, NEW new, Adds(O, P, r, new), Lists(s, t)
       PROVE  Wire'
  <2>1. P[r] = O[r] \cup new /\ \A x \in Repos : x # r => P[x] = O[x]
    BY <1>10 DEF Types, TInv, OdbOK, Adds
  <2>2. P[r] \subseteq Due(r)'
    BY DEF Due
  <2>3. \A x \in Repos : \A c \in P[x] \ O[x] : History(c) \subseteq Due(x)'
    BY <1>10, <2>1, <2>2 DEF Adds
  <2> QED BY <1>1, <1>3, <1>4, <1>6, <1>10, <2>3, WireKept
<1>11. ASSUME NEW r \in Repos, NEW new, Store(r, new)
       PROVE  P = [O EXCEPT ![r] = O[r] \cup new]
  BY <1>11 DEF Store
<1>12. CASE Stage(p)
  <2>1. Lists(s, t)
    BY <1>1, <1>8, <1>12, ListStays DEF Stage, CopyList, BundlePack, Doing
  <2>2. Do(p).call = "stage" /\ Store(Do(p).repo, {Staged(p)})
    BY <1>12 DEF Stage, Doing
  <2>3. Do(p).repo = s.home /\ s.cmd = "add"
    <3>1. "stage" \in Calls(s.cmd) /\ Do(p).repo = s.home
      BY <1>2, <2>2 DEF Fits, AtHome
    <3> QED BY <3>1 DEF Calls, Given, Copiers
  <2>4. << 0 >> \in O[s.home]
    <3>1. s.home = "local" => ~Hollow
      BY <2>3 DEF Hollow, Importers
    <3> QED BY <1>2, <3>1, Others DEF SInv, Rooted
  <2>5. \A c \in {Staged(p)} : History(c) \subseteq {Staged(p)} \cup O[s.home]
    <3>1. 20 + p \in Nat
      BY ProcsAssumption
    <3>2. History(Staged(p)) \subseteq {<< 0 >>, Staged(p)}
      BY <3>1, HistoryRoot DEF Staged
    <3> QED BY <2>4, <3>2
  <2>6. Adds(O, P, s.home, {Staged(p)})
    BY <1>2, <1>11, <2>2, <2>3, <2>5 DEF Adds
  <2> QED BY <1>2, <1>10, <2>1, <2>6
<1>13. CASE MakeCommit(p)
  <2>1. Lists(s, t)
    BY <1>1, <1>8, <1>13, ListStays DEF MakeCommit, CopyList, BundlePack, Doing
  <2> PICK c : c = Append(s.head, Tag(p))
    OBVIOUS
  <2>2. Do(p).call = "commit" /\ Store(Do(p).repo, {c})
    BY <1>13 DEF MakeCommit, Doing
  <2>3. Do(p).repo = s.home
    BY <1>2, <2>2 DEF Fits, AtHome
  <2>4. History(s.head) \subseteq O[s.home]
    BY <1>1 DEF SInv, Sound, Good, ValueOK, Holds
  <2>5. History(c) \subseteq History(s.head) \cup {c}
    <3>1. Tag(p) \in Nat /\ s.head \in Value
      BY <1>1, ProcsAssumption DEF Tag, ProcType
    <3> QED BY <3>1, HistoryChild
  <2>6. \A d \in {c} : History(d) \subseteq {c} \cup O[s.home]
    BY <2>4, <2>5
  <2>7. Adds(O, P, s.home, {c})
    BY <1>2, <1>11, <2>2, <2>3, <2>6 DEF Adds
  <2> QED BY <1>2, <1>10, <2>1, <2>7
<1>14. CASE CopyObjects(p)
  <2>1. Lists(s, t)
    BY <1>1, <1>8, <1>14, ListStays DEF CopyObjects, CopyList, BundlePack, Doing
  <2>2. Do(p).call = "copy" /\ Store(Do(p).repo, s.list)
    BY <1>14 DEF CopyObjects, Doing
  <2>3. Do(p).repo = Tgt(s)
    BY <1>2, <2>2 DEF Fits, AtTgt
  <2> PICK r, new : r = Tgt(s) /\ new = s.list
    OBVIOUS
  <2>4. P = [O EXCEPT ![r] = O[r] \cup new] /\ r \in Repos
    BY <1>2, <1>11, <2>2, <2>3
  <2>5. \A c \in new : History(c) \subseteq new \cup O[r]
    BY <1>9
  <2>6. Adds(O, P, r, new)
    BY <2>4, <2>5 DEF Adds
  <2> QED BY <1>10, <2>1, <2>4, <2>6
<1>15. CASE Unbundle(p)
  <2>1. Lists(s, t)
    BY <1>1, <1>8, <1>15, ListStays DEF Unbundle, CopyList, BundlePack, Doing
  <2>2. Do(p).call = "unbundle" /\ Store(Do(p).repo, s.list)
    BY <1>15 DEF Unbundle, Doing
  <2>3. Do(p).repo = Tgt(s)
    BY <1>2, <2>2 DEF Fits, AtTgt
  <2> PICK r, new : r = Tgt(s) /\ new = s.list
    OBVIOUS
  <2>4. P = [O EXCEPT ![r] = O[r] \cup new] /\ r \in Repos
    BY <1>2, <1>11, <2>2, <2>3
  <2>5. \A c \in new : History(c) \subseteq new \cup O[r]
    BY <1>9
  <2>6. Adds(O, P, r, new)
    BY <2>4, <2>5 DEF Adds
  <2> QED BY <1>10, <2>1, <2>4, <2>6
<1>16. CASE Receive(p)
  <2>1. Lists(s, t)
    BY <1>1, <1>8, <1>16, ListStays DEF Receive, CopyList, BundlePack, Doing
  <2>2. Do(p).call = "receive"
    BY <1>16 DEF Receive, Doing
  <2>3. Do(p).repo = Tgt(s)
    BY <1>2, <2>2 DEF Fits, AtTgt
  <2>4. CASE odb' = odb
    BY <1>6, <1>7, <2>1, <2>4
  <2>5. CASE odb' = [odb EXCEPT ![Do(p).repo] = odb[Do(p).repo] \cup s.list]
    <3> PICK r, new : r = Tgt(s) /\ new = s.list
      OBVIOUS
    <3>1. P = [O EXCEPT ![r] = O[r] \cup new] /\ r \in Repos
      BY <1>2, <2>3, <2>5
    <3>2. \A c \in new : History(c) \subseteq new \cup O[r]
      BY <1>9
    <3>3. Adds(O, P, r, new)
      BY <3>1, <3>2 DEF Adds
    <3> QED BY <1>10, <2>1, <3>1, <3>3
  <2>6. ASSUME NEW done, NEW end, Served(p, done, end)
        PROVE  odb' = odb \/ odb' = [odb EXCEPT ![Do(p).repo] = odb[Do(p).repo] \cup s.list]
    <3>1. CASE done = {}
      <4>1. odb' = [odb EXCEPT ![Do(p).repo] = odb[Do(p).repo]]
        BY <2>6, <3>1 DEF Served
      <4> QED BY <4>1 DEF Types, TInv, OdbOK
    <3>2. CASE done # {}
      BY <2>6, <3>2 DEF Served
    <3> QED BY <3>1, <3>2
  <2> QED BY <1>16, <2>4, <2>5, <2>6, ReceiveIs
<1>17. CASE CopyList(p) \/ BundlePack(p)
  <2>1. odb' = odb /\ s.cmd \in Copiers \cup {"bundle", "push_wire"}
    BY <1>1, <1>17, CopierIs, PackerIs DEF CopyList, BundlePack, Doing
  <2>2. t.list = O[Src(s)] \/ t.list = {}
    <3>1. CASE CopyList(p)
      <4>1. /\ Other(Do(p).repo) = Src(s) /\ MarkUnlisted(Other(Do(p).repo))
            /\ Becomes(p, [Goes(s, "copy") EXCEPT !.list = LooseObjects(Other(Do(p).repo))])
        BY <1>1, <3>1, CopierIs DEF CopyList, Doing
      <4>2. LooseObjects(Src(s)) = O[Src(s)]
        BY <4>1, ListsAll
      <4>3. t = [Goes(s, "copy") EXCEPT !.list = O[Src(s)]]
        BY <1>1, <4>1, <4>2, BecomesIs
      <4> QED BY <1>1, <4>3 DEF Goes, ProcType
    <3>2. CASE BundlePack(p)
      <4>1. /\ Do(p).repo = Src(s) /\ MarkUnlisted(Do(p).repo)
            /\ Becomes(p, Returned([s EXCEPT !.list = LooseObjects(Do(p).repo)]))
        BY <1>1, <3>2, PackerIs DEF BundlePack, Doing
      <4>2. PICK u : u = [s EXCEPT !.list = O[Src(s)]]
        OBVIOUS
      <4>5. LooseObjects(Src(s)) = O[Src(s)]
        BY <4>1, ListsAll
      <4>3. t = Returned(u)
        BY <1>1, <4>1, <4>2, <4>5, BecomesIs
      <4>4. u \in ProcType /\ u.todo # <<>> /\ u.list = O[Src(s)]
        BY <1>1, <1>2, <4>2, SMTT(30) DEF ProcType
      <4> QED BY <4>3, <4>4, Turns DEF Over, After, Same
    <3> QED BY <1>17, <3>1, <3>2
  <2>3. \A c \in O[Src(s)] : History(c) \subseteq O[Src(s)] \cup O[Tgt(s)]
    BY <1>1, <2>1, Packable
  <2>4. Portable(t, P)
    BY <1>1, <1>2, <2>1, <2>2, <2>3 DEF Portable
  <2> QED BY <1>7, <2>1, <2>4
<1>18. CASE ~Stage(p) /\ ~MakeCommit(p) /\ ~CopyObjects(p) /\ ~Unbundle(p) /\ ~Receive(p)
            /\ ~CopyList(p) /\ ~BundlePack(p)
  BY <1>1, <1>6, <1>7, <1>8, <1>18, SameOdb, ListStays
<1> QED BY <1>12, <1>13, <1>14, <1>15, <1>16, <1>17, <1>18

\* A process that has a new list: it unpacks it, or there is nothing in it.
LEMMA Unpacks ==
    ASSUME NEW s \in ProcType, s.todo # <<>>, NEW v \in SUBSET Commits, NEW t,
           t = AfterUnpack([s EXCEPT !.list = v])
    PROVE  t.list = v /\ Unpacking(t)
<1> PICK u : u = [s EXCEPT !.list = v]
  OBVIOUS
<1>1. u \in ProcType /\ u.todo = s.todo /\ u.list = v
  BY DEF ProcType
<1>2. CASE v = {}
  <2>1. t = Returned(u)
    BY <1>1, <1>2 DEF AfterUnpack
  <2>2. Over(u, t) \/ After(u, t)
    BY <1>1, <2>1, Turns
  <2>3. t.list = {}
    BY <1>1, <1>2, <2>2 DEF Over, After, Same
  <2> QED BY <1>2, <2>3 DEF Unpacking
<1>3. CASE v # {}
  <2>1. t = Goes(u, "unpack")
    BY <1>1, <1>3 DEF AfterUnpack
  <2> QED BY <1>1, <2>1 DEF Goes, ProcType, Unpacking
<1> QED BY <1>2, <1>3

\* What the server sends, with what the fetch has or will have, is what it wants.
LEMMA Answers ==
    ASSUME Types, Wire, NEW r \in Repos, NEW wants, Histories(wants) \subseteq odb[Other(r)],
           NEW haves, haves \subseteq odb[r]
    PROVE  Histories(wants) \subseteq Answer(Other(r), wants, haves) \cup Due(r)
<1> SUFFICES ASSUME NEW d \in Histories(wants), d \notin Answer(Other(r), wants, haves) PROVE d \in Due(r)
  OBVIOUS
<1>1. d \in Histories(haves \cap odb[Other(r)])
  BY DEF Answer
<1>2. PICK h \in haves : d \in History(h)
  BY <1>1 DEF Histories
<1>3. h \in Due(r)
  BY DEF Due
<1> QED BY <1>2, <1>3 DEF Wire

\* The pack comes.
LEMMA WireRequest ==
    ASSUME TInv, SInv, Types', NEW p \in Procs, Kindred(p), Gains(p), Wire, Clean, ~Fault, Request(p)
    PROVE  Wire'
<1> PICK s, t, r, w : s = proc[p] /\ t = proc'[p] /\ r = s.home /\ w = Wants(p)
  OBVIOUS
<1>1. /\ s.todo # <<>> /\ Do(p).call = "request" /\ odb' = odb /\ Types /\ s.at = "call"
      /\ ProcsOK
  BY DEF Request, Doing, TInv, Types
<1>2. /\ s \in ProcType /\ s.cmd = "fetch_wire" /\ r \in Repos /\ Do(p).repo = r /\ Kin(s, t)
      /\ Src(s) = Other(r) /\ Other(r) \in Repos /\ t.cmd = s.cmd
  BY <1>1, AtCall, Requests DEF Kindred, Kin
<1>3. s.list = {}
  BY <1>1, <1>2 DEF Wire, Unpacking
<1>4. \A r2 \in Repos : Due(r2) \subseteq Due(r2)'
  BY <1>1, <1>2, <1>3, DueGrows
<1>5. Portable(t, odb')
  BY <1>2 DEF Portable
<1>6. CASE Becomes(p, Returned(s)) /\ UNCHANGED marks
  <2>1. t = Returned(s)
    BY <1>1, <1>6, BecomesIs
  <2>2. t.list = {}
    BY <1>1, <1>2, <1>3, <2>1, Turns DEF Over, After, Same
  <2>3. Unpacking(t)
    BY <2>2 DEF Unpacking
  <2> QED BY <1>1, <1>3, <1>5, <1>6, <2>2, <2>3, WireKept
<1>7. ASSUME NEW haves \in Haves(r),
             Becomes(p, AfterUnpack([s EXCEPT !.list = Answer(Other(r), w, haves)])),
             marks' = marks \cup {<<"want", c>> : c \in w}
      PROVE  Wire'
  <2> PICK A : A = Answer(Other(r), w, haves)
    OBVIOUS
  <2>1. A \subseteq odb[Other(r)] /\ A \subseteq Histories(w)
    BY DEF Answer
  <2>2. A \in SUBSET Commits
    BY <1>1, <1>2, <2>1 DEF Types, OdbOK
  <2>3. t = AfterUnpack([s EXCEPT !.list = A])
    BY <1>1, <1>7, BecomesIs
  <2>4. t.list = A /\ Unpacking(t)
    BY <1>1, <1>2, <2>2, <2>3, Unpacks
  <2>5. haves \subseteq odb[r]
    BY DEF Haves, kSubset, LooseObjects
  <2>6. ASSUME NEW c \in w PROVE c \in Value /\ History(c) \subseteq odb[Other(r)]
    <3>1. PICK n \in Branches : c = s.adv[n]
      BY DEF Wants
    <3>2. Good(s, odb, Hollow)
      BY <1>1 DEF SInv, Sound
    <3>3. Holds(odb, Src(s), s.adv[n])
      BY <1>2, <3>2 DEF Good, ValueOK
    <3>4. s.adv[n] \in Value
      BY <1>2 DEF ProcType
    <3> QED BY <1>2, <3>1, <3>3, <3>4 DEF Holds
  <2>7. Histories(w) \subseteq odb[Other(r)]
    BY <2>6 DEF Histories
  <2>8. Histories(w) \subseteq Due(r)'
    <3>1. Histories(w) \subseteq A \cup Due(r)
      BY <1>1, <1>2, <2>5, <2>7, Answers
    <3>2. A \subseteq Due(r)'
      BY <1>2, <2>2, <2>4 DEF Due, Kin
    <3> QED BY <1>2, <1>4, <3>1, <3>2
  <2>9. ASSUME NEW c \in A PROVE History(c) \subseteq Due(r)'
    <3>1. PICK v \in w : c \in History(v)
      BY <2>1 DEF Histories
    <3>2. History(c) \subseteq History(v)
      BY <2>6, <3>1, HistoryOf
    <3>3. History(v) \subseteq Histories(w)
      BY DEF Histories
    <3> QED BY <2>8, <3>2, <3>3
  <2>10. ASSUME NEW m \in marks', m[1] = "want", m \notin marks PROVE History(m[2]) \subseteq Due("local")'
    <3>1. PICK c \in w : m = <<"want", c>>
      BY <1>7, <2>10
    <3>2. m[2] = c
      BY <3>1
    <3>3. CASE r = "local"
      <4>1. History(c) \subseteq Histories(w)
        BY DEF Histories
      <4> QED BY <2>8, <3>2, <3>3, <4>1
    <3>4. CASE r = "peer"
      <4>1. Other(r) = "local"
        BY <3>4, Others
      <4>2. odb["local"] \subseteq Due("local")'
        BY <1>1 DEF Due
      <4> QED BY <2>6, <3>2, <4>1, <4>2
    <3> QED BY <1>2, <3>3, <3>4 DEF Repos
  <2>11. \A c \in proc'[p].list : History(c) \subseteq Due(proc[p].home)'
    <3>1. proc'[p].home = r
      BY <1>2 DEF Kin
    <3> QED BY <2>4, <2>9, <3>1
  <2> QED BY <1>1, <1>3, <1>5, <2>4, <2>10, <2>11, WireKept
<1>8. \/ Becomes(p, Returned(s)) /\ UNCHANGED marks
      \/ \E haves \in Haves(r) : /\ Becomes(p, AfterUnpack([s EXCEPT !.list = Answer(Other(r), w, haves)]))
                                 /\ marks' = marks \cup {<<"want", c>> : c \in w}
  BY <1>2 DEF Request
<1> QED BY <1>6, <1>7, <1>8

\* An object is unpacked.
LEMMA WireUnpack ==
    ASSUME TInv, SInv, Types', NEW p \in Procs, StepOf(p), Kindred(p), Gains(p), Wire, ~Fault, UnpackOne(p)
    PROVE  Wire'
<1> PICK s, t, r, O, P : s = proc[p] /\ t = proc'[p] /\ r = s.home /\ O = odb /\ P = odb'
  OBVIOUS
<1>1. s.todo # <<>> /\ Do(p).call = "request" /\ Types /\ ProcsOK /\ ~Request(p)
  BY DEF UnpackOne, Request, Doing, TInv, Types
<1>2. /\ s \in ProcType /\ s.cmd = "fetch_wire" /\ r \in Repos /\ Do(p).repo = r /\ Kin(s, t)
      /\ t.cmd = s.cmd
  BY <1>1, AtCall, Requests DEF Kindred, Kin
<1>3. PICK c \in s.list : Store(r, {c}) /\ Becomes(p, AfterUnpack([s EXCEPT !.list = @ \ {c}]))
  BY <1>2 DEF UnpackOne
<1> PICK v : v = s.list \ {c}
  OBVIOUS
<1>4. v \in SUBSET Commits
  BY <1>2 DEF ProcType
<1>5. t = AfterUnpack([s EXCEPT !.list = v])
  BY <1>1, <1>3, BecomesIs
<1>6. t.list = v /\ Unpacking(t)
  BY <1>1, <1>2, <1>4, <1>5, Unpacks
<1>7. P = [O EXCEPT ![r] = O[r] \cup {c}]
  BY <1>3 DEF Store
<1>8. P[r] = O[r] \cup {c} /\ \A x \in Repos : x # r => P[x] = O[x]
  BY <1>1, <1>2, <1>7 DEF Types, OdbOK
<1>9. c \in Due(r)
  BY <1>2, <1>3 DEF Due, ProcType
<1>10. \A x \in Repos : \A d \in P[x] \ O[x] : d \in Due(x)
  BY <1>8, <1>9
<1>11. ASSUME NEW m \in marks', m[1] = "want" PROVE m \in marks
  BY <1>1, <1>11, FreshMarks
<1>12. Portable(t, P)
  BY <1>2 DEF Portable
<1>13. /\ s.list \subseteq t.list \cup P[r]
       /\ t.list \subseteq s.list
  BY <1>6, <1>8
<1> QED BY <1>1, <1>6, <1>10, <1>11, <1>12, <1>13, WireKept

\* The server's references are read.
LEMMA WireAdvert ==
    ASSUME TInv, SInv, Types', NEW p \in Procs, StepOf(p), Kindred(p), Gains(p), Wire, ~Fault, Advert(p),
           proc[p].cmd = "fetch_wire"
    PROVE  Wire'
<1> PICK s, t : s = proc[p] /\ t = proc'[p]
  OBVIOUS
<1>1. /\ s.todo # <<>> /\ s.at = "call" /\ Types /\ odb' = odb /\ ~Request(p) /\ marks' = marks
      /\ ~CopyList(p) /\ ~BundlePack(p) /\ ~UnpackOne(p)
  BY DEF Advert, Request, CopyList, BundlePack, UnpackOne, Doing, TInv
<1>2. s \in ProcType /\ Kin(s, t) /\ t.cmd = "fetch_wire"
  BY <1>1 DEF Types, ProcsOK, Kindred, Kin
<1>3. s.list = {}
  BY <1>1 DEF Wire, Unpacking
<1>4. t.list = {}
  BY <1>1, <1>3, ListStays DEF Lists
<1>5. Portable(t, odb') /\ Unpacking(t)
  BY <1>2, <1>4 DEF Portable, Unpacking
<1> QED BY <1>1, <1>3, <1>4, <1>5, WireKept

\* As long as nothing failed, every step keeps what is on its way.
LEMMA WireStep ==
    ASSUME TInv, SInv, WireInv, TInv', NEW p \in Procs, StepOf(p), Kindred(p), Gains(p)
    PROVE  WireInv'
<1>1. SUFFICES ASSUME faults' = MaxFaults PROVE ~Marked("dropped")' /\ (Clean' => Wire')
  BY DEF WireInv
<1>2. Types /\ Types' /\ FaultsOK /\ marks \subseteq marks'
  BY DEF TInv, Types, Gains
<1>3. faults = MaxFaults /\ ~Fault
  BY <1>1, <1>2, NoFault
<1>4. ~Marked("dropped")'
  <2>1. SUFFICES ASSUME NEW m \in marks', m[1] = "dropped" PROVE FALSE
    BY DEF Marked
  <2>2. m \notin marks
    BY <1>3, <2>1 DEF WireInv, Marked
  <2>3. CASE ~Request(p)
    BY <1>3, <2>1, <2>2, <2>3, FreshMarks
  <2>4. CASE Request(p)
    <3>1. marks' = marks \/ marks' = marks \cup {<<"want", c>> : c \in Wants(p)}
      BY <2>4 DEF Request
    <3>2. PICK c : m = <<"want", c>>
      BY <2>1, <2>2, <3>1
    <3> QED BY <2>1, <3>2
  <2> QED BY <2>3, <2>4
<1>5. ASSUME Clean' PROVE Wire'
  <2>1. Clean /\ Wire
    BY <1>2, <1>3, <1>5, MarksStay DEF WireInv
  <2>2. CASE proc[p].cmd # "fetch_wire"
    BY <1>2, <1>3, <1>5, <2>1, <2>2, WireOthers
  <2>3. CASE proc[p].cmd = "fetch_wire"
    <3>1. proc[p].todo # <<>> /\ ~Crash(p)
      BY <1>3 DEF Kindred, Crash
    <3>2. Do(p).call \in {"advert", "request"}
      <4>1. Fits(proc[p], Do(p))
        BY <1>2, <3>1, AtCall
      <4> QED BY <2>3, <4>1 DEF Fits, Calls, Given, Copiers
    <3>3. Advert(p) \/ Request(p) \/ UnpackOne(p)
      BY <3>1, <3>2, ActsOf
    <3> QED BY <1>2, <1>3, <2>1, <2>3, <3>3, WireAdvert, WireRequest, WireUnpack
  <2> QED BY <2>2, <2>3
<1> QED BY <1>4, <1>5

-----------------------------------------------------------------------------
(* Initial states.                                                         *)

\* What a behaviour starts with.
LEMMA StartedIs ==
    ASSUME NEW c \in [cmd : Commands \cup {"none"}, home : Repos], NEW v, NEW s, s = Started(c, v)
    PROVE  /\ s.cmd = c.cmd /\ s.home = c.home /\ s.at = "call" /\ ~s.lost /\ s.list = {} /\ s.bundle = <<>>
           /\ s.head = NoCommit /\ s.mem = NoCommit /\ s.adv = [n \in Branches |-> NoCommit]
           /\ \/ s.todo = <<>>
              \/ s.cmd \in Commands /\ s.todo = Script(s.cmd, s.home) /\ s.val = v
<1>1. CASE c.cmd = "none"
  <2>1. s = Idle(c.cmd, c.home, NoCommit, "ok")
    BY <1>1 DEF Started
  <2> QED BY <2>1 DEF Idle
<1>2. CASE c.cmd # "none"
  <2> PICK u, q : u = Idle(c.cmd, c.home, v, "none") /\ q = Script(c.cmd, c.home)
    OBVIOUS
  <2>1. s = [u EXCEPT !.todo = q] /\ c.cmd \in Commands
    BY <1>2 DEF Started
  <2>2. /\ u = [cmd |-> u.cmd, home |-> u.home, todo |-> u.todo, at |-> u.at, val |-> u.val, head |-> u.head,
                seen |-> u.seen, old |-> u.old, lost |-> u.lost, list |-> u.list, bundle |-> u.bundle,
                adv |-> u.adv, mem |-> u.mem, fd |-> u.fd, left |-> u.left, result |-> u.result]
        /\ u.cmd = c.cmd /\ u.home = c.home /\ u.at = "call" /\ ~u.lost /\ u.list = {} /\ u.bundle = <<>>
        /\ u.head = NoCommit /\ u.mem = NoCommit /\ u.adv = [n \in Branches |-> NoCommit] /\ u.val = v
    BY DEF Idle
  <2> QED BY <2>1, <2>2
<1> QED BY <1>1, <1>2

\* A process that starts its command is sound where what it is given is stored.
LEMMA StartSound ==
    ASSUME NEW s \in ProcType, s.at = "call", s.list = {}, s.bundle = <<>>,
           s.head = NoCommit, s.mem = NoCommit, s.adv = [n \in Branches |-> NoCommit],
           s.todo = <<>> \/ (s.cmd \in Commands /\ s.todo = Script(s.cmd, s.home)),
           NEW O, NEW h, s.todo # <<>> /\ s.cmd \in Given => Holds(O, s.home, s.val)
    PROVE  /\ Flow(s, s.todo) /\ ListOK(s, O) /\ TreeOf(s, O) /\ Portable(s, O) /\ Unpacking(s)
           /\ s.todo # <<>> => Good(s, O, h)
<1>1. ListOK(s, O) /\ Portable(s, O) /\ Unpacking(s)
  BY DEF ListOK, Portable, Unpacking
<1>2. Has(O, s.home, NoCommit) /\ \A r : Holds(O, r, NoCommit)
  BY HistoryRoot DEF Has, Holds, NoCommit
<1>3. CASE s.todo = <<>>
  <2>1. Flow(s, s.todo)
    BY <1>3 DEF Flow
  <2> QED BY <1>1, <1>2, <1>3, <2>1 DEF TreeOf
<1>4. CASE s.todo # <<>>
  <2>1. Flow(s, s.todo) /\ Opens(s, s.todo)
    BY <1>4, ScriptFlow
  <2>2. s.cmd = "stash" => s.cmd \notin Given
    BY DEF Given
  <2>3. TreeOf(s, O)
    BY <1>2, <2>1, <2>2 DEF TreeOf, Opens
  <2>4. CopiedOK(s, O, h)
    BY <2>1 DEF CopiedOK, Opens, Past
  <2>5. BundleOK(s, O)
    BY DEF BundleOK, ToSet
  <2>6. s.cmd \in Given => Tgt(s) = s.home
    BY Ends2
  <2>7. ValueOK(s, O)
    BY <1>2, <1>4, <2>1, <2>6 DEF ValueOK, Opens
  <2> QED BY <1>1, <2>1, <2>3, <2>4, <2>5, <2>7 DEF Good
<1> QED BY <1>3, <1>4

\* The invariant holds initially.
LEMMA InitClosed == ASSUME Init PROVE SInv /\ Losses /\ Empties /\ FilesStored /\ WireInv
<1>1. TInv /\ Types /\ ProcsOK
  BY InitTypes DEF TInv, Types
<1>2. PICK scene \in Scenes, main \in {<<0>>, <<0, 2>>}, topic \in {Absent, <<0, 1>>},
           away, fresh, gc \in BOOLEAN, given \in {<<0>>, <<0, 1>>} :
        LET none == [n \in Names |-> Absent]
        IN  /\ scene[1].cmd = "clone" => fresh
            /\ fresh => main = <<0>> /\ topic = Absent /\ ~away
                        /\ \A p \in Procs : scene[p].home = "local" => scene[p].cmd \in Importers \cup {"none"}
            /\ given = <<0>> => scene[1].cmd \in {"merge", "rebase"}
            /\ proc = [p \in Procs |-> Started(scene[p], IF p = 1 THEN given ELSE <<0, 3>>)]
            /\ loose = [local |-> IF fresh THEN none
                                  ELSE [main |-> IF away THEN Absent ELSE main, topic |-> topic,
                                        stash |-> <<0, 3>>],
                        peer |-> [none EXCEPT !.main = <<0, 4>>]]
            /\ packed = [r \in Repos |-> [n \in Names |->
                            IF away /\ r = "local" /\ n = "main" THEN main ELSE NoCommit]]
            /\ logs = [r \in Repos |-> [n \in Names \cup {"HEAD"} |-> <<>>]]
            /\ held = [r \in Repos |-> [n \in Names |-> {loose[r][n]} \ {Absent}]]
            /\ odb = [local |-> IF fresh THEN {} ELSE {<<0>>, <<0, 1>>, <<0, 2>>, <<0, 3>>},
                      peer |-> {<<0>>, <<0, 4>>}]
            /\ packs = [r \in Repos |-> IF gc THEN odb[r] ELSE {}]
            /\ faults = MaxFaults /\ marks = {}
            /\ disk = [i \in {0} \cup Procs |-> IF i = 0 /\ ~fresh THEN Content(main) ELSE <<>>]
            /\ idx = [local |-> IF fresh THEN NoFile ELSE 0, peer |-> NoFile]
            /\ lock = [r \in Repos |-> NoFile]
            /\ work = [r \in Repos |-> [x \in Paths |->
                          IF r = "local" /\ ~fresh /\ x \in Files(main) THEN main ELSE Absent]]
  BY DEF Init
<1>3. /\ odb["local"] = IF fresh THEN {} ELSE {<<0>>, <<0, 1>>, <<0, 2>>, <<0, 3>>}
      /\ odb["peer"] = {<<0>>, <<0, 4>>} /\ marks = {}
  BY <1>2
<1>4. /\ History(<<0>>) = {<<0>>} /\ History(<<0, 1>>) \subseteq {<<0>>, <<0, 1>>}
      /\ History(<<0, 2>>) \subseteq {<<0>>, <<0, 2>>} /\ History(<<0, 3>>) \subseteq {<<0>>, <<0, 3>>}
      /\ History(<<0, 4>>) \subseteq {<<0>>, <<0, 4>>} /\ History(NoCommit) = {}
  BY HistoryRoot DEF NoCommit
<1>5. \A r \in Repos : \A c \in odb[r] : History(c) \subseteq odb[r]
  <2>1. \A c \in odb["local"] : History(c) \subseteq odb["local"]
    BY <1>3, <1>4
  <2>2. \A c \in odb["peer"] : History(c) \subseteq odb["peer"]
    BY <1>3, <1>4
  <2> QED BY <2>1, <2>2 DEF Repos
<1>6. ASSUME NEW q \in Procs
      PROVE  LET s == proc[q] IN
             /\ s.cmd = scene[q].cmd /\ s.home = scene[q].home /\ s.at = "call" /\ ~s.lost /\ s.list = {}
             /\ s.bundle = <<>> /\ s.head = NoCommit /\ s.mem = NoCommit
             /\ s.adv = [n \in Branches |-> NoCommit] /\ s \in ProcType
             /\ s.todo = <<>> \/ /\ s.cmd \in Commands /\ s.todo = Script(s.cmd, s.home)
                                 /\ s.val \in {<<0>>, <<0, 1>>, <<0, 3>>}
  <2> PICK v : v = IF q = 1 THEN given ELSE <<0, 3>>
    OBVIOUS
  <2>1. scene[q] \in [cmd : Commands \cup {"none"}, home : Repos]
    BY RepositoryConstants
  <2>2. proc[q] = Started(scene[q], v) /\ v \in {<<0>>, <<0, 1>>, <<0, 3>>} /\ proc[q] \in ProcType
    BY <1>1, <1>2 DEF ProcsOK
  <2> QED BY <2>1, <2>2, StartedIs
<1>17. fresh => \A q \in Procs : proc[q].home = "local" => proc[q].cmd \in Importers \cup {"none"}
  <2>1. \A q \in Procs : proc[q].cmd = scene[q].cmd /\ proc[q].home = scene[q].home
    BY <1>6
  <2>2. fresh => \A q \in Procs : scene[q].home = "local" => scene[q].cmd \in Importers \cup {"none"}
    BY <1>2
  <2> QED BY <2>1, <2>2
<1>7. fresh => Hollow
  BY <1>3, <1>17 DEF Hollow
<1>8. Rooted
  BY <1>3, <1>7 DEF Rooted
<1>9. ASSUME NEW q \in Procs PROVE Sound(q) /\ Portable(proc[q], odb) /\ Unpacking(proc[q])
  <2> PICK s, O, h : s = proc[q] /\ O = odb /\ h = Hollow
    OBVIOUS
  <2>1. ASSUME s.todo # <<>>, s.cmd \in Given PROVE Holds(O, s.home, s.val)
    <3>1. s.home = "local"
      BY <1>6, <2>1, GivenAssumption DEF Given, ProcType, Repos
    <3>2. ~fresh
      BY <1>17, <2>1, <3>1 DEF Given, Importers
    <3>3. s.val \in {<<0>>, <<0, 1>>, <<0, 3>>}
      BY <1>6, <2>1
    <3> QED BY <1>3, <1>4, <3>1, <3>2, <3>3 DEF Holds
  <2>2. /\ Flow(s, s.todo) /\ ListOK(s, O) /\ TreeOf(s, O) /\ Portable(s, O) /\ Unpacking(s)
        /\ s.todo # <<>> => Good(s, O, h)
    BY <1>6, <2>1, StartSound
  <2> QED BY <2>2 DEF Sound
<1>10. ASSUME NEW r \in Repos, NEW n \in Names
       PROVE  loose[r][n] \in {Absent} \cup odb[r] /\ packed[r][n] \in {NoCommit} \cup odb[r]
  <2>1. CASE r = "local"
    BY <1>2, <1>3, <2>1 DEF Names, Branches
  <2>2. CASE r = "peer"
    BY <1>2, <1>3, <2>2 DEF Names, Branches
  <2> QED BY <2>1, <2>2 DEF Repos
<1>11. ~IsCommit(Absent) /\ Absent # Empty
  <2>1. Absent[1] = -1 /\ Empty[1] = -2
    BY DEF Absent, Empty
  <2> QED BY <2>1 DEF IsCommit
<1>12. \A r \in Repos : Closed(r)
  BY <1>4, <1>5, <1>10, <1>11 DEF Closed, Holds
<1>13. Losses
  BY <1>6 DEF Losses, LostOK
<1>14. Empties
  <2>1. \A r \in Repos : Empty \notin odb[r]
    BY <1>1, NotMarks DEF Types, OdbOK, Commits, Value
  <2> QED BY <1>10, <1>11, <2>1 DEF Empties
<1>15. FilesStored
  <2>1. SUFFICES ASSUME NEW r \in Repos, NEW i \in {0} \cup Procs, Uses(r, i), NEW c \in ToSet(disk[i])
                 PROVE  Has(odb, r, c)
    BY DEF FilesStored
  <2>2. \A p \in Procs : ~Locking(p, r)
    BY <1>6 DEF Locking, Doing
  <2>3. i # NoFile /\ i = idx[r]
    BY <1>2, <2>1, <2>2 DEF Uses
  <2>4. r = "local" /\ ~fresh /\ i = 0
    BY <1>2, <2>3 DEF Repos
  <2>5. disk[i] = Content(main)
    BY <1>2, <2>4
  <2>6. c = main
    BY <2>1, <2>5 DEF ToSet, Content
  <2> QED BY <1>3, <2>4, <2>6 DEF Has
<1>16. WireInv
  <2>1. \A r \in Repos : Due(r) = odb[r]
    BY <1>6 DEF Due
  <2> QED BY <1>3, <1>5, <1>9, <2>1 DEF WireInv, Wire, Marked
<1> QED BY <1>8, <1>9, <1>12, <1>13, <1>14, <1>15, <1>16 DEF SInv

(* The invariant.                                                          *)

CInv == IInv /\ SInv /\ Losses /\ Empties /\ FilesStored /\ WireInv

\* It is kept by every step.
LEMMA ClosedKept == ASSUME CInv, [Next]_vars PROVE CInv'
<1>1. IInv /\ TInv /\ Types /\ SInv /\ Losses /\ Empties /\ FilesStored /\ WireInv
  BY DEF CInv, IInv, TInv
<1>2. IInv' /\ TInv'
  BY <1>1, IndexStep DEF IInv
<1>3. CASE UNCHANGED vars
  <2>1. UNCHANGED <<proc, loose, packed, odb, faults, marks, disk, idx, lock>>
    BY <1>3 DEF vars, refVars, treeVars
  <2>2. Clean' = Clean /\ Hollow' = Hollow /\ \A k : Marked(k)' = Marked(k)
    BY <2>1 DEF Clean, Marked, Hollow
  <2>3. SInv'
    BY <1>1, <2>1, <2>2 DEF SInv, Rooted, Sound, Closed
  <2>4. Losses' /\ Empties'
    BY <1>1, <2>1 DEF Losses, Empties
  <2>5. FilesStored'
    BY <1>1, <2>1, <2>2 DEF FilesStored, Uses, Locking, Doing, Do
  <2>6. \A r : Due(r)' = Due(r)
    BY <2>1 DEF Due
  <2>7. WireInv'
    BY <1>1, <2>1, <2>2, <2>6 DEF WireInv, Wire
  <2> QED BY <1>2, <2>3, <2>4, <2>5, <2>7 DEF CInv
<1>4. CASE Next
  <2>1. PICK p \in Procs : StepOf(p)
    BY <1>4, NextSplit DEF StepOf
  <2>2. SInv' /\ Gains(p) /\ Kindred(p)
    BY <1>1, <2>1, SoundStep
  <2>3. Losses' /\ Empties'
    BY <1>1, <2>1, <2>2, LossStep, EmptyStep DEF Gains
  <2>4. FilesStored'
    BY <1>1, <2>1, <2>2, FilesStep
  <2>5. WireInv'
    BY <1>1, <1>2, <2>1, <2>2, WireStep
  <2> QED BY <1>2, <2>2, <2>3, <2>4, <2>5 DEF CInv
<1> QED BY <1>3, <1>4

\* It says what is wanted.
LEMMA ClosedIs == ASSUME CInv PROVE RefsClosed
<1>1. IInv /\ TInv /\ Types /\ SInv /\ Empties /\ FilesStored /\ WireInv
  BY DEF CInv, IInv, TInv
<1>2. ASSUME NEW r \in Repos, NEW n \in Names, loose[r][n] = Empty
      PROVE  \/ \E p \in Procs : Doing(p, "ref", "write") /\ ThisRef(p) = <<r, n>>
             \/ <<"cut", <<r, n>>>> \in marks
  BY <1>1, <1>2 DEF Empties, On, Doing, ThisRef, Do
<1>3. ASSUME NEW r \in Repos, NEW n \in Names, IsCommit(loose[r][n]),
             ~Marked("dropped"), ~Marked("late"), ~Marked("unlisted")
      PROVE  History(loose[r][n]) \subseteq odb[r]
  BY <1>1, <1>3 DEF SInv, Clean, Closed, Holds
<1>4. ASSUME NEW r \in Repos, idx[r] # NoFile, ~Marked("dropped"), NEW c \in ToSet(disk[idx[r]])
      PROVE  c \in odb[r] \cup {NoCommit}
  <2>1. idx[r] \in {0} \cup Procs /\ Uses(r, idx[r])
    BY <1>1, <1>4 DEF Uses, Types, TreeOK
  <2> QED BY <1>1, <1>4, <2>1 DEF FilesStored, Has
<1>5. ASSUME Quiet, faults = MaxFaults, ~Marked("late"), ~Marked("unlisted"), NEW m \in marks, m[1] = "want"
      PROVE  History(m[2]) \subseteq odb["local"]
  <2>1. Wire
    BY <1>1, <1>5 DEF WireInv, Clean
  <2>2. \A p \in Procs : proc[p].list = {}
    BY <1>1, <1>5 DEF SInv, Sound, ListOK, Quiet
  <2>3. Due("local") = odb["local"]
    BY <2>2 DEF Due
  <2> QED BY <1>5, <2>1, <2>3 DEF Wire
<1> QED BY <1>2, <1>3, <1>4, <1>5 DEF RefsClosed

\* A reference's file is empty only while somebody is about to write it, or after a
\* writer that was killed or failed there (repository.c:400).  What references name is
\* stored with its whole history, and what the index file lists is stored, through any
\* interleaving of any number of commands, failures and crashes, unless an object's
\* failed write was ignored, a repository gained commits after its objects were listed
\* (protocol.c:795) or some of what was to be listed only a pack had (odb.c:631); and what fetches over the wire asked for is stored when all are done
\* and nothing failed, though each tells the server of commits whose parents another is
\* still unpacking (protocol.c:480).
THEOREM RefsClosedCorrect == Spec => []RefsClosed
<1>1. Init => CInv
  BY InitIndex, InitClosed DEF CInv
<1>2. CInv /\ [Next]_vars => CInv'
  BY ClosedKept
<1>3. CInv => RefsClosed
  BY ClosedIs
<1> QED BY <1>1, <1>2, <1>3, PTL DEF Spec
=============================================================================
