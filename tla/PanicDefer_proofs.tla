------------------------- MODULE PanicDefer_proofs -------------------------
(***************************************************************************)
(* No panic of a single-threaded program is lost: for every program, of    *)
(* any number and length of functions, recursive ones included.            *)
(***************************************************************************)
EXTENDS PanicDefer, SequenceTheorems, WellFoundedInduction, TLAPS

Sites == Fns \X Nat
Payloads == Sites \cup {NoPanic}
FrameSet == [fn : Fns, pc : Nat \ {0}, defers : Seq(Fns), dropping : BOOLEAN, unwind : Payloads]
Entries == Fns \X Nat \X Payloads

Frames(g) == {stack[g][k] : k \in 1..Len(stack[g])}

Shapes ==
  /\ prog \in Programs
  /\ stack \in [Goroutines -> Seq(FrameSet)]
  /\ raising \in [Goroutines -> Payloads]
  /\ payload \in Payloads
  /\ log \in [Goroutines -> Seq(Entries)]
  /\ \A g \in Goroutines : \A f \in Frames(g) : f.unwind # NoPanic => f.dropping

RaisedAt(i) == Stmt(log[Main][i][1], log[Main][i][2]).op \in {"panic", "fault"}
Newest(n) == /\ n \in DOMAIN log[Main] /\ RaisedAt(n)
             /\ \A m \in DOMAIN log[Main] : RaisedAt(m) => m <= n

SiteAt(i) == <<log[Main][i][1], log[Main][i][2]>>
Recovered(site) == \E i \in DOMAIN log[Main] : log[Main][i][3] = site

\* Where the panic raised last is until it is recovered: it unwinds, or it is
\* in the slot while a defer stack that will re-raise it is dropped, or it
\* waits for the defer stack that an unwinding drops.
Alive(site) ==
  \/ raising[Main] = site
  \/ raising[Main] = NoPanic /\ payload = site /\ \E f \in Frames(Main) : f.dropping
  \/ \E f \in Frames(Main) : f.unwind = site

NewestKept ==
  \A n \in DOMAIN log[Main] : Newest(n) =>
    /\ status = "running" => Recovered(SiteAt(n)) \/ Alive(SiteAt(n))
    /\ status = "exited" => Recovered(SiteAt(n))

IInv == Shapes /\ NewestKept

-----------------------------------------------------------------------------
\* What a stack consists of after its top is replaced, pushed on, or popped.
ElementsOf(s) == {s[k] : k \in 1..Len(s)}

LEMMA AppendElements ==
  ASSUME NEW S, NEW s \in Seq(S), NEW x \in S
  PROVE  /\ Append(s, x) \in Seq(S)
         /\ ElementsOf(Append(s, x)) = ElementsOf(s) \cup {x}
         /\ Append(s, x) # <<>> /\ Last(Append(s, x)) = x
<1>1. /\ Append(s, x) \in Seq(S) /\ Len(Append(s, x)) = Len(s) + 1 /\ Len(s) \in Nat
      /\ \A k \in 1..Len(s) : Append(s, x)[k] = s[k]
      /\ Append(s, x)[Len(s) + 1] = x
  OBVIOUS
<1>2. 1..Len(s) + 1 = (1..Len(s)) \cup {Len(s) + 1}
  BY <1>1
<1>3. ElementsOf(Append(s, x)) = ElementsOf(s) \cup {x}
  BY <1>1, <1>2 DEF ElementsOf
<1>4. Append(s, x) # <<>>
  BY <1>1
<1> QED
  BY <1>1, <1>3, <1>4 DEF Last

LEMMA FrontElements ==
  ASSUME NEW S, NEW s \in Seq(S), s # <<>>
  PROVE  /\ Front(s) \in Seq(S) /\ Last(s) \in S
         /\ ElementsOf(s) = ElementsOf(Front(s)) \cup {Last(s)}
<1>1. Len(s) \in Nat \ {0} /\ \A k \in 1..Len(s) : s[k] \in S
  OBVIOUS
<1> DEFINE t == Front(s)
           n == Len(s)
           l == Len(t)
<1>2. /\ t \in Seq(S)
      /\ l = IF 1 <= n - 1 THEN n - 1 - 1 + 1 ELSE 0
      /\ \A k \in 1 .. n - 1 - 1 + 1 : t[k] = s[1 + k - 1]
  <2>1. t = SubSeq(s, 1, Len(s) - 1)
    BY DEF Front
  <2>2. \A k \in 1 .. Len(s) - 1 : s[k] \in S
    BY <1>1
  <2> HIDE DEF t
  <2> QED
    BY <1>1, <2>1, <2>2, SubSeqProperties, 1 \in Int, Len(s) - 1 \in Int
<1> HIDE DEF t, n, l
<1>3. l = n - 1 /\ \A k \in 1 .. n - 1 : t[k] = s[k]
  <2>1. n \in Nat \ {0}
    BY <1>1 DEF n
  <2>2. l = n - 1
    <3>1. l = IF 1 <= n - 1 THEN n - 1 - 1 + 1 ELSE 0
      BY <1>2, Zenon
    <3> QED BY <2>1, <3>1
  <2>3. ASSUME NEW k \in 1 .. n - 1 PROVE t[k] = s[k]
    <3>1. k \in 1 .. n - 1 - 1 + 1 /\ 1 + k - 1 = k
      BY <2>1
    <3>2. t[k] = s[1 + k - 1]
      BY <1>2, <3>1
    <3> QED BY <3>1, <3>2
  <2> QED BY <2>2, <2>3
<1>4. 1..Len(s) = (1..Len(s) - 1) \cup {Len(s)}
  BY <1>1
<1>5. ElementsOf(s) = ElementsOf(Front(s)) \cup {Last(s)}
  BY <1>3, <1>4 DEF ElementsOf, Last, t, n, l
<1> QED
  BY <1>1, <1>2, <1>5 DEF Last, t

Under(g) == ElementsOf(Front(stack[g]))

LEMMA TheTop ==
  ASSUME Shapes, NEW g \in Goroutines, stack[g] # <<>>
  PROVE  /\ Top(g) \in FrameSet /\ Below(g) \in Seq(FrameSet)
         /\ Frames(g) = Under(g) \cup {Top(g)}
         /\ Under(g) = ElementsOf(Below(g))
  BY FrontElements DEF Shapes, Top, Below, Frames, Under, ElementsOf

LEMMA SetTopStep ==
  ASSUME Shapes, NEW g \in Goroutines, stack[g] # <<>>, NEW frame \in FrameSet, SetTop(g, frame)
  PROVE  stack' \in [Goroutines -> Seq(FrameSet)] /\ Frames(g)' = Under(g) \cup {frame}
         /\ \A h \in Goroutines \ {g} : stack'[h] = stack[h]
<1>1. Below(g) \in Seq(FrameSet) /\ Under(g) = ElementsOf(Below(g))
  BY TheTop
<1>2. stack' = [stack EXCEPT ![g] = Append(Below(g), frame)]
  BY DEF SetTop
<1>3. Append(Below(g), frame) \in Seq(FrameSet)
      /\ ElementsOf(Append(Below(g), frame)) = Under(g) \cup {frame}
  BY <1>1, AppendElements
<1>4. stack'[g] = Append(Below(g), frame)
  BY <1>2 DEF Shapes
<1> QED
  BY <1>2, <1>3, <1>4 DEF Shapes, Frames, ElementsOf

LEMMA EnterStep ==
  ASSUME Shapes, NEW g \in Goroutines, stack[g] # <<>>, NEW frame \in FrameSet, NEW f \in Fns,
         Enter(g, frame, f)
  PROVE  /\ stack' \in [Goroutines -> Seq(FrameSet)]
         /\ Frames(g)' = Under(g) \cup {frame, Frame(f)}
         /\ \A h \in Goroutines \ {g} : stack'[h] = stack[h]
         /\ ~Frame(f).dropping /\ Frame(f).unwind = NoPanic
<1>1. Below(g) \in Seq(FrameSet) /\ Under(g) = ElementsOf(Below(g)) /\ Frame(f) \in FrameSet
  <2>1. <<>> \in Seq(Fns)
    OBVIOUS
  <2>2. Frame(f) \in FrameSet
    BY <2>1 DEF Frame, FrameSet, Payloads
  <2> QED
    BY <2>2, TheTop
<1> DEFINE pushed == Append(Below(g), frame)
<1>2. pushed \in Seq(FrameSet) /\ ElementsOf(pushed) = Under(g) \cup {frame}
  BY <1>1, AppendElements
<1> HIDE DEF pushed
<1>3. pushed \o <<Frame(f)>> = Append(pushed, Frame(f))
  BY <1>1, <1>2
<1>4. stack' = [stack EXCEPT ![g] = Append(pushed, Frame(f))]
  BY <1>3 DEF Enter, pushed
<1>5. Append(pushed, Frame(f)) \in Seq(FrameSet)
      /\ ElementsOf(Append(pushed, Frame(f))) = Under(g) \cup {frame, Frame(f)}
  BY <1>1, <1>2, AppendElements
<1>6. stack'[g] = Append(pushed, Frame(f))
  BY <1>4 DEF Shapes
<1> QED
  BY <1>4, <1>5, <1>6 DEF Shapes, Frames, ElementsOf, Frame

LEMMA PopStep ==
  ASSUME Shapes, NEW g \in Goroutines, stack[g] # <<>>, PopFrame(g)
  PROVE  stack' \in [Goroutines -> Seq(FrameSet)] /\ Frames(g)' = Under(g)
         /\ \A h \in Goroutines \ {g} : stack'[h] = stack[h]
<1>1. Below(g) \in Seq(FrameSet) /\ Under(g) = ElementsOf(Below(g))
  BY TheTop
<1>2. stack' = [stack EXCEPT ![g] = Below(g)]
  BY DEF PopFrame
<1>3. stack'[g] = Below(g)
  BY <1>2 DEF Shapes
<1> QED
  BY <1>1, <1>2, <1>3 DEF Shapes, Frames, ElementsOf

-----------------------------------------------------------------------------
\* A statement is logged: the panic raised last stays the one it was, or it is
\* the statement's own.
LEMMA LogStep ==
  ASSUME Shapes, NEW g \in Goroutines, g = Main, NEW op, AtStmt(g, op), NEW v \in Payloads, Log(g, v)
  PROVE  /\ log' \in [Goroutines -> Seq(Entries)]
         /\ Site(g) \in Sites /\ Callee(g) \in Fns
         /\ \A n \in DOMAIN log'[Main] : Newest(n)' =>
              IF op \in {"panic", "fault"} THEN SiteAt(n)' = Site(g)
              ELSE \E m \in DOMAIN log[Main] : Newest(m) /\ SiteAt(n)' = SiteAt(m)
         /\ \A site : Recovered(site)' <=> Recovered(site) \/ site = v
<1> DEFINE old == log[Main]
           new == log'[Main]
           e == <<Top(g).fn, Top(g).pc, v>>
<1>1. /\ stack[g] # <<>> /\ Stmt(Top(g).fn, Top(g).pc).op = op /\ prog' = prog
      /\ Top(g).pc \in 1..Len(prog.body[Top(g).fn])
  BY DEF AtStmt, Running
<1>2. Top(g) \in FrameSet
  BY <1>1, TheTop
<1>3. /\ e \in Entries /\ Site(g) \in Sites /\ Site(g) = <<e[1], e[2]>> /\ e[3] = v
      /\ Callee(g) \in Fns
  BY <1>1, <1>2, ProgramsOK DEF Shapes, FrameSet, Entries, Sites, Site, Callee, Stmt
<1>4. old \in Seq(Entries) /\ new = Append(old, e) /\ log' = [log EXCEPT ![g] = new]
  BY DEF Shapes, Log
<1> HIDE DEF old, new, e
<1>5. /\ new \in Seq(Entries) /\ Len(old) \in Nat /\ DOMAIN old = 1..Len(old)
      /\ DOMAIN new = 1..Len(old) + 1 /\ new[Len(old) + 1] = e
      /\ \A i \in 1..Len(old) : new[i] = old[i]
  BY <1>3, <1>4
<1>6. log' \in [Goroutines -> Seq(Entries)]
  BY <1>4, <1>5 DEF Shapes
<1>7. \A site : Recovered(site)' <=> Recovered(site) \/ site = v
  BY <1>3, <1>5 DEF Recovered, old, new
<1>8. ASSUME NEW n \in DOMAIN new, Newest(n)'
      PROVE  IF op \in {"panic", "fault"} THEN SiteAt(n)' = Site(g)
             ELSE \E m \in DOMAIN old : Newest(m) /\ SiteAt(n)' = SiteAt(m)
  <2>1. \A i \in 1..Len(old) : RaisedAt(i)' <=> RaisedAt(i)
    BY <1>1, <1>5 DEF RaisedAt, Stmt, old, new
  <2>2. \A i : i = Len(old) + 1 => (RaisedAt(i)' <=> op \in {"panic", "fault"})
    BY <1>1, <1>5 DEF RaisedAt, Stmt, new, e
  <2>3. CASE op \in {"panic", "fault"}
    <3>1. n = Len(old) + 1
      <4>1. \A m \in 1..Len(old) + 1 : RaisedAt(m)' => m <= n
        BY <1>5, <1>8 DEF Newest, new
      <4>2. Len(old) + 1 <= n
        BY <1>5, <2>2, <2>3, <4>1
      <4> QED
        BY <1>5, <4>2
    <3> QED
      BY <1>3, <1>5, <2>3, <3>1 DEF SiteAt, new
  <2>4. CASE op \notin {"panic", "fault"}
    <3>1. n \in 1..Len(old)
      BY <1>5, <1>8, <2>2, <2>4 DEF Newest, new
    <3>2. Newest(n)
      BY <1>5, <1>8, <2>1, <3>1 DEF Newest, old, new
    <3>3. SiteAt(n)' = SiteAt(n)
      BY <1>5, <3>1 DEF SiteAt, old, new
    <3> QED
      BY <1>5, <2>4, <3>1, <3>2, <3>3
  <2> QED
    BY <2>3, <2>4
<1> QED
  BY <1>3, <1>6, <1>7, <1>8 DEF old, new

LEMMA SitesRaise == NoPanic \notin Sites /\ Sites \subseteq Payloads /\ Main \in Goroutines
  BY ProgramsOK DEF Sites, Payloads

LEMMA SitesOfLog == ASSUME Shapes, NEW m \in DOMAIN log[Main] PROVE SiteAt(m) \in Sites
<1>1. log[Main][m] \in Entries
  BY SitesRaise DEF Shapes
<1> QED
  BY <1>1 DEF Entries, SiteAt, Sites

\* A statement that raises nothing, and that leaves the panic alive or recovers it.
LEMMA LoggedKept ==
  ASSUME Shapes, NewestKept, NEW op \in Ops \ {"panic", "fault"}, AtStmt(Main, op),
         NEW v \in Payloads, Log(Main, v),
         \A site \in Sites : Alive(site) => site = v \/ Alive(site)'
  PROVE  NewestKept' /\ log' \in [Goroutines -> Seq(Entries)]
<1>1. status = "running" /\ status' = "running"
  BY DEF AtStmt, Running
<1>2. ASSUME NEW n \in DOMAIN log'[Main], Newest(n)' PROVE Recovered(SiteAt(n))' \/ Alive(SiteAt(n))'
  <2>1. PICK m \in DOMAIN log[Main] : Newest(m) /\ SiteAt(n)' = SiteAt(m)
    BY <1>2, LogStep, SitesRaise
  <2>2. Recovered(SiteAt(m)) \/ Alive(SiteAt(m))
    BY <1>1, <2>1 DEF NewestKept
  <2>3. \A site \in Sites : Recovered(site) \/ Alive(site) => Recovered(site)' \/ Alive(site)'
    BY LogStep, SitesRaise
  <2>4. \A site \in Sites : site = SiteAt(n)' =>
          (Recovered(site)' \/ Alive(site)' => Recovered(SiteAt(n))' \/ Alive(SiteAt(n))')
    BY DEF Recovered, Alive
  <2> QED
    BY <2>1, <2>2, <2>3, <2>4, SitesOfLog
<1> QED
  BY <1>1, <1>2, LogStep, SitesRaise DEF NewestKept

\* A statement that raises its own site.
LEMMA RaisedKept ==
  ASSUME Shapes, NewestKept, NEW op \in {"panic", "fault"}, AtStmt(Main, op), Log(Main, NoPanic),
         \A site \in Sites : site = Site(Main) => Alive(site)'
  PROVE  NewestKept' /\ log' \in [Goroutines -> Seq(Entries)]
<1>1. status = "running" /\ status' = "running"
  BY DEF AtStmt, Running
<1>2. NoPanic \in Payloads
  BY DEF Payloads
<1>3. ASSUME NEW n \in DOMAIN log'[Main], Newest(n)' PROVE Alive(SiteAt(n))'
  <2>1. SiteAt(n)' = Site(Main) /\ Site(Main) \in Sites
    BY <1>2, <1>3, LogStep, SitesRaise
  <2>2. \A site \in Sites : site = SiteAt(n)' => (Alive(site)' => Alive(SiteAt(n))')
    BY DEF Alive
  <2> QED
    BY <2>1, <2>2
<1> QED
  BY <1>1, <1>2, <1>3, LogStep, SitesRaise DEF NewestKept

\* A step of the machinery, which logs nothing.
LEMMA SilentKept ==
  ASSUME Shapes, NewestKept, status = "running", UNCHANGED <<prog, log>>,
         \/ status' = "aborted"
         \/ status' = "running" /\ \A site \in Sites : Alive(site) => Alive(site)'
  PROVE  NewestKept'
<1>1. ASSUME NEW n \in DOMAIN log'[Main], Newest(n)', status' # "aborted"
      PROVE  Recovered(SiteAt(n))' \/ Alive(SiteAt(n))'
  <2>1. n \in DOMAIN log[Main] /\ Newest(n) /\ SiteAt(n)' = SiteAt(n)
    BY <1>1 DEF Newest, RaisedAt, Stmt, SiteAt
  <2>2. Recovered(SiteAt(n)) \/ Alive(SiteAt(n))
    BY <2>1 DEF NewestKept
  <2>3. \A site : Recovered(site) => Recovered(site)'
    BY DEF Recovered
  <2>4. \A site : site = SiteAt(n)' =>
          (Recovered(site)' \/ Alive(site)' => Recovered(SiteAt(n))' \/ Alive(SiteAt(n))')
    BY DEF Recovered, Alive
  <2> QED
    BY <1>1, <2>1, <2>2, <2>3, <2>4, SitesOfLog
<1> QED
  BY <1>1 DEF NewestKept

-----------------------------------------------------------------------------
\* The steps of a process whose only goroutine is main.
Tame(frames) == \A f \in frames : f.unwind # NoPanic => f.dropping

LEMMA ShapesStep ==
  ASSUME Goroutines = {Main}, Shapes, prog' = prog, stack' \in [Goroutines -> Seq(FrameSet)],
         raising' \in [Goroutines -> Payloads], payload' \in Payloads,
         log' \in [Goroutines -> Seq(Entries)], Tame(Frames(Main)')
  PROVE  Shapes'
  BY DEF Shapes, Tame, Frames

\* Main at a statement: its top frame and the ones under it.
LEMMA AtTop ==
  ASSUME Shapes, stack[Main] # <<>>
  PROVE  /\ Top(Main) \in FrameSet /\ Frames(Main) = Under(Main) \cup {Top(Main)}
         /\ Tame(Under(Main)) /\ (Top(Main).unwind # NoPanic => Top(Main).dropping)
         /\ raising[Main] \in Payloads /\ payload \in Payloads
  BY TheTop, SitesRaise DEF Shapes, Tame

LEMMA NextFrame ==
  ASSUME Shapes, NEW op, AtStmt(Main, op)
  PROVE  /\ stack[Main] # <<>> /\ status = "running" /\ status' = "running" /\ prog' = prog
         /\ raising[Main] = NoPanic /\ ~Top(Main).dropping /\ Top(Main).unwind = NoPanic
         /\ Next1(Main) \in FrameSet /\ Next1(Main).unwind = NoPanic /\ ~Next1(Main).dropping
         /\ Callee(Main) \in Fns /\ Site(Main) \in Sites
         /\ Next1(Main).defers = Top(Main).defers
<1>1. stack[Main] # <<>> /\ raising[Main] = NoPanic /\ ~Top(Main).dropping
      /\ Top(Main).pc \in 1..Len(prog.body[Top(Main).fn])
  BY DEF AtStmt, Running
<1>2. Top(Main) \in FrameSet /\ Top(Main).unwind = NoPanic
  BY <1>1, AtTop
<1>3. Next1(Main) \in FrameSet /\ Next1(Main).unwind = NoPanic /\ ~Next1(Main).dropping
      /\ Next1(Main).defers = Top(Main).defers
  BY <1>1, <1>2 DEF FrameSet, Next1
<1>4. Callee(Main) \in Fns /\ Site(Main) \in Sites
  BY <1>1, <1>2, ProgramsOK DEF Shapes, FrameSet, Sites, Site, Callee, Stmt
<1> QED
  BY <1>1, <1>2, <1>3, <1>4 DEF AtStmt, Running

LEMMA CallStep == ASSUME Goroutines = {Main}, IInv, Call(Main) PROVE IInv'
<1>1. Shapes /\ NewestKept /\ AtStmt(Main, "call") /\ Log(Main, NoPanic)
      /\ raising' = raising /\ payload' = payload /\ Enter(Main, Next1(Main), Callee(Main))
  BY DEF IInv, Call
<1>2. stack' \in [Goroutines -> Seq(FrameSet)]
      /\ Frames(Main)' = Under(Main) \cup {Next1(Main), Frame(Callee(Main))}
      /\ ~Frame(Callee(Main)).dropping /\ Frame(Callee(Main)).unwind = NoPanic
  BY <1>1, EnterStep, NextFrame, SitesRaise
<1>3. \A site \in Sites : Alive(site) => Alive(site)'
  BY <1>1, <1>2, AtTop, NextFrame, SitesRaise DEF Alive
<1>4. NewestKept' /\ log' \in [Goroutines -> Seq(Entries)]
  BY <1>1, <1>3, LoggedKept DEF Payloads, Ops
<1>5. Tame(Frames(Main)')
  BY <1>1, <1>2, AtTop, NextFrame DEF Tame
<1>6. Shapes'
  BY <1>1, <1>2, <1>4, <1>5, ShapesStep, NextFrame DEF Shapes
<1> QED
  BY <1>4, <1>6 DEF IInv

LEMMA DeferStep == ASSUME Goroutines = {Main}, IInv, Defer(Main) PROVE IInv'
<1> DEFINE frame == [Next1(Main) EXCEPT !.defers = Append(@, Callee(Main))]
<1>1. Shapes /\ NewestKept /\ AtStmt(Main, "defer") /\ Log(Main, NoPanic)
      /\ raising' = raising /\ payload' = payload /\ SetTop(Main, frame)
  BY DEF IInv, Defer
<1>2. frame \in FrameSet /\ frame.unwind = NoPanic /\ ~frame.dropping
  <2>1. Next1(Main) \in FrameSet /\ Next1(Main).unwind = NoPanic /\ ~Next1(Main).dropping
        /\ Append(Next1(Main).defers, Callee(Main)) \in Seq(Fns)
    BY <1>1, NextFrame DEF FrameSet
  <2> QED
    BY <2>1 DEF FrameSet
<1> HIDE DEF frame
<1>3. stack' \in [Goroutines -> Seq(FrameSet)] /\ Frames(Main)' = Under(Main) \cup {frame}
  BY <1>1, <1>2, SetTopStep, NextFrame, SitesRaise
<1>4. \A site \in Sites : Alive(site) => Alive(site)'
  BY <1>1, <1>2, <1>3, AtTop, NextFrame, SitesRaise DEF Alive
<1>5. NewestKept' /\ log' \in [Goroutines -> Seq(Entries)]
  BY <1>1, <1>4, LoggedKept DEF Payloads, Ops
<1>6. Tame(Frames(Main)')
  BY <1>1, <1>2, <1>3, AtTop, NextFrame DEF Tame
<1>7. Shapes'
  BY <1>1, <1>3, <1>5, <1>6, ShapesStep, NextFrame DEF Shapes
<1> QED
  BY <1>5, <1>7 DEF IInv

LEMMA PanicStep == ASSUME Goroutines = {Main}, IInv, Panic(Main) PROVE IInv'
<1> DEFINE frame == [Next1(Main) EXCEPT !.dropping = TRUE]
<1>1. Shapes /\ NewestKept /\ AtStmt(Main, "panic") /\ Log(Main, NoPanic)
  BY DEF IInv, Panic
<1>2. frame \in FrameSet /\ frame.dropping
  BY <1>1, NextFrame DEF FrameSet
<1>3. CASE Caught(Top(Main).fn)
  <2>1. payload' = Site(Main) /\ SetTop(Main, frame) /\ raising' = raising
    BY <1>3 DEF Panic
  <2> HIDE DEF frame
  <2>2. stack' \in [Goroutines -> Seq(FrameSet)] /\ Frames(Main)' = Under(Main) \cup {frame}
    BY <1>1, <1>2, <2>1, SetTopStep, NextFrame, SitesRaise
  <2>3. \A site \in Sites : site = Site(Main) => Alive(site)'
    BY <1>1, <1>2, <2>1, <2>2, NextFrame DEF Alive
  <2>4. NewestKept' /\ log' \in [Goroutines -> Seq(Entries)]
    BY <1>1, <2>3, RaisedKept
  <2>5. Tame(Frames(Main)')
    BY <1>1, <1>2, <2>2, AtTop, NextFrame DEF Tame
  <2>6. Shapes'
    BY <1>1, <2>1, <2>2, <2>4, <2>5, ShapesStep, NextFrame, SitesRaise DEF Shapes
  <2> QED
    BY <2>4, <2>6 DEF IInv
<1>4. CASE ~Caught(Top(Main).fn)
  <2>1. raising' = [raising EXCEPT ![Main] = Site(Main)] /\ payload' = payload /\ stack' = stack
    BY <1>4 DEF Panic, Raise
  <2>2. raising' \in [Goroutines -> Payloads] /\ raising'[Main] = Site(Main)
    BY <1>1, <2>1, NextFrame, SitesRaise DEF Shapes
  <2>3. \A site \in Sites : site = Site(Main) => Alive(site)'
    BY <2>2 DEF Alive
  <2>4. NewestKept' /\ log' \in [Goroutines -> Seq(Entries)]
    BY <1>1, <2>3, RaisedKept
  <2>5. Tame(Frames(Main)')
    BY <1>1, <2>1, SitesRaise DEF Tame, Shapes, Frames
  <2>6. Shapes'
    BY <1>1, <2>1, <2>2, <2>4, <2>5, ShapesStep, NextFrame DEF Shapes
  <2> QED
    BY <2>4, <2>6 DEF IInv
<1> QED
  BY <1>3, <1>4

LEMMA FaultStep == ASSUME Goroutines = {Main}, IInv, Fault(Main) PROVE IInv'
<1>1. Shapes /\ NewestKept /\ AtStmt(Main, "fault") /\ Log(Main, NoPanic)
      /\ raising' = [raising EXCEPT ![Main] = Site(Main)] /\ payload' = payload /\ stack' = stack
  BY DEF IInv, Fault, Raise
<1>2. raising' \in [Goroutines -> Payloads] /\ raising'[Main] = Site(Main)
  BY <1>1, NextFrame, SitesRaise DEF Shapes
<1>3. \A site \in Sites : site = Site(Main) => Alive(site)'
  BY <1>2 DEF Alive
<1>4. NewestKept' /\ log' \in [Goroutines -> Seq(Entries)]
  BY <1>1, <1>3, RaisedKept
<1>5. Tame(Frames(Main)')
  BY <1>1, SitesRaise DEF Tame, Shapes, Frames
<1>6. Shapes'
  BY <1>1, <1>2, <1>4, <1>5, ShapesStep, NextFrame DEF Shapes
<1> QED
  BY <1>4, <1>6 DEF IInv

LEMMA RecoverStep == ASSUME Goroutines = {Main}, IInv, Recover(Main) PROVE IInv'
<1>1. Shapes /\ NewestKept /\ AtStmt(Main, "recover") /\ Log(Main, payload)
      /\ raising' = raising /\ payload' = NoPanic /\ SetTop(Main, Next1(Main))
  BY DEF IInv, Recover
<1>2. stack' \in [Goroutines -> Seq(FrameSet)] /\ Frames(Main)' = Under(Main) \cup {Next1(Main)}
  BY <1>1, SetTopStep, NextFrame, SitesRaise
<1>3. \A site \in Sites : Alive(site) => site = payload \/ Alive(site)'
  BY <1>1, <1>2, AtTop, NextFrame, SitesRaise DEF Alive
<1>4. NewestKept' /\ log' \in [Goroutines -> Seq(Entries)]
  BY <1>1, <1>3, LoggedKept DEF Shapes, Ops
<1>5. Tame(Frames(Main)')
  BY <1>1, <1>2, AtTop, NextFrame DEF Tame
<1>6. Shapes'
  BY <1>1, <1>2, <1>4, <1>5, ShapesStep, NextFrame DEF Shapes, Payloads
<1> QED
  BY <1>4, <1>6 DEF IInv

-----------------------------------------------------------------------------
\* A frame of main is replaced or popped, and what is raised or kept changes.
LEMMA SilentStep ==
  ASSUME Goroutines = {Main}, Shapes, NewestKept, status = "running", UNCHANGED <<prog, log>>,
         stack' \in [Goroutines -> Seq(FrameSet)], raising' \in [Goroutines -> Payloads],
         payload' \in Payloads, Tame(Frames(Main)'),
         \/ status' = "aborted"
         \/ status' = "running" /\ \A site \in Sites : Alive(site) => Alive(site)'
  PROVE  IInv'
<1>1. NewestKept'
  BY SilentKept
<1>2. log' \in [Goroutines -> Seq(Entries)]
  BY DEF Shapes
<1> QED
  BY <1>1, <1>2, ShapesStep DEF IInv

LEMMA ReturnStep == ASSUME Goroutines = {Main}, IInv, Return(Main) PROVE IInv'
<1> DEFINE frame == [Top(Main) EXCEPT !.dropping = TRUE]
<1>1. Shapes /\ NewestKept /\ status = "running" /\ status' = "running" /\ UNCHANGED <<prog, log>>
      /\ stack[Main] # <<>> /\ raising[Main] = NoPanic /\ ~Top(Main).dropping
      /\ raising' = raising /\ payload' = payload
  BY DEF IInv, Return, Running
<1>2. Top(Main) \in FrameSet /\ Frames(Main) = Under(Main) \cup {Top(Main)}
      /\ Tame(Under(Main)) /\ Top(Main).unwind = NoPanic
  BY <1>1, AtTop
<1>3. CASE HasDefer(Top(Main).fn)
  <2>1. SetTop(Main, frame)
    BY <1>3 DEF Return
  <2>2. frame \in FrameSet /\ frame.dropping /\ frame.unwind = Top(Main).unwind
    BY <1>2 DEF FrameSet
  <2> HIDE DEF frame
  <2>3. stack' \in [Goroutines -> Seq(FrameSet)] /\ Frames(Main)' = Under(Main) \cup {frame}
    BY <1>1, <2>1, <2>2, SetTopStep, SitesRaise
  <2>4. \A site \in Sites : Alive(site) => Alive(site)'
    BY <1>1, <1>2, <2>2, <2>3, SitesRaise DEF Alive
  <2>5. Tame(Frames(Main)')
    BY <1>2, <2>2, <2>3 DEF Tame
  <2> QED
    BY <1>1, <2>3, <2>4, <2>5, SilentStep DEF Shapes
<1>4. CASE ~HasDefer(Top(Main).fn)
  <2>1. PopFrame(Main)
    BY <1>4 DEF Return
  <2>2. stack' \in [Goroutines -> Seq(FrameSet)] /\ Frames(Main)' = Under(Main)
    BY <1>1, <2>1, PopStep, SitesRaise
  <2>3. \A site \in Sites : Alive(site) => Alive(site)'
    BY <1>1, <1>2, <2>2, SitesRaise DEF Alive
  <2>4. Tame(Frames(Main)')
    BY <1>2, <2>2
  <2> QED
    BY <1>1, <2>2, <2>3, <2>4, SilentStep DEF Shapes
<1> QED
  BY <1>3, <1>4

LEMMA RunDeferredStep == ASSUME Goroutines = {Main}, IInv, RunDeferred(Main) PROVE IInv'
<1> DEFINE frame == [Top(Main) EXCEPT !.defers = Front(@)]
           f == Last(Top(Main).defers)
<1>1. Shapes /\ NewestKept /\ status = "running" /\ status' = "running" /\ UNCHANGED <<prog, log>>
      /\ stack[Main] # <<>> /\ raising[Main] = NoPanic /\ Top(Main).dropping
      /\ raising' = raising /\ payload' = payload /\ Top(Main).defers # <<>>
      /\ Enter(Main, frame, f)
  BY DEF IInv, RunDeferred, Running
<1>2. Top(Main) \in FrameSet /\ Frames(Main) = Under(Main) \cup {Top(Main)} /\ Tame(Under(Main))
  BY <1>1, AtTop
<1>3. frame \in FrameSet /\ frame.dropping /\ frame.unwind = Top(Main).unwind /\ f \in Fns
  <2>1. Top(Main).defers \in Seq(Fns)
    BY <1>2 DEF FrameSet
  <2>2. Front(Top(Main).defers) \in Seq(Fns) /\ Last(Top(Main).defers) \in Fns
    BY <1>1, <2>1, FrontElements
  <2> QED
    BY <1>1, <1>2, <2>2 DEF FrameSet
<1> HIDE DEF frame, f
<1>4. stack' \in [Goroutines -> Seq(FrameSet)] /\ Frames(Main)' = Under(Main) \cup {frame, Frame(f)}
      /\ ~Frame(f).dropping /\ Frame(f).unwind = NoPanic
  BY <1>1, <1>3, EnterStep, SitesRaise
<1>5. \A site \in Sites : Alive(site) => Alive(site)'
  BY <1>1, <1>2, <1>3, <1>4, SitesRaise DEF Alive
<1>6. Tame(Frames(Main)')
  BY <1>2, <1>3, <1>4 DEF Tame
<1> QED
  BY <1>1, <1>4, <1>5, <1>6, SilentStep DEF Shapes

LEMMA EndDropStep == ASSUME Goroutines = {Main}, IInv, EndDrop(Main) PROVE IInv'
<1> DEFINE v == IF payload # NoPanic THEN payload ELSE Top(Main).unwind
<1>1. Shapes /\ NewestKept /\ status = "running" /\ UNCHANGED <<prog, log>>
      /\ stack[Main] # <<>> /\ raising[Main] = NoPanic /\ payload' = NoPanic
  BY DEF IInv, EndDrop, Running
<1>2. Top(Main) \in FrameSet /\ Frames(Main) = Under(Main) \cup {Top(Main)}
      /\ Tame(Under(Main)) /\ Tame(Frames(Main)) /\ payload \in Payloads
  BY <1>1, AtTop DEF Tame
<1>3. NoPanic \in Payloads /\ v \in Payloads
  BY <1>2 DEF Payloads, FrameSet
<1>4. CASE payload # NoPanic /\ Top(Main).unwind # NoPanic
  <2>1. status' = "aborted" /\ stack' = stack /\ raising' = raising
    BY <1>4 DEF EndDrop
  <2>2. Tame(Frames(Main)')
    BY <1>2, <2>1 DEF Frames
  <2> QED
    BY <1>1, <1>3, <2>1, <2>2, SilentStep DEF Shapes
<1>5. CASE ~(payload # NoPanic /\ Top(Main).unwind # NoPanic)
  <2>1. PopFrame(Main) /\ raising' = [raising EXCEPT ![Main] = v] /\ status' = "running"
    BY <1>1, <1>5 DEF EndDrop, Raise
  <2>2. stack' \in [Goroutines -> Seq(FrameSet)] /\ Frames(Main)' = Under(Main)
    BY <1>1, <2>1, PopStep, SitesRaise
  <2>3. raising' \in [Goroutines -> Payloads] /\ raising'[Main] = v
    BY <1>1, <1>3, <2>1, SitesRaise DEF Shapes
  <2>4. \A site \in Sites : Alive(site) => Alive(site)'
    BY <1>1, <1>2, <1>5, <2>2, <2>3, SitesRaise DEF Alive
  <2> QED
    BY <1>1, <1>2, <1>3, <2>1, <2>2, <2>3, <2>4, SilentStep
<1> QED
  BY <1>4, <1>5

LEMMA UnwindStep == ASSUME Goroutines = {Main}, IInv, Unwind(Main) PROVE IInv'
<1> DEFINE f == Top(Main).fn
           caught == [Top(Main) EXCEPT !.dropping = TRUE]
           swept == [Top(Main) EXCEPT !.dropping = TRUE, !.unwind = raising[Main]]
<1>1. Shapes /\ NewestKept /\ status = "running" /\ UNCHANGED <<prog, log>>
      /\ stack[Main] # <<>> /\ raising[Main] # NoPanic
  BY DEF IInv, Unwind, Unwinding
<1>2. Top(Main) \in FrameSet /\ Frames(Main) = Under(Main) \cup {Top(Main)}
      /\ Tame(Under(Main)) /\ raising[Main] \in Payloads /\ payload \in Payloads
      /\ (Top(Main).unwind # NoPanic => Top(Main).dropping)
  BY <1>1, AtTop
<1>3. NoPanic \in Payloads
  BY DEF Payloads
<1>4. /\ caught \in FrameSet /\ caught.dropping /\ caught.unwind = Top(Main).unwind
      /\ swept \in FrameSet /\ swept.dropping /\ swept.unwind = raising[Main]
  BY <1>2 DEF FrameSet
<1>5. \/ /\ ~Top(Main).dropping /\ payload' = raising[Main] /\ Raise(Main, NoPanic)
         /\ SetTop(Main, caught) /\ status' = status
      \/ /\ ~Top(Main).dropping /\ Raise(Main, NoPanic)
         /\ SetTop(Main, swept) /\ payload' = payload /\ status' = status
      \/ /\ Top(Main).unwind = NoPanic
         /\ PopFrame(Main) /\ UNCHANGED <<raising, payload, status>>
      \/ status' = "aborted" /\ UNCHANGED <<stack, raising, payload>>
  BY <1>2 DEF Unwind
<1> HIDE DEF caught, swept
<1>6. CASE /\ ~Top(Main).dropping /\ payload' = raising[Main] /\ Raise(Main, NoPanic)
           /\ SetTop(Main, caught) /\ status' = status
  <2>1. stack' \in [Goroutines -> Seq(FrameSet)] /\ Frames(Main)' = Under(Main) \cup {caught}
    BY <1>1, <1>4, <1>6, SetTopStep, SitesRaise
  <2>2. raising' \in [Goroutines -> Payloads] /\ raising'[Main] = NoPanic
    BY <1>1, <1>3, <1>6, SitesRaise DEF Shapes, Raise
  <2>3. \A site \in Sites : Alive(site) => Alive(site)'
    BY <1>1, <1>2, <1>4, <1>6, <2>1, <2>2, SitesRaise DEF Alive
  <2>4. Tame(Frames(Main)')
    BY <1>2, <1>4, <2>1 DEF Tame
  <2> QED
    BY <1>1, <1>2, <1>6, <2>1, <2>2, <2>3, <2>4, SilentStep
<1>7. CASE /\ ~Top(Main).dropping /\ Raise(Main, NoPanic)
           /\ SetTop(Main, swept) /\ payload' = payload /\ status' = status
  <2>1. stack' \in [Goroutines -> Seq(FrameSet)] /\ Frames(Main)' = Under(Main) \cup {swept}
    BY <1>1, <1>4, <1>7, SetTopStep, SitesRaise
  <2>2. raising' \in [Goroutines -> Payloads] /\ raising'[Main] = NoPanic
    BY <1>1, <1>3, <1>7, SitesRaise DEF Shapes, Raise
  <2>3. \A site \in Sites : Alive(site) => Alive(site)'
    BY <1>1, <1>2, <1>4, <1>7, <2>1, <2>2, SitesRaise DEF Alive
  <2>4. Tame(Frames(Main)')
    BY <1>2, <1>4, <2>1 DEF Tame
  <2> QED
    BY <1>1, <1>2, <1>7, <2>1, <2>2, <2>3, <2>4, SilentStep
<1>8. CASE Top(Main).unwind = NoPanic /\ PopFrame(Main) /\ UNCHANGED <<raising, payload, status>>
  <2>1. stack' \in [Goroutines -> Seq(FrameSet)] /\ Frames(Main)' = Under(Main)
    BY <1>1, <1>8, PopStep, SitesRaise
  <2>2. \A site \in Sites : Alive(site) => Alive(site)'
    BY <1>1, <1>2, <1>8, <2>1, SitesRaise DEF Alive
  <2> QED
    BY <1>1, <1>2, <1>8, <2>1, <2>2, SilentStep DEF Shapes
<1>9. CASE status' = "aborted" /\ UNCHANGED <<stack, raising, payload>>
  <2>1. Tame(Frames(Main)')
    BY <1>1, <1>9, SitesRaise DEF Frames, Shapes, Tame
  <2> QED
    BY <1>1, <1>9, <2>1, SilentStep DEF Shapes
<1> QED
  BY <1>5, <1>6, <1>7, <1>8, <1>9

\* A panic still alive when main's last frame is gone crashes the process.
LEMMA ExitStep == ASSUME Goroutines = {Main}, IInv, Exit PROVE IInv'
<1>1. Shapes /\ NewestKept /\ status = "running" /\ stack[Main] = <<>>
      /\ UNCHANGED <<prog, stack, raising, payload, log>>
      /\ status' = IF raising[Main] = NoPanic THEN "exited" ELSE "crashed"
  BY DEF IInv, Exit
<1>2. Frames(Main) = {}
  BY <1>1 DEF Frames
<1>3. ASSUME NEW n \in DOMAIN log[Main], Newest(n), raising[Main] = NoPanic PROVE Recovered(SiteAt(n))
  <2>1. Recovered(SiteAt(n)) \/ Alive(SiteAt(n))
    BY <1>1, <1>3 DEF NewestKept
  <2>2. SiteAt(n) # NoPanic
    BY <1>1, SitesOfLog, SitesRaise
  <2> QED
    BY <1>2, <1>3, <2>1, <2>2 DEF Alive
<1>4. NewestKept'
  <2>1. \A n \in DOMAIN log[Main] : (Newest(n)' <=> Newest(n)) /\ (Recovered(SiteAt(n))' <=> Recovered(SiteAt(n)))
    BY <1>1 DEF Newest, RaisedAt, Stmt, Recovered, SiteAt
  <2> QED
    BY <1>1, <1>3, <2>1 DEF NewestKept
<1>5. Shapes'
  BY <1>1 DEF Shapes, Frames
<1> QED
  BY <1>4, <1>5 DEF IInv

LEMMA InitIInv == Init => IInv
<1> SUFFICES ASSUME Init PROVE IInv
  OBVIOUS
<1>1. NoPanic \in Payloads /\ <<>> \in Seq(Fns) /\ <<>> \in Seq(Entries)
  BY DEF Payloads
<1>2. \A f \in Fns : Frame(f) \in FrameSet /\ Frame(f).unwind = NoPanic
  BY <1>1 DEF Frame, FrameSet
<1>3. \A g \in Goroutines : Entry[g] \in Fns
  BY ProgramsOK
<1>4. stack \in [Goroutines -> Seq(FrameSet)]
  BY <1>2, <1>3 DEF Init
<1>5. \A g \in Goroutines : Frames(g) = {Frame(Entry[g])}
  BY DEF Init, Frames
<1>6. Shapes
  BY <1>1, <1>2, <1>3, <1>4, <1>5 DEF Init, Shapes
<1>7. DOMAIN log[Main] = {}
  BY SitesRaise DEF Init
<1> QED
  BY <1>6, <1>7 DEF IInv, NewestKept

LEMMA NextIInv == ASSUME Goroutines = {Main}, IInv, [Next]_vars PROVE IInv'
<1>1. CASE Exit
  BY <1>1, ExitStep
<1>2. CASE Step(Main)
  BY <1>2, CallStep, DeferStep, PanicStep, FaultStep, RecoverStep, ReturnStep,
     RunDeferredStep, EndDropStep, UnwindStep DEF Step
<1>3. CASE UNCHANGED vars
  <2>1. Shapes /\ NewestKept /\ UNCHANGED <<prog, stack, raising, payload, status, log>>
    BY <1>3 DEF vars, IInv
  <2>2. Shapes'
    BY <2>1 DEF Shapes, Frames
  <2>3. \A n : /\ Newest(n)' <=> Newest(n)
               /\ Recovered(SiteAt(n))' <=> Recovered(SiteAt(n))
               /\ Alive(SiteAt(n))' <=> Alive(SiteAt(n))
    BY <2>1 DEF Newest, RaisedAt, Stmt, Recovered, SiteAt, Alive, Frames
  <2> QED
    BY <2>1, <2>2, <2>3 DEF IInv, NewestKept
<1> QED
  BY <1>1, <1>2, <1>3 DEF Next

\* A bounded set of numbers that is not empty has a greatest member.
LEMMA GreatestBelow ==
  ASSUME NEW n \in Nat, NEW S \in SUBSET (1..n), S # {}
  PROVE  \E i \in S : \A j \in S : j <= i
<1> DEFINE Bounds == {m \in Nat : \A j \in S : j <= m}
<1>1. n \in Bounds
  OBVIOUS
<1>2. PICK m \in Bounds : \A k \in Bounds : ~(<<k, m>> \in OpToRel(<, Nat))
  BY <1>1, WFMin, NatLessThanWellFounded
<1>3. \A k \in Bounds : m <= k
  <2>1. Bounds \subseteq Nat
    OBVIOUS
  <2> HIDE DEF Bounds
  <2>2. \A k \in Bounds : ~(k < m)
    BY <1>2, <2>1 DEF OpToRel
  <2> QED
    BY <2>1, <2>2
<1>4. m \in S
  <2> SUFFICES ASSUME m \notin S PROVE FALSE
    OBVIOUS
  <2>1. \A j \in S : j \in 1..n /\ j <= m /\ j # m
    OBVIOUS
  <2>2. m \in Nat /\ \A j \in S : j <= m - 1 /\ m - 1 \in Nat
    BY <2>1
  <2>3. m - 1 \in Bounds
    BY <2>2
  <2> QED
    BY <1>3, <2>2, <2>3
<1> QED
  BY <1>4

LEMMA IInvSurfaces == ASSUME IInv PROVE PanicsSurface
<1> SUFFICES ASSUME status = "exited" PROVE PanicsSurface
  BY DEF PanicsSurface
<1> DEFINE raised == {i \in DOMAIN log[Main] : RaisedAt(i)}
           newest == CHOOSE i \in raised : \A j \in raised : j <= i
<1>1. ASSUME raised # {} PROVE Newest(newest)
  <2>1. Len(log[Main]) \in Nat /\ DOMAIN log[Main] = 1..Len(log[Main])
    BY SitesRaise DEF IInv, Shapes
  <2>2. \E i \in raised : \A j \in raised : j <= i
    <3> HIDE DEF newest
    <3>1. raised \in SUBSET (1..Len(log[Main]))
      BY <2>1
    <3> HIDE DEF raised
    <3> QED
      BY <1>1, <2>1, <3>1, GreatestBelow
  <2>3. newest \in raised /\ \A j \in raised : j <= newest
    <3> HIDE DEF raised
    <3> QED
      BY <2>2
  <2> HIDE DEF newest
  <2> QED
    BY <2>3 DEF Newest
<1>2. ASSUME raised # {} PROVE \E i \in DOMAIN log[Main] : log[Main][i][3] = SiteAt(newest)
  <2>1. Newest(newest)
    BY <1>1, <1>2
  <2> HIDE DEF newest
  <2> QED
    BY <2>1 DEF IInv, NewestKept, Newest, Recovered
<1> QED
  BY <1>2 DEF PanicsSurface, RaisedAt, SiteAt

\* No panic of a program without goroutines is lost: when its process ends
\* well, the panic raised last was recovered, whatever its deferred functions
\* do.  With goroutines, which share the slot, this is false.
THEOREM PanicsSurfaceAlways == ASSUME Goroutines = {Main} PROVE Spec => []PanicsSurface
<1>1. Init => IInv
  BY InitIInv
<1>2. IInv /\ [Next]_vars => IInv'
  BY NextIInv
<1>3. IInv => PanicsSurface
  BY IInvSurfaces
<1> QED
  BY <1>1, <1>2, <1>3, PTL DEF Spec
=============================================================================
