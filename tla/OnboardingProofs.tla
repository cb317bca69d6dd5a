-------------------------- MODULE OnboardingProofs --------------------------
(***************************************************************************)
(* Theorems about the settings and the sign-ins, for any number of         *)
(* processes, saved settings and detours: nothing competes for the keys,   *)
(* the environment is given back, and what was accepted is what is used.   *)
(***************************************************************************)
EXTENDS Onboarding, FiniteSetTheorems, SequenceTheorems, WellFoundedInduction, TLAPS

\* A sign-in is a record with the fields of NoLogin, and the goroutine that waits for
\* a pasted code is over unless codexLogin waits for it.
OneReader ==
    /\ login = [pc |-> login.pc, code |-> login.code, err |-> login.err,
                paste |-> login.paste, canceled |-> login.canceled, result |-> login.result]
    /\ login.paste # "done" => login.pc \in {"waiting", "stopping"}

LEMMA InitReader == OnboardingInit => OneReader
BY DEF OnboardingInit, LoginInit, NoLogin, OneReader

\* The goroutine goes on reading only if it has not been told to stop, and codexLogin
\* goes on only when it has returned.
LEMMA LoginReader == ASSUME OneReader, LoginStep PROVE OneReader'
<1>1. CASE Callback \/ Answered
  BY <1>1 DEF Callback, Answered, Stop, OneReader
<1>2. CASE PasteReads \/ PasteSeesCancel \/ PasteHandles
  BY <1>2 DEF PasteReads, PasteSeesCancel, PasteHandles, OneReader
<1>3. CASE Joined \/ Exchanged \/ Granted
  BY <1>3 DEF Joined, Exchanged, Granted, SaveTokens, EndLogin, OneReader
<1> QED
  BY <1>1, <1>2, <1>3 DEF LoginStep

\* A sign-in begins when none is under way, and what it leaves has no reader.
LEMMA NextReader == OneReader /\ [OnboardingNext]_onboardingVars => OneReader'
<1> SUFFICES ASSUME OneReader, [OnboardingNext]_onboardingVars PROVE OneReader'
  OBVIOUS
<1>1. CASE login' = login
  BY <1>1 DEF OneReader
<1>2. CASE Die
  BY <1>2 DEF Die, NoLogin, OneReader
<1>3. CASE SignIn
  BY <1>3 DEF SignIn, BeginBrowser, BeginDevice, NoLogin, OneReader
<1>4. CASE SignedIn
  BY <1>4 DEF SignedIn, NoLogin, OneReader
<1>5. CASE SignInStep
  BY <1>5, LoginReader DEF SignInStep
<1>6. OnboardingNext => login' = login \/ Die \/ SignIn \/ SignedIn \/ SignInStep
  BY DEF OnboardingNext, OnlyAt, Unsaved, Start, LoadUserConfig, LoadWorkspace,
         LoadFails, CloseScope, Close, Expire, Probe, StartSession, Quit, ChooseProvider,
         CancelWizard, UseKey, UseServer, UseOllama, UseExistingLogin, ChooseModel, Verify,
         ChooseJudge, SaveSetup, PickModel, LogIn, LogOut
<1> QED
  BY <1>1, <1>2, <1>3, <1>4, <1>5, <1>6 DEF onboardingVars

\* Whatever the user types and whichever way a sign-in ends, nothing else reads the
\* keys while the goroutine of a sign-in waits for a pasted code.
THEOREM OneReaderOfKeys ==
    OnboardingInit /\ [][OnboardingNext]_onboardingVars => []KeysHaveOneReader
<1>1. OneReader => KeysHaveOneReader
  BY DEF OneReader, KeysHaveOneReader
<1> QED
  BY <1>1, InitReader, NextReader, PTL
-----------------------------------------------------------------------------
(* Environments.                                                           *)

IsFcn(e) == e = [n \in DOMAIN e |-> e[n]]

\* A set of numbers that has 0, and the next number with each, has all up to any bound.
LEMMA NumbersBelow ==
    ASSUME NEW bound \in Nat, NEW S, 0 \in S,
           \A n \in 0 .. bound : n \in S /\ n < bound => n + 1 \in S
    PROVE  0 .. bound \subseteq S
<1> DEFINE Less == {pair \in Nat \X Nat : pair[1] < pair[2]}
           rest == (0 .. bound) \ S
<1>1. IsWellFoundedOn(Less, Nat)
  BY NatLessThanWellFounded DEF OpToRel
<1> SUFFICES ASSUME rest # {} PROVE FALSE
  OBVIOUS
<1> HIDE DEF Less
<1>2. rest \subseteq Nat
  OBVIOUS
<1> HIDE DEF rest
<1>3. PICK x \in rest : \A y \in rest : <<y, x>> \notin Less
  BY <1>1, <1>2, WFMin
<1>4. x \in 0 .. bound /\ x # 0 /\ x \notin S
  BY <1>3 DEF rest
<1>5. x - 1 \in 0 .. bound /\ x - 1 < bound /\ (x - 1) + 1 = x /\ <<x - 1, x>> \in Less
  BY <1>4 DEF Less
<1>6. x - 1 \in S
  BY <1>3, <1>5 DEF rest
<1> QED
  BY <1>4, <1>5, <1>6

\* What Closed computes on the way: the environment after n changes have been undone.
Undoing(f, e, changes, m) ==
    f = [n \in 0 .. m |->
           IF n = 0 THEN e ELSE Restore(f[n - 1], changes[Len(changes) + 1 - n])]

LEMMA UndoingExists ==
    ASSUME NEW e, NEW changes, Len(changes) \in Nat
    PROVE  \E f : Undoing(f, e, changes, Len(changes))
<1> DEFINE have == {m \in 0 .. Len(changes) : \E f : Undoing(f, e, changes, m)}
<1>1. 0 \in have
  <2> DEFINE f == [n \in 0 .. 0 |-> e]
  <2>1. Undoing(f, e, changes, 0)
    BY DEF Undoing
  <2> HIDE DEF f
  <2> QED
    BY <2>1
<1>2. ASSUME NEW m \in 0 .. Len(changes), m \in have, m < Len(changes)
      PROVE  m + 1 \in have
  <2>1. PICK f : Undoing(f, e, changes, m)
    BY <1>2
  <2> DEFINE next == Restore(f[m], changes[Len(changes) + 1 - (m + 1)])
             g == [n \in 0 .. m + 1 |-> IF n = m + 1 THEN next ELSE f[n]]
  <2>2. m \in Nat /\ m + 1 \in 0 .. Len(changes) /\ \A n \in 0 .. m : n # m + 1 /\ n \in 0 .. m + 1
    BY <1>2
  <2>3. \A n \in 0 .. m : g[n] = f[n]
    BY <2>2
  <2>4. \A n \in 0 .. m + 1 :
          g[n] = IF n = 0 THEN e ELSE Restore(g[n - 1], changes[Len(changes) + 1 - n])
    <3> SUFFICES ASSUME NEW n \in 0 .. m + 1
                 PROVE  g[n] = IF n = 0 THEN e
                               ELSE Restore(g[n - 1], changes[Len(changes) + 1 - n])
      OBVIOUS
    <3>1. CASE n = m + 1
      <4>1. g[n] = next /\ g[n - 1] = f[m] /\ n # 0
        BY <2>2, <2>3, <3>1
      <4> HIDE DEF g
      <4> QED
        BY <3>1, <4>1
    <3>2. CASE n = 0
      <4>1. g[n] = f[0] /\ f[0] = e
        BY <2>1, <2>2, <2>3, <3>2 DEF Undoing
      <4> HIDE DEF g
      <4> QED
        BY <3>2, <4>1
    <3>3. CASE n \in 1 .. m
      <4>1. n \in 0 .. m /\ n - 1 \in 0 .. m /\ n # 0
        BY <2>2, <3>3
      <4>2. g[n] = f[n] /\ g[n - 1] = f[n - 1]
        BY <2>3, <4>1
      <4>3. f[n] = Restore(f[n - 1], changes[Len(changes) + 1 - n])
        BY <2>1, <4>1 DEF Undoing
      <4> HIDE DEF g
      <4> QED
        BY <4>1, <4>2, <4>3
    <3> QED
      BY <2>2, <3>1, <3>2, <3>3
  <2>5. Undoing(g, e, changes, m + 1)
    <3> DEFINE h == [n \in 0 .. m + 1 |->
                       IF n = 0 THEN e ELSE Restore(g[n - 1], changes[Len(changes) + 1 - n])]
    <3>1. \A n \in 0 .. m + 1 : g[n] = h[n]
      BY <2>4
    <3>2. g = [n \in 0 .. m + 1 |-> g[n]]
      OBVIOUS
    <3> HIDE DEF g
    <3>3. g = h
      BY <3>1, <3>2
    <3> QED
      BY <3>3 DEF Undoing
  <2> HIDE DEF g
  <2> QED
    BY <2>2, <2>5
<1> HIDE DEF have
<1>3. 0 .. Len(changes) \subseteq have
  BY <1>1, <1>2, NumbersBelow
<1> QED
  BY <1>3 DEF have

LEMMA ClosedIs ==
    ASSUME NEW e, NEW changes, Len(changes) \in Nat
    PROVE  \E f : /\ f[0] = e
                  /\ \A n \in 1 .. Len(changes) :
                       f[n] = Restore(f[n - 1], changes[Len(changes) + 1 - n])
                  /\ Closed(e, changes) = f[Len(changes)]
<1> DEFINE undone == CHOOSE f : Undoing(f, e, changes, Len(changes))
<1>1. Undoing(undone, e, changes, Len(changes))
  BY UndoingExists
<1>2. Closed(e, changes) = undone[Len(changes)]
  BY DEF Closed, Undoing
<1> HIDE DEF undone
<1>3. undone[0] = e
  BY <1>1 DEF Undoing
<1>4. ASSUME NEW n \in 1 .. Len(changes)
      PROVE  undone[n] = Restore(undone[n - 1], changes[Len(changes) + 1 - n])
  <2>1. n \in 0 .. Len(changes) /\ n # 0
    OBVIOUS
  <2> QED
    BY <1>1, <2>1 DEF Undoing
<1> QED
  BY <1>2, <1>3, <1>4

-----------------------------------------------------------------------------
(* Close undoes what Set and the lines of a file have done.                *)

LEMMA SetIsRestored ==
    ASSUME NEW e, IsFcn(e), NEW name, NEW value
    PROVE  Restore(With(e, name, value), Change(e, name)) = e
<1> DEFINE r == Restore(With(e, name, value), Change(e, name))
<1>1. CASE name \in DOMAIN e
  <2>1. r = [n \in DOMAIN e |-> e[n]]
    BY <1>1 DEF Restore, With, Change, Getenv
  <2> QED
    BY <2>1 DEF IsFcn
<1>2. CASE name \notin DOMAIN e
  <2>1. r = [n \in DOMAIN e |-> e[n]]
    BY <1>2 DEF Restore, With, Without, Change
  <2> QED
    BY <2>1 DEF IsFcn
<1> QED
  BY <1>1, <1>2

\* A change at the end is undone first.
LEMMA SetIsUndone ==
    ASSUME NEW e, IsFcn(e), NEW S, NEW changes \in Seq(S), NEW name, NEW value
    PROVE  Closed(With(e, name, value), Append(changes, Change(e, name))) = Closed(e, changes)
<1> DEFINE c == Change(e, name)
           all == Append(changes, c)
           e1 == With(e, name, value)
<1>1. /\ Len(changes) \in Nat /\ Len(all) = Len(changes) + 1 /\ Len(all) \in Nat
      /\ all[Len(all)] = c
      /\ \A i \in 1 .. Len(changes) : all[i] = changes[i]
  OBVIOUS
<1>2. Restore(e1, c) = e
  BY SetIsRestored
<1> HIDE DEF all, c, e1
<1>5. PICK f : /\ f[0] = e1
               /\ \A n \in 1 .. Len(all) : f[n] = Restore(f[n - 1], all[Len(all) + 1 - n])
               /\ Closed(e1, all) = f[Len(all)]
  <2>1. Len(all) \in Nat
    BY <1>1
  <2> QED
    BY <2>1, ClosedIs, ZenonT(60)
<1>6. PICK g : /\ g[0] = e
               /\ \A n \in 1 .. Len(changes) :
                    g[n] = Restore(g[n - 1], changes[Len(changes) + 1 - n])
               /\ Closed(e, changes) = g[Len(changes)]
  BY <1>1, ClosedIs
<1> DEFINE same == {n \in 0 .. Len(changes) : f[n + 1] = g[n]}
<1>3. 0 \in same
  <2>1. f[1] = Restore(f[0], all[Len(all)])
    BY <1>1, <1>5
  <2> QED
    BY <1>1, <1>2, <1>5, <1>6, <2>1
<1>4. ASSUME NEW n \in 0 .. Len(changes), n \in same, n < Len(changes)
      PROVE  n + 1 \in same
  <2>1. /\ n \in Nat /\ n + 1 \in 1 .. Len(changes) /\ n + 2 \in 1 .. Len(all)
        /\ Len(all) + 1 - (n + 2) = Len(changes) + 1 - (n + 1)
        /\ Len(changes) + 1 - (n + 1) \in 1 .. Len(changes)
        /\ (n + 2) - 1 = n + 1 /\ (n + 1) - 1 = n /\ (n + 1) + 1 = n + 2
    BY <1>1, <1>4
  <2>2. f[n + 2] = Restore(f[n + 1], all[Len(changes) + 1 - (n + 1)])
    BY <1>5, <2>1
  <2>3. g[n + 1] = Restore(g[n], changes[Len(changes) + 1 - (n + 1)])
    BY <1>6, <2>1
  <2>4. f[n + 2] = g[n + 1]
    BY <1>1, <1>4, <2>1, <2>2, <2>3
  <2> QED
    BY <2>1, <2>4
<1> HIDE DEF same
<1>7. 0 .. Len(changes) \subseteq same
  BY <1>1, <1>3, <1>4, NumbersBelow
<1>8. f[Len(changes) + 1] = g[Len(changes)]
  BY <1>1, <1>7 DEF same
<1> QED
  BY <1>1, <1>5, <1>6, <1>8 DEF all, c, e1

\* The names of a file's map, in the order they are met: each of them once.
LEMMA OrderOfNames ==
    ASSUME NEW S, IsFiniteSet(S)
    PROVE  /\ Cardinality(S) \in Nat
           /\ SetToSeq(S) \in [1 .. Cardinality(S) -> S]
           /\ \A i, j \in 1 .. Cardinality(S) : SetToSeq(S)[i] = SetToSeq(S)[j] => i = j
           /\ S = {SetToSeq(S)[i] : i \in 1 .. Cardinality(S)}
<1> DEFINE N == Cardinality(S)
           order == SetToSeq(S)
<1>1. N \in Nat /\ \E f \in [1 .. N -> S] : IsInjective(f)
  BY FS_CardinalityType DEF ExistsBijection, Bijection, Injection, IsInjective
<1>2. order \in [1 .. N -> S] /\ IsInjective(order)
  BY <1>1 DEF SetToSeq
<1>3. IsFiniteSet(1 .. N) /\ Cardinality(1 .. N) = N
  BY <1>1, FS_Interval
<1> HIDE DEF order
<1>4. order \in Injection(1 .. N, S)
  BY <1>2 DEF Injection
<1>5. order \in Surjection(1 .. N, S)
  BY <1>3, <1>4, FS_Injection
<1> QED
  BY <1>1, <1>2, <1>5 DEF IsInjective, Surjection, order

\* The names in T are set as the file says.
Assigned(e, values, T) == OverlayEnv(e, [n \in T |-> values[n]])

LEMMA NameIsRestored ==
    ASSUME NEW e, NEW values, NEW T, NEW x, x \notin T
    PROVE  Restore(Assigned(e, values, T \cup {x}), Change(e, x)) = Assigned(e, values, T)
<1> DEFINE r == Restore(Assigned(e, values, T \cup {x}), Change(e, x))
           a == Assigned(e, values, T)
<1>1. DOMAIN a = DOMAIN e \cup T /\ \A n \in DOMAIN a : a[n] = IF n \in T THEN values[n] ELSE e[n]
  BY DEF Assigned, OverlayEnv
<1>2. DOMAIN r = DOMAIN a
  <2>1. CASE x \in DOMAIN e
    BY <2>1 DEF Restore, Change, With, Assigned, OverlayEnv
  <2>2. CASE x \notin DOMAIN e
    BY <2>2 DEF Restore, Change, Without, Assigned, OverlayEnv
  <2> QED
    BY <2>1, <2>2
<1>3. \A n \in DOMAIN a : r[n] = a[n]
  <2>1. CASE x \in DOMAIN e
    BY <2>1 DEF Restore, Change, With, Assigned, OverlayEnv, Getenv
  <2>2. CASE x \notin DOMAIN e
    BY <2>2 DEF Restore, Change, Without, Assigned, OverlayEnv
  <2> QED
    BY <2>1, <2>2
<1>4. IsFcn(r) /\ IsFcn(a)
  BY DEF IsFcn, Restore, Change, With, Without, Assigned, OverlayEnv
<1> HIDE DEF r, a
<1> QED
  BY <1>2, <1>3, <1>4 DEF IsFcn, r, a

LEMMA LinesAreUndone ==
    ASSUME NEW e, IsFcn(e), NEW values, NEW names, IsFiniteSet(names)
    PROVE  /\ IsFcn(Lines(e, values, names).env)
           /\ Lines(e, values, names).changes \in Seq({Change(e, n) : n \in names})
           /\ Closed(Lines(e, values, names).env, Lines(e, values, names).changes) = e
<1> DEFINE N == Cardinality(names)
           order == SetToSeq(names)
           changes == Lines(e, values, names).changes
           after == Lines(e, values, names).env
           upTo(k) == {order[i] : i \in 1 .. k}
<1>1. /\ N \in Nat /\ order \in [1 .. N -> names] /\ names = upTo(N)
      /\ \A i, j \in 1 .. N : order[i] = order[j] => i = j
  BY OrderOfNames
<1>2. changes = [i \in DOMAIN order |-> Change(e, order[i])] /\ after = Assigned(e, values, names)
  BY DEF Lines, Assigned
<1> HIDE DEF order, changes, after, N
<1>3. changes \in [1 .. N -> {Change(e, n) : n \in names}]
  BY <1>1, <1>2
<1>4. changes \in Seq({Change(e, n) : n \in names}) /\ Len(changes) = N
  BY <1>1, <1>3, SMTT(30)
<1>5. IsFcn(after)
  BY <1>2 DEF IsFcn, Assigned, OverlayEnv
<1>6. Len(changes) \in Nat
  BY <1>1, <1>4
<1>7. PICK f : /\ f[0] = after
               /\ \A k \in 1 .. Len(changes) : f[k] = Restore(f[k - 1], changes[Len(changes) + 1 - k])
               /\ Closed(after, changes) = f[Len(changes)]
  BY <1>6, ClosedIs, ZenonT(60)
<1> DEFINE undone == {k \in 0 .. N : f[k] = Assigned(e, values, upTo(N - k))}
<1>8. 0 \in undone
  <2>1. N - 0 = N /\ 0 \in 0 .. N
    BY <1>1
  <2>2. f[0] = Assigned(e, values, upTo(N))
    BY <1>1, <1>2, <1>7
  <2> HIDE DEF upTo
  <2> QED
    BY <2>1, <2>2
<1>9. ASSUME NEW k \in 0 .. N, k \in undone, k < N
      PROVE  k + 1 \in undone
  <2> DEFINE x == order[N - k]
  <2>1. /\ k + 1 \in 1 .. N /\ (k + 1) - 1 = k /\ N + 1 - (k + 1) = N - k
        /\ N - k \in 1 .. N /\ N - (k + 1) \in Nat /\ (N - (k + 1)) + 1 = N - k
    <3>1. N \in Nat /\ k \in Nat /\ k < N
      BY <1>1, <1>9
    <3> QED
      BY ONLY <3>1
  <2>2. f[k + 1] = Restore(f[k], Change(e, x))
    BY <1>1, <1>2, <1>4, <1>7, <2>1
  <2>3. x \notin upTo(N - (k + 1))
    BY <1>1, <2>1
  <2>4. upTo(N - k) = upTo(N - (k + 1)) \cup {x}
    <3>1. 1 .. (N - k) = (1 .. (N - (k + 1))) \cup {N - k}
      BY <1>1, <2>1
    <3> QED
      BY <3>1
  <2> HIDE DEF x, upTo
  <2>5. Restore(Assigned(e, values, upTo(N - k)), Change(e, x))
          = Assigned(e, values, upTo(N - (k + 1)))
    BY <2>3, <2>4, NameIsRestored
  <2>6. f[k + 1] = Assigned(e, values, upTo(N - (k + 1)))
    BY <1>9, <2>2, <2>5
  <2> QED
    BY <2>1, <2>6
<1> HIDE DEF undone
<1>10. 0 .. N \subseteq undone
  BY <1>1, <1>8, <1>9, NumbersBelow
<1>11. f[N] = Assigned(e, values, upTo(0))
  BY <1>1, <1>10 DEF undone
<1>12. Assigned(e, values, upTo(0)) = e
  <2>1. upTo(0) = {}
    OBVIOUS
  <2>2. Assigned(e, values, {}) = [n \in DOMAIN e |-> e[n]]
    BY DEF Assigned, OverlayEnv
  <2> QED
    BY <2>1, <2>2 DEF IsFcn
<1> QED
  BY <1>4, <1>5, <1>7, <1>11, <1>12 DEF changes, after

LEMMA LoadIsUndone ==
    ASSUME NEW e, IsFcn(e), NEW values, IsFiniteSet(DOMAIN values), NEW overridable
    PROVE  /\ IsFcn(Load(e, values, overridable).env)
           /\ Closed(Load(e, values, overridable).env, Load(e, values, overridable).changes) = e
<1> DEFINE names == Assigns(e, DOMAIN values, overridable)
           lines == Lines(e, values, names)
           proxy == Getenv(lines.env, Proxy)
<1>1. IsFiniteSet(names)
  BY FS_Subset DEF Assigns
<1>2. /\ IsFcn(lines.env) /\ lines.changes \in Seq({Change(e, n) : n \in names})
      /\ Closed(lines.env, lines.changes) = e
  BY <1>1, LinesAreUndone
<1>3. Load(e, values, overridable) = IF proxy = "" THEN lines ELSE Set(lines, HTTPS, proxy)
  BY DEF Load
<1> HIDE DEF names, lines, proxy
<1>4. /\ Set(lines, HTTPS, proxy).env = With(lines.env, HTTPS, proxy)
      /\ Set(lines, HTTPS, proxy).changes = Append(lines.changes, Change(lines.env, HTTPS))
  BY DEF Set
<1>5. IsFcn(With(lines.env, HTTPS, proxy))
  BY DEF IsFcn, With
<1>6. Closed(With(lines.env, HTTPS, proxy), Append(lines.changes, Change(lines.env, HTTPS)))
        = Closed(lines.env, lines.changes)
  BY <1>2, SetIsUndone
<1> QED
  BY <1>2, <1>3, <1>4, <1>5, <1>6

\* So does it where there was no file.
LEMMA LoadsAreUndone ==
    ASSUME NEW e, IsFcn(e), NEW values, IsFiniteSet(DOMAIN values), NEW overridable,
           NEW s \in Loads(e, values, overridable)
    PROVE  IsFcn(s.env) /\ Closed(s.env, s.changes) = e
<1>1. CASE s = Load(e, values, overridable)
  BY <1>1, LoadIsUndone
<1>2. CASE s = [env |-> e, changes |-> <<>>]
  <2>1. s.env = e /\ s.changes = <<>> /\ Len(s.changes) = 0
    BY <1>2
  <2>2. PICK f : f[0] = e /\ Closed(e, s.changes) = f[Len(s.changes)]
    BY <2>1, ClosedIs
  <2> QED
    BY <2>1, <2>2
<1> QED
  BY <1>1, <1>2 DEF Loads

-----------------------------------------------------------------------------
(* The environment is given back.                                          *)

\* Whatever the scopes remember leads back to the environment Run was called in.
Restorable ==
    \/ scopes = <<>> /\ env = environ
    \/ scopes = <<scopes[1]>> /\ Closed(env, scopes[1]) = environ
    \/ /\ scopes = <<scopes[1], scopes[2]>>
       /\ Closed(Closed(env, scopes[2]), scopes[1]) = environ

FilesAreFinite ==
    IsEnvironment(environ) /\ IsEnvironment(config) /\ IsEnvironment(workspace)

ScopeInv ==
    /\ FilesAreFinite
    /\ Restorable
    /\ pc = "off" => scopes = <<>>
    /\ pc = "loading" => IsFcn(env)

LEMMA InitScopes == OnboardingInit => ScopeInv
<1> SUFFICES ASSUME OnboardingInit PROVE ScopeInv
  OBVIOUS
<1>1. IsEnvironment(environ) /\ IsEnvironment(workspace)
  BY OnboardingAssumption DEF OnboardingInit
<1>2. IsEnvironment(config)
  <2>1. config = <<>> /\ DOMAIN config = {}
    BY DEF OnboardingInit
  <2>2. config = [n \in DOMAIN config |-> config[n]]
    BY <2>1
  <2> QED
    BY <2>1, <2>2, FS_EmptySet DEF IsEnvironment
<1> QED
  BY <1>1, <1>2 DEF OnboardingInit, ScopeInv, FilesAreFinite, Restorable

\* What the wizard and the commands write into the file.
LEMMA WrittenIsFinite ==
    ASSUME IsEnvironment(config), NEW values, IsFiniteSet(DOMAIN values), NEW ok \in BOOLEAN,
           WriteConfig(values, ok)
    PROVE  IsEnvironment(config')
<1> DEFINE all == OverlayEnv(config, values)
<1>1. DOMAIN all = DOMAIN config \cup DOMAIN values
  BY DEF OverlayEnv
<1>2. IsFiniteSet(DOMAIN all)
  <2>1. IsFiniteSet(DOMAIN config)
    BY DEF IsEnvironment
  <2>2. IsFiniteSet(DOMAIN config \cup DOMAIN values)
    BY <2>1, FS_Union
  <2> QED
    BY <1>1, <2>2
<1> HIDE DEF all
<1>3. IsEnvironment(Merged(values))
  <2>1. Merged(values) = [n \in {m \in DOMAIN all : all[m] # ""} |-> all[n]]
    BY DEF Merged, all
  <2>2. IsFiniteSet({m \in DOMAIN all : all[m] # ""})
    BY <1>2, FS_Subset
  <2> QED
    BY <2>1, <2>2 DEF IsEnvironment
<1>4. \A content \in Torn(Merged(values)) : IsEnvironment(content)
  <2>1. ASSUME NEW content, content = <<>>
        PROVE  IsEnvironment(content)
    <3>1. DOMAIN content = {} /\ content = [n \in DOMAIN content |-> content[n]]
      BY <2>1
    <3> QED
      BY <3>1, FS_EmptySet DEF IsEnvironment
  <2>2. ASSUME NEW n
        PROVE  IsEnvironment(Without(Merged(values), n))
    <3>1. IsFiniteSet(DOMAIN Merged(values) \ {n})
      BY <1>3, FS_RemoveElement DEF IsEnvironment
    <3> QED
      BY <3>1 DEF IsEnvironment, Without
  <2> QED
    BY <2>1, <2>2 DEF Torn
<1> QED
  BY <1>3, <1>4 DEF WriteConfig

LEMMA ClearedIsFinite == IsFiniteSet(Cleared) /\ \A x : IsFiniteSet({x})
<1>1. \A x : IsFiniteSet({x})
  BY FS_Singleton
<1>2. Cleared = ((({Ours("provider")} \cup {Ours("model")}) \cup {Ours("base")}) \cup {Ours("key")})
                  \cup {AuthName}
  BY DEF Cleared
<1> QED
  BY <1>1, <1>2, FS_Union

\* Sequences of one and of two scopes.
LEMMA FewScopes ==
    ASSUME NEW s, NEW a, NEW b
    PROVE  /\ s = <<>> => Len(s) = 0
           /\ s = <<a>> => Len(s) = 1 /\ SubSeq(s, 1, Len(s) - 1) = <<>> /\ Append(s, b) = <<a, b>>
           /\ s = <<a, b>> => /\ Len(s) = 2 /\ s[1] = a /\ s[2] = b
                             /\ SubSeq(s, 1, Len(s) - 1) = <<a>>
<1> DEFINE S == {a, b}
<1>1. <<a>> \in Seq(S) /\ <<a, b>> \in Seq(S) /\ Len(<<a>>) = 1 /\ Len(<<a, b>>) = 2
  OBVIOUS
<1>2. <<a>>[1] = a /\ <<a, b>>[1] = a /\ <<a, b>>[2] = b
  OBVIOUS
<1> HIDE DEF S
<1>3. Append(<<a>>, b) = <<a, b>>
  <2> DEFINE t == Append(<<a>>, b)
  <2>1. b \in S
    BY DEF S
  <2>2. /\ t \in Seq(S) /\ Len(t) = Len(<<a>>) + 1 /\ t[Len(<<a>>) + 1] = b
        /\ \A i \in 1 .. Len(<<a>>) : t[i] = <<a>>[i]
    BY <1>1, <2>1, AppendProperties
  <2> HIDE DEF t
  <2>3. Len(t) = Len(<<a, b>>) /\ t[1] = a /\ t[2] = b
    BY <1>1, <1>2, <2>2
  <2>4. \A i \in 1 .. Len(t) : t[i] = <<a, b>>[i]
    BY <1>1, <1>2, <2>3
  <2>5. t = <<a, b>>
    BY <1>1, <2>2, <2>3, <2>4, SeqEqual
  <2> QED
    BY <2>5 DEF t
<1>4. SubSeq(<<a, b>>, 1, 1) = <<a>>
  <2> DEFINE t == SubSeq(<<a, b>>, 1, 1)
  <2>1. \A i \in 1 .. 1 : <<a, b>>[i] \in S
    BY <1>2 DEF S
  <2>2. t \in Seq(S) /\ Len(t) = 1 /\ t[1] = <<a, b>>[1]
    BY <2>1, SubSeqProperties
  <2> HIDE DEF t
  <2>3. \A i \in 1 .. Len(t) : t[i] = <<a>>[i]
    BY <1>2, <2>2
  <2>4. t = <<a>>
    BY <1>1, <2>2, <2>3, SeqEqual
  <2> QED
    BY <2>4 DEF t
<1>5. SubSeq(<<a>>, 1, 0) = <<>>
  BY SubSeqEmpty
<1>6. CASE s = <<>>
  BY <1>1, <1>6
<1>7. CASE s = <<a>>
  <2>1. Len(s) = 1 /\ Len(s) - 1 = 0
    BY <1>1, <1>7
  <2>2. SubSeq(s, 1, Len(s) - 1) = SubSeq(<<a>>, 1, 0)
    BY <1>7, <2>1
  <2>3. Append(s, b) = <<a, b>>
    BY <1>3, <1>7
  <2> QED
    BY <1>1, <1>5, <1>7, <2>1, <2>2, <2>3
<1>8. CASE s = <<a, b>>
  <2>1. Len(s) = 2 /\ Len(s) - 1 = 1 /\ s[1] = a /\ s[2] = b
    BY <1>1, <1>2, <1>8
  <2>2. SubSeq(s, 1, Len(s) - 1) = SubSeq(<<a, b>>, 1, 1)
    BY <1>8, <2>1
  <2>3. s # <<>> /\ s # <<a>>
    BY <1>1, <2>1
  <2> QED
    BY <1>4, <2>1, <2>2, <2>3
<1> QED
  BY <1>6, <1>7, <1>8

LEMMA NextScopes == ScopeInv /\ [OnboardingNext]_onboardingVars => ScopeInv'
<1> SUFFICES ASSUME ScopeInv, [OnboardingNext]_onboardingVars PROVE ScopeInv'
  OBVIOUS
<1>1. CASE LoadUserConfig
  <2>0. PICK s \in Loads(env, config, {}) : env' = s.env /\ scopes' = <<s.changes>>
    BY <1>1 DEF LoadUserConfig
  <2>1. /\ scopes = <<>> /\ env = environ /\ IsFcn(env) /\ IsFiniteSet(DOMAIN config)
        /\ env' = s.env /\ scopes' = <<s.changes>> /\ pc' = "loading"
        /\ environ' = environ /\ config' = config /\ workspace' = workspace
    BY <1>1, <2>0 DEF LoadUserConfig, OnlyAt, ScopeInv, Restorable, FilesAreFinite, IsEnvironment
  <2>2. IsFcn(s.env) /\ Closed(s.env, s.changes) = env
    BY <2>0, <2>1, LoadsAreUndone
  <2>3. scopes'[1] = s.changes /\ scopes' = <<scopes'[1]>>
    BY <2>1
  <2>4. Restorable'
    BY <2>1, <2>2, <2>3 DEF Restorable
  <2>5. IsFcn(env)'
    BY <2>1, <2>2 DEF IsFcn
  <2> QED
    BY <2>1, <2>4, <2>5 DEF ScopeInv, FilesAreFinite, IsEnvironment
<1>2. CASE LoadWorkspace
  <2>0. PICK s \in Loads(env, workspace, NamesOf(scopes[1])) :
          env' = s.env /\ scopes' = Append(scopes, s.changes)
    BY <1>2 DEF LoadWorkspace
  <2>1. /\ Len(scopes) = 1 /\ IsFcn(env) /\ IsFiniteSet(DOMAIN workspace)
        /\ env' = s.env /\ scopes' = Append(scopes, s.changes) /\ pc' = "probing"
        /\ environ' = environ /\ config' = config /\ workspace' = workspace
    BY <1>2, <2>0 DEF LoadWorkspace, OnlyAt, ScopeInv, FilesAreFinite, IsEnvironment
  <2>2. Closed(s.env, s.changes) = env
    BY <2>0, <2>1, LoadsAreUndone
  <2>3. scopes = <<scopes[1]>> /\ Closed(env, scopes[1]) = environ
    <3>1. CASE scopes = <<>>
      BY <2>1, <3>1, FewScopes
    <3>2. CASE scopes = <<scopes[1], scopes[2]>>
      <4>1. Len(scopes) = 2
        BY <3>2, FewScopes
      <4>2. Len(scopes) = 1
        BY <2>1
      <4> QED
        BY ONLY <4>1, <4>2
    <3> QED
      BY <3>1, <3>2 DEF ScopeInv, Restorable
  <2>4. scopes' = <<scopes[1], s.changes>>
    <3> DEFINE a == scopes[1]
               b == s.changes
    <3>1. scopes = <<a>>
      BY <2>3
    <3> HIDE DEF a, b
    <3>2. Append(scopes, b) = <<a, b>>
      BY <3>1, FewScopes
    <3> QED
      BY <2>0, <3>2 DEF a, b
  <2>5. scopes'[1] = scopes[1] /\ scopes'[2] = s.changes
    BY <2>4
  <2>6. Restorable'
    BY <2>1, <2>2, <2>3, <2>4, <2>5 DEF Restorable
  <2> QED
    BY <2>1, <2>6 DEF ScopeInv, FilesAreFinite, IsEnvironment
<1>3. CASE LoadFails
  <2> DEFINE values == IF scopes = <<>> THEN config ELSE workspace
             overridable == IF scopes = <<>> THEN {} ELSE NamesOf(scopes[1])
  <2>1. PICK names \in SUBSET Assigns(env, DOMAIN values, overridable) :
          env' = Closed(Lines(env, values, names).env, Lines(env, values, names).changes)
    BY <1>3 DEF LoadFails
  <2>2. /\ pc = "loading" /\ pc' = "closing" /\ scopes' = scopes
        /\ environ' = environ /\ config' = config /\ workspace' = workspace
    BY <1>3 DEF LoadFails, OnlyAt
  <2>3. IsFcn(env) /\ IsFiniteSet(DOMAIN values)
    BY <2>2 DEF ScopeInv, FilesAreFinite, IsEnvironment
  <2>4. IsFiniteSet(names)
    <3>1. names \in SUBSET DOMAIN values
      BY DEF Assigns
    <3> QED
      BY <2>3, <3>1, FS_Subset
  <2> HIDE DEF values, overridable
  <2>5. env' = env
    BY <2>1, <2>3, <2>4, LinesAreUndone
  <2> QED
    BY <2>2, <2>5 DEF ScopeInv, FilesAreFinite, IsEnvironment, Restorable
<1>4. CASE CloseScope
  <2>1. /\ scopes # <<>> /\ pc' = "closing"
        /\ env' = Closed(env, scopes[Len(scopes)])
        /\ scopes' = SubSeq(scopes, 1, Len(scopes) - 1)
        /\ environ' = environ /\ config' = config /\ workspace' = workspace
    BY <1>4 DEF CloseScope, OnlyAt
  <2>2. CASE scopes = <<scopes[1]>> /\ Closed(env, scopes[1]) = environ
    <3>1. Len(scopes) = 1 /\ scopes' = <<>>
      BY <2>1, <2>2, FewScopes
    <3> QED
      BY <2>1, <2>2, <3>1 DEF ScopeInv, FilesAreFinite, IsEnvironment, Restorable
  <2>3. CASE /\ scopes = <<scopes[1], scopes[2]>>
             /\ Closed(Closed(env, scopes[2]), scopes[1]) = environ
    <3>1. Len(scopes) = 2 /\ scopes' = <<scopes[1]>>
      BY <2>1, <2>3, FewScopes
    <3>2. scopes'[1] = scopes[1] /\ env' = Closed(env, scopes[2])
      BY <2>1, <3>1
    <3>3. Restorable'
      BY <2>1, <2>3, <3>1, <3>2 DEF Restorable
    <3> QED
      BY <2>1, <3>3 DEF ScopeInv, FilesAreFinite, IsEnvironment
  <2> QED
    BY <2>1, <2>2, <2>3 DEF ScopeInv, Restorable
<1>5. CASE Die
  BY <1>5 DEF Die, ScopeInv, FilesAreFinite, IsEnvironment, Restorable
<1>6. CASE Start
  BY <1>6 DEF Start, configVars, ScopeInv, FilesAreFinite, IsEnvironment, Restorable, IsFcn
<1>7. CASE Close
  BY <1>7 DEF Close, ScopeInv, FilesAreFinite, IsEnvironment, Restorable
<1>8. CASE SaveSetup \/ PickModel \/ LogOut
  <2>1. IsEnvironment(config)
    BY DEF ScopeInv, FilesAreFinite
  <2>2. IsEnvironment(config')
    <3>1. CASE SaveSetup
      <4>1. PICK ok \in BOOLEAN : WriteConfig(ConnectionValues(wiz.conn), ok)
        BY <3>1 DEF SaveSetup
      <4>2. IsFiniteSet(DOMAIN ConnectionValues(wiz.conn))
        BY ClearedIsFinite DEF ConnectionValues
      <4> QED
        BY <2>1, <4>1, <4>2, WrittenIsFinite
    <3>2. CASE PickModel
      <4>1. PICK m \in Models : ApplyValues([n \in {Ours("model")} |-> m])
        BY <3>2 DEF PickModel
      <4>2. PICK ok \in BOOLEAN : WriteConfig([n \in {Ours("model")} |-> m], ok)
        BY <4>1 DEF ApplyValues
      <4>3. IsFiniteSet(DOMAIN [n \in {Ours("model")} |-> m])
        BY ClearedIsFinite
      <4> QED
        BY <2>1, <4>2, <4>3, WrittenIsFinite
    <3>3. CASE LogOut
      <4>1. PICK ok \in BOOLEAN : WriteConfig([n \in Cleared |-> ""], ok)
        BY <3>3 DEF LogOut
      <4>2. IsFiniteSet(DOMAIN [n \in Cleared |-> ""])
        BY ClearedIsFinite
      <4> QED
        BY <2>1, <4>1, <4>2, WrittenIsFinite
    <3> QED
      BY <1>8, <3>1, <3>2, <3>3
  <2>3. /\ environ' = environ /\ workspace' = workspace /\ env' = env /\ scopes' = scopes
        /\ pc' \in {"starting", "closing", "wizard"}
    BY <1>8 DEF SaveSetup, PickModel, LogOut
  <2> QED
    BY <2>2, <2>3 DEF ScopeInv, FilesAreFinite, IsEnvironment, Restorable
<1>9. CASE /\ UNCHANGED <<environ, env, scopes, config, workspace>>
           /\ pc' # "off" /\ (pc' = "loading" => pc = "loading")
  BY <1>9 DEF ScopeInv, FilesAreFinite, IsEnvironment, Restorable, IsFcn
<1>10. CASE UNCHANGED <<environ, env, scopes, config, workspace, pc>>
  BY <1>10 DEF ScopeInv, FilesAreFinite, IsEnvironment, Restorable, IsFcn
<1>11. ASSUME Expire \/ Probe \/ StartSession \/ Quit \/ ChooseProvider \/ CancelWizard \/ UseKey
              \/ UseServer \/ UseOllama \/ UseExistingLogin \/ SignIn \/ SignedIn
              \/ ChooseModel \/ Verify \/ ChooseJudge \/ LogIn
       PROVE  ScopeInv'
  <2>1. UNCHANGED <<environ, env, scopes, config, workspace>>
    BY <1>11 DEF Expire, Probe, StartSession, Quit, ChooseProvider, CancelWizard, UseKey,
         UseServer, UseOllama, UseExistingLogin, SignIn, SignedIn, ChooseModel, Verify,
         ChooseJudge, LogIn, Unsaved, configVars
  <2>2. pc' = pc \/ pc' \in {"starting", "wizard", "session", "closing"}
    BY <1>11 DEF Expire, Probe, StartSession, Quit, ChooseProvider, CancelWizard, UseKey,
         UseServer, UseOllama, UseExistingLogin, SignIn, SignedIn, ChooseModel, Verify,
         ChooseJudge, LogIn, OnlyAt, At
  <2> QED
    BY <1>9, <1>10, <2>1, <2>2
<1>12. CASE SignInStep
  <2>1. UNCHANGED <<environ, env, scopes, config, workspace, pc>>
    BY <1>12 DEF SignInStep, LoginStep, Callback, PasteReads, PasteSeesCancel, PasteHandles,
         Answered, Stop, Joined, Exchanged, Granted, SaveTokens, EndLogin, configVars
  <2> QED
    BY <1>10, <2>1
<1>13. CASE UNCHANGED onboardingVars
  BY <1>10, <1>13 DEF onboardingVars, configVars
<1> QED
  BY <1>1, <1>2, <1>3, <1>4, <1>5, <1>6, <1>7, <1>8, <1>11, <1>12, <1>13 DEF OnboardingNext

\* Whichever files set whichever variables, the proxy's among them, and wherever the
\* loading fails, the environment that Run leaves behind is the one it was called in.
THEOREM Restoring ==
    OnboardingInit /\ [][OnboardingNext]_onboardingVars => []EnvironmentIsRestored
<1>1. ScopeInv => EnvironmentIsRestored
  BY DEF ScopeInv, Restorable, EnvironmentIsRestored
<1> QED
  BY <1>1, InitScopes, NextScopes, PTL

-----------------------------------------------------------------------------
(* What settings say.                                                      *)

\* The settings in e name the connection c, and no more is needed for it.
Says(e, c) ==
    /\ Getenv(e, Ours("provider")) \in DOMAIN Provider
    /\ Getenv(e, Ours("model")) # ""
    /\ Provider[Getenv(e, Ours("provider"))].keyed => Getenv(e, Ours("key")) # ""
    /\ Getenv(e, Ours("provider")) = "openai_codex" => Getenv(e, AuthName) # ""
    /\ c = Connection(Getenv(e, Ours("provider")), Getenv(e, Ours("base")),
                      Getenv(e, Ours("model")), Getenv(e, Ours("key")), Getenv(e, AuthName))

Agree(e, f, names) == \A n \in names : Getenv(e, n) = Getenv(f, n)

LEMMA Names ==
    /\ Cleared = {Ours("provider"), Ours("model"), Ours("base"), Ours("key"), AuthName}
    /\ Cleared \subseteq SettingNames
    /\ \A s \in {"base", "key", "model", "provider"} :
         Legacy(s) \in SettingNames /\ Legacy(s) \notin Cleared
    /\ HTTPS \notin SettingNames /\ Proxy \notin SettingNames
BY DEF Cleared, SettingNames, Ours, Legacy, AuthName, HTTPS, Proxy

LEMMA SaysSame ==
    ASSUME NEW e, NEW f, NEW c, Says(e, c), Agree(f, e, Cleared)
    PROVE  Says(f, c)
<1>1. /\ Getenv(f, Ours("provider")) = Getenv(e, Ours("provider"))
      /\ Getenv(f, Ours("model")) = Getenv(e, Ours("model"))
      /\ Getenv(f, Ours("base")) = Getenv(e, Ours("base"))
      /\ Getenv(f, Ours("key")) = Getenv(e, Ours("key"))
      /\ Getenv(f, AuthName) = Getenv(e, AuthName)
  BY Names DEF Agree
<1> QED
  BY <1>1 DEF Says

\* A session is resolved to what its settings say.
LEMMA ResolvedSays ==
    ASSUME NEW e, NEW c, Says(e, c), ~LegacyStandsIn(e)
    PROVE  Resolved(e) = c
<1>1. \A s \in {"base", "key", "model", "provider"} : LookupEnv(e, s) = Getenv(e, Ours(s))
  BY DEF LookupEnv, LegacyStandsIn
<1> DEFINE p == Getenv(e, Ours("provider"))
           m == Getenv(e, Ours("model"))
           k == Getenv(e, Ours("key"))
           b == Getenv(e, Ours("base"))
<1>2. p \in DOMAIN Provider /\ p # "" /\ m # ""
  BY DEF Says, Provider
<1>3. Provider[p].keyed => k # ""
  BY DEF Says
<1>4. p = "openai_codex" => AuthFileOf(e) = Getenv(e, AuthName)
  BY DEF Says, AuthFileOf
<1>5. /\ LookupEnv(e, "provider") = p /\ LookupEnv(e, "model") = m
      /\ LookupEnv(e, "key") = k /\ LookupEnv(e, "base") = b
  BY <1>1
<1>6. c = Connection(p, b, m, k, Getenv(e, AuthName))
  BY DEF Says
<1> HIDE DEF p, m, k, b
<1> DEFINE key == IF k = "" THEN Getenv(e, KeyName(p)) ELSE k
<1>7. Provider[p].keyed => key = k /\ key # ""
  BY <1>3
<1> HIDE DEF key
<1>8. Resolved(e) = Connection(p, b, m, key, AuthFileOf(e))
  BY <1>2, <1>5, <1>7 DEF Resolved, key
<1>9. Connection(p, b, m, key, AuthFileOf(e)) = Connection(p, b, m, k, Getenv(e, AuthName))
  BY <1>4, <1>7 DEF Connection
<1> QED
  BY <1>6, <1>8, <1>9

LEMMA SaysConnection ==
    ASSUME NEW e, NEW c, Says(e, c)
    PROVE  /\ c # NoConnection
           /\ c = [provider |-> c.provider, base |-> c.base, model |-> c.model, key |-> c.key,
                   auth |-> c.auth]
<1>1. "none" \notin DOMAIN Provider
  BY DEF Provider
<1>2. c.provider = Getenv(e, Ours("provider"))
  BY DEF Says, Connection
<1>3. c.provider # "none"
  BY <1>1, <1>2 DEF Says
<1>4. NoConnection.provider = "none"
  BY DEF NoConnection
<1>5. c = [provider |-> c.provider, base |-> c.base, model |-> c.model, key |-> c.key,
           auth |-> c.auth]
  BY DEF Says, Connection
<1> QED
  BY <1>3, <1>4, <1>5

LEMMA AnotherModel ==
    ASSUME NEW p, NEW b, NEW old, NEW k, NEW file, NEW m
    PROVE  [Connection(p, b, old, k, file) EXCEPT !.model = m] = Connection(p, b, m, k, file)
<1> DEFINE c    == Connection(p, b, old, k, file)
           base == IF b = "" THEN "default" ELSE b
           key  == IF Provider[p].keyed THEN k ELSE ""
           used == IF p = "openai_codex" THEN file ELSE ""
<1>1. c = [provider |-> p, base |-> base, model |-> old, key |-> key, auth |-> used]
  BY DEF Connection
<1>2. Connection(p, b, m, k, file) =
        [provider |-> p, base |-> base, model |-> m, key |-> key, auth |-> used]
  BY DEF Connection
<1> HIDE DEF c, base, key, used
<1>3. [c EXCEPT !.model = m] =
        [provider |-> p, base |-> base, model |-> m, key |-> key, auth |-> used]
  BY <1>1
<1> QED
  BY <1>2, <1>3 DEF c

LEMMA ModelOf ==
    ASSUME NEW e, NEW c, NEW m,
           c = Connection(Getenv(e, Ours("provider")), Getenv(e, Ours("base")),
                          Getenv(e, Ours("model")), Getenv(e, Ours("key")), Getenv(e, AuthName))
    PROVE  [c EXCEPT !.model = m] =
             Connection(Getenv(e, Ours("provider")), Getenv(e, Ours("base")), m,
                        Getenv(e, Ours("key")), Getenv(e, AuthName))
BY AnotherModel, SMT

LEMMA SaysModel ==
    ASSUME NEW e, NEW c, Says(e, c), NEW f, Getenv(f, Ours("model")) # "",
           Agree(f, e, Cleared \ {Ours("model")})
    PROVE  Says(f, [c EXCEPT !.model = Getenv(f, Ours("model"))])
<1>1. /\ Ours("provider") # Ours("model") /\ Ours("base") # Ours("model")
      /\ Ours("key") # Ours("model") /\ AuthName # Ours("model")
  BY DEF Ours, AuthName
<1>2. /\ Getenv(f, Ours("provider")) = Getenv(e, Ours("provider"))
      /\ Getenv(f, Ours("base")) = Getenv(e, Ours("base"))
      /\ Getenv(f, Ours("key")) = Getenv(e, Ours("key"))
      /\ Getenv(f, AuthName) = Getenv(e, AuthName)
  BY <1>1, Names DEF Agree
<1>3. c = Connection(Getenv(e, Ours("provider")), Getenv(e, Ours("base")),
                     Getenv(e, Ours("model")), Getenv(e, Ours("key")), Getenv(e, AuthName))
  BY DEF Says
<1>4. \A m : [c EXCEPT !.model = m] =
        Connection(Getenv(e, Ours("provider")), Getenv(e, Ours("base")), m,
                   Getenv(e, Ours("key")), Getenv(e, AuthName))
  BY ONLY <1>3, ModelOf
<1>5. [c EXCEPT !.model = Getenv(f, Ours("model"))] =
        Connection(Getenv(f, Ours("provider")), Getenv(f, Ours("base")), Getenv(f, Ours("model")),
                   Getenv(f, Ours("key")), Getenv(f, AuthName))
  BY <1>2, <1>4
<1> QED
  BY <1>2, <1>5 DEF Says

\* What values say is what is said where they are laid over an environment, and in the
\* file they are merged into.
LEMMA OverlaySays ==
    ASSUME NEW e, NEW values
    PROVE  /\ Agree(OverlayEnv(e, values), values, DOMAIN values)
           /\ \A n : n \notin DOMAIN values => Getenv(OverlayEnv(e, values), n) = Getenv(e, n)
           /\ DOMAIN OverlayEnv(e, values) = DOMAIN e \cup DOMAIN values
BY DEF Agree, OverlayEnv, Getenv

LEMMA MergedSays ==
    ASSUME NEW values
    PROVE  /\ Agree(Merged(values), values, DOMAIN values)
           /\ \A n : n \notin DOMAIN values => Getenv(Merged(values), n) = Getenv(config, n)
           /\ DOMAIN Merged(values) \subseteq DOMAIN config \cup DOMAIN values
<1> DEFINE all == OverlayEnv(config, values)
<1>1. /\ Agree(all, values, DOMAIN values)
      /\ \A n : n \notin DOMAIN values => Getenv(all, n) = Getenv(config, n)
      /\ DOMAIN all = DOMAIN config \cup DOMAIN values
  BY OverlaySays
<1>2. Merged(values) = [n \in {m \in DOMAIN all : all[m] # ""} |-> all[n]]
  BY DEF Merged
<1> HIDE DEF all
<1>3. \A n : Getenv(Merged(values), n) = Getenv(all, n)
  BY <1>2 DEF Getenv
<1>4. DOMAIN Merged(values) \subseteq DOMAIN all
  BY <1>2
<1> QED
  BY <1>1, <1>3, <1>4 DEF Agree

\* A file sets what the environment does not have, and leaves alone what it does not name.
LEMMA LoadSays ==
    ASSUME NEW e, NEW values, NEW overridable, NEW n \in SettingNames
    PROVE  /\ n \notin DOMAIN e => Getenv(Load(e, values, overridable).env, n) = Getenv(values, n)
           /\ n \notin DOMAIN values => Getenv(Load(e, values, overridable).env, n) = Getenv(e, n)
<1> DEFINE names == Assigns(e, DOMAIN values, overridable)
           lines == Lines(e, values, names)
           proxy == Getenv(lines.env, Proxy)
           after == Load(e, values, overridable).env
<1>1. lines.env = OverlayEnv(e, [x \in names |-> values[x]])
  BY DEF Lines
<1>2. after = IF proxy = "" THEN lines.env ELSE With(lines.env, HTTPS, proxy)
  BY DEF Load, Set
<1>3. n # HTTPS /\ n # Proxy
  BY Names
<1>4. names \subseteq DOMAIN values /\ (n \notin DOMAIN e /\ n \in DOMAIN values => n \in names)
  BY DEF Assigns
<1> HIDE DEF names, lines, proxy, after
<1>5. Getenv(after, n) = Getenv(lines.env, n)
  BY <1>2, <1>3 DEF With, Getenv
<1>6. Getenv(lines.env, n) = IF n \in names THEN values[n] ELSE Getenv(e, n)
  BY <1>1 DEF OverlayEnv, Getenv
<1> QED
  BY <1>4, <1>5, <1>6 DEF Getenv, after

LEMMA LoadsSay ==
    ASSUME NEW e, NEW values, NEW overridable, NEW s \in Loads(e, values, overridable),
           NEW n \in SettingNames
    PROVE  /\ n \notin DOMAIN e => Getenv(s.env, n) = Getenv(values, n)
           /\ n \notin DOMAIN values => Getenv(s.env, n) = Getenv(e, n)
<1>1. CASE s = Load(e, values, overridable)
  BY <1>1, LoadSays
<1>2. CASE values = <<>> /\ s = [env |-> e, changes |-> <<>>]
  <2>1. s.env = e /\ DOMAIN values = {}
    BY <1>2
  <2> QED
    BY <2>1 DEF Getenv
<1> QED
  BY <1>1, <1>2 DEF Loads

-----------------------------------------------------------------------------
(* The wizard.                                                             *)

\* The entry whose connection is signed in to.
SignsIn(id) == id = "chatgpt"

\* What the wizard has asked for when it has come as far as its steps 1 to 4, and what a
\* check has accepted.
WizardInv ==
    /\ wiz = [step |-> wiz.step, conn |-> wiz.conn, accepted |-> wiz.accepted,
              caller |-> wiz.caller]
    /\ wiz.conn = [id |-> wiz.conn.id, base |-> wiz.conn.base, key |-> wiz.conn.key,
                   model |-> wiz.conn.model, auth |-> wiz.conn.auth]
    /\ wiz.step # 0 => wiz.conn.id \in DOMAIN Catalog
    /\ wiz.step \notin {0, 1} /\ SignsIn(wiz.conn.id) => wiz.conn.auth # ""
    /\ wiz.step \notin {0, 1, 2} => wiz.conn.model # ""
    /\ wiz.step \notin {0, 1, 2, 3} /\ wiz.accepted =>
         (Provider[Catalog[wiz.conn.id].provider].keyed => wiz.conn.key # "")
    /\ DOMAIN auth = {"own", "cli"}
    /\ login.pc # "off" => pc = "wizard" /\ wiz.step = 1 /\ SignsIn(wiz.conn.id)

\* The steps are told apart.
LEMMA StepsDiffer ==
    /\ 1 # 0 /\ 2 # 0 /\ 2 # 1 /\ 3 # 0 /\ 3 # 1 /\ 3 # 2
    /\ 4 # 0 /\ 4 # 1 /\ 4 # 2 /\ 4 # 3
    /\ 5 # 0 /\ 5 # 1 /\ 5 # 2 /\ 5 # 3
OBVIOUS

LEMMA NoConnIs ==
    NoConn = [id |-> NoConn.id, base |-> NoConn.base, key |-> NoConn.key,
              model |-> NoConn.model, auth |-> NoConn.auth]
BY DEF NoConn

LEMMA InitWizard == OnboardingInit => WizardInv
<1> SUFFICES ASSUME OnboardingInit PROVE WizardInv
  OBVIOUS
<1>1. wiz = [step |-> 0, conn |-> NoConn, accepted |-> FALSE, caller |-> "none"]
  BY DEF OnboardingInit, NoWizard
<1>2. /\ wiz.step = 0 /\ wiz.conn = NoConn
      /\ wiz = [step |-> wiz.step, conn |-> wiz.conn, accepted |-> wiz.accepted,
                caller |-> wiz.caller]
  BY <1>1
<1>3. auth = [own |-> "none", cli |-> "none"] /\ login.pc = "off"
  BY DEF OnboardingInit, LoginInit, NoLogin
<1>4. DOMAIN auth = {"own", "cli"}
  BY <1>3
<1> QED
  BY <1>2, <1>3, <1>4, NoConnIs DEF WizardInv

\* The wizard has not gone on, and no sign-in has begun.
LEMMA WizardStays ==
    ASSUME WizardInv, wiz' = wiz, DOMAIN auth' = DOMAIN auth,
           login'.pc # "off" => login.pc # "off" /\ pc' = pc
    PROVE  WizardInv'
BY DEF WizardInv

\* Or it begins.
LEMMA WizardBegins ==
    ASSUME WizardInv, DOMAIN auth' = DOMAIN auth, login'.pc = "off",
           \/ wiz' = NoWizard
           \/ \E caller : wiz' = [NoWizard EXCEPT !.caller = caller]
    PROVE  WizardInv'
<1>1. PICK caller : wiz' = [step |-> 0, conn |-> NoConn, accepted |-> FALSE, caller |-> caller]
  BY DEF NoWizard
<1>2. /\ wiz'.step = 0 /\ wiz'.conn = NoConn
      /\ wiz' = [step |-> wiz'.step, conn |-> wiz'.conn, accepted |-> wiz'.accepted,
                 caller |-> wiz'.caller]
  BY <1>1
<1>3. wiz'.conn = [id |-> wiz'.conn.id, base |-> wiz'.conn.base, key |-> wiz'.conn.key,
                   model |-> wiz'.conn.model, auth |-> wiz'.conn.auth]
  BY <1>2, NoConnIs
<1>4. DOMAIN auth' = {"own", "cli"}
  BY DEF WizardInv
<1> QED
  BY <1>2, <1>3, <1>4 DEF WizardInv

LEMMA ClientsKeepAuth ==
    ASSUME NEW c, NEW r \in Clients(c)
    PROVE  DOMAIN r.auth = DOMAIN auth
<1>1. CASE c.provider = "none" \/ ~ValidBase(c)
  <2> DEFINE used == [ok |-> FALSE, auth |-> auth]
  <2>1. Clients(c) = {used}
    BY <1>1 DEF Clients
  <2>2. used.auth = auth
    OBVIOUS
  <2> HIDE DEF used
  <2> QED
    BY <2>1, <2>2
<1>2. CASE c.provider # "none" /\ ValidBase(c) /\ c.auth \in DOMAIN auth
  <2>1. Clients(c) = {[ok |-> x.ok, auth |-> [auth EXCEPT ![c.auth] = x.state]] :
                        x \in Refreshed(auth[c.auth])}
    BY <1>2 DEF Clients
  <2> QED
    BY <2>1
<1>3. CASE c.provider # "none" /\ ValidBase(c) /\ c.auth \notin DOMAIN auth
  <2> DEFINE used == [ok |-> c.auth = "" /\ (Provider[c.provider].keyed => c.key # ""),
                      auth |-> auth]
  <2>1. Clients(c) = {used}
    BY <1>3 DEF Clients
  <2>2. used.auth = auth
    OBVIOUS
  <2> HIDE DEF used
  <2> QED
    BY <2>1, <2>2
<1> QED
  BY <1>1, <1>2, <1>3

\* What a client that was accepted has been given.
LEMMA ClientsKey ==
    ASSUME DOMAIN auth = {"own", "cli"}, NEW c, c.provider \in DOMAIN Provider,
           c.provider # "openai_codex" => c.auth = "",
           NEW r \in Clients(c), r.ok
    PROVE  Provider[c.provider].keyed => c.key # ""
<1>1. ~Provider["openai_codex"].keyed
  BY DEF Provider, Codex
<1> SUFFICES ASSUME Provider[c.provider].keyed PROVE c.key # ""
  OBVIOUS
<1>2. c.provider # "openai_codex" /\ c.auth = ""
  BY <1>1
<1>3. c.provider # "none" /\ ValidBase(c) /\ c.auth \notin DOMAIN auth
  BY <1>2 DEF ValidBase, Provider
<1> DEFINE used == [ok |-> c.auth = "" /\ (Provider[c.provider].keyed => c.key # ""), auth |-> auth]
<1>4. Clients(c) = {used}
  BY <1>3 DEF Clients
<1>5. r = used
  BY <1>4
<1> QED
  BY <1>5

LEMMA CatalogProvides ==
    \A id \in DOMAIN Catalog :
        /\ Catalog[id].provider \in DOMAIN Provider
        /\ Catalog[id].provider = "openai_codex" => SignsIn(id)
<1>1. DOMAIN Provider = {"openai", "openrouter", "fireworks", "ollama", "openai_codex"}
  BY DEF Provider
<1>2. DOMAIN Catalog = {"chatgpt", "commandcode", "openai", "openrouter", "fireworks", "ollama",
                        "custom"}
  BY DEF Catalog
<1>3. /\ Catalog["chatgpt"].provider = "openai_codex" /\ Catalog["commandcode"].provider = "openai"
      /\ Catalog["openai"].provider = "openai" /\ Catalog["openrouter"].provider = "openrouter"
      /\ Catalog["fireworks"].provider = "fireworks" /\ Catalog["ollama"].provider = "ollama"
      /\ Catalog["custom"].provider = "openai"
  BY DEF Catalog
<1> QED
  BY <1>1, <1>2, <1>3 DEF SignsIn

Wizard(step, id, base, key, model, file, accepted, caller) ==
    [step |-> step,
     conn |-> [id |-> id, base |-> base, key |-> key, model |-> model, auth |-> file],
     accepted |-> accepted, caller |-> caller]

\* What is known at a step of the wizard.
Known(step, id, key, model, file, accepted) ==
    /\ step # 0 => id \in DOMAIN Catalog
    /\ step \notin {0, 1} /\ SignsIn(id) => file # ""
    /\ step \notin {0, 1, 2} => model # ""
    /\ step \notin {0, 1, 2, 3} /\ accepted => (Provider[Catalog[id].provider].keyed => key # "")

\* The next step of the wizard, when it knows what it needs to.
LEMMA WizardGoesOn ==
    ASSUME NEW step, NEW id, NEW base, NEW key, NEW model, NEW file, NEW accepted, NEW caller,
           wiz' = Wizard(step, id, base, key, model, file, accepted, caller),
           Known(step, id, key, model, file, accepted),
           DOMAIN auth' = {"own", "cli"}, login'.pc = "off"
    PROVE  WizardInv'
<1>1. /\ wiz' = [step |-> wiz'.step, conn |-> wiz'.conn, accepted |-> wiz'.accepted,
                 caller |-> wiz'.caller]
      /\ wiz'.step = step /\ wiz'.accepted = accepted
  BY DEF Wizard
<1>2. /\ wiz'.conn = [id |-> wiz'.conn.id, base |-> wiz'.conn.base, key |-> wiz'.conn.key,
                      model |-> wiz'.conn.model, auth |-> wiz'.conn.auth]
      /\ wiz'.conn.id = id /\ wiz'.conn.key = key /\ wiz'.conn.model = model
      /\ wiz'.conn.auth = file
  BY DEF Wizard
<1> QED
  BY <1>1, <1>2 DEF WizardInv, Known

LEMMA NextWizard ==
    ASSUME OneReader, WizardInv, [OnboardingNext]_onboardingVars
    PROVE  WizardInv'
<1>1. PICK step, id, base, key, model, file, accepted, caller :
        wiz = Wizard(step, id, base, key, model, file, accepted, caller)
  <2>1. wiz = Wizard(wiz.step, wiz.conn.id, wiz.conn.base, wiz.conn.key, wiz.conn.model,
                     wiz.conn.auth, wiz.accepted, wiz.caller)
    BY DEF WizardInv, Wizard
  <2> QED
    BY <2>1
<1>2. /\ wiz.step = step /\ wiz.conn.id = id /\ wiz.conn.key = key /\ wiz.conn.model = model
      /\ wiz.conn.auth = file /\ wiz.accepted = accepted /\ wiz.conn.base = base
      /\ wiz.caller = caller
  BY <1>1 DEF Wizard
<1>3. /\ step # 0 => id \in DOMAIN Catalog
      /\ step \notin {0, 1} /\ SignsIn(id) => file # ""
      /\ step \notin {0, 1, 2} => model # ""
      /\ step \notin {0, 1, 2, 3} /\ accepted =>
           (Provider[Catalog[id].provider].keyed => key # "")
      /\ DOMAIN auth = {"own", "cli"}
  BY <1>2 DEF WizardInv
<1>4. CASE ChooseProvider
  <2>1. PICK chosenId \in Offered :
          Goes([wiz EXCEPT !.conn = [NoConn EXCEPT !.id = chosenId, !.base = Catalog[chosenId].base]],
               "none")
    BY <1>4 DEF ChooseProvider
  <2>2. wiz.step = 0 /\ login.pc = "off" /\ login' = login /\ auth' = auth
    BY <1>4 DEF ChooseProvider, At
  <2>3. NextStep(wiz.step, "none") = 1
    BY <2>2 DEF NextStep
  <2>4. wiz' = Wizard(1, chosenId, Catalog[chosenId].base, "", "", "", accepted, caller)
    BY <1>1, <2>1, <2>3 DEF Goes, Wizard, NoConn
  <2>5. Known(1, chosenId, "", "", "", accepted)
    BY OnboardingAssumption DEF Known
  <2> QED
    BY <1>3, <2>2, <2>4, <2>5, WizardGoesOn
<1>5. CASE UseKey
  <2>1. wiz.step = 1 /\ login.pc = "off" /\ login' = login /\ auth' = auth /\ ~SignsIn(id)
    BY <1>2, <1>5 DEF UseKey, At, SignsIn
  <2>2. NextStep(wiz.step, "none") = 2 /\ NextStep(wiz.step, "back") = 0
    BY <2>1 DEF NextStep
  <2>3. \/ \E new : Goes([wiz EXCEPT !.conn.key = new], "none")
        \/ Goes(wiz, "back")
    BY <1>5 DEF UseKey
  <2>4. CASE Goes(wiz, "back")
    <3>1. wiz' = Wizard(0, id, base, key, model, file, accepted, caller)
      BY <1>1, <2>2, <2>4 DEF Goes, Wizard
    <3>2. Known(0, id, key, model, file, accepted)
      BY DEF Known
    <3> QED
      BY <1>3, <2>1, <3>1, <3>2, WizardGoesOn
  <2>5. ASSUME NEW new, Goes([wiz EXCEPT !.conn.key = new], "none")
        PROVE  WizardInv'
    <3>1. wiz' = Wizard(2, id, base, new, model, file, accepted, caller)
      BY <1>1, <2>2, <2>5 DEF Goes, Wizard
    <3>2. Known(2, id, new, model, file, accepted)
      BY <1>2, <1>3, <2>1, StepsDiffer DEF Known
    <3> QED
      BY <1>3, <2>1, <3>1, <3>2, WizardGoesOn
  <2> QED
    BY <2>3, <2>4, <2>5
<1>6. CASE UseServer
  <2>1. wiz.step = 1 /\ login.pc = "off" /\ login' = login /\ auth' = auth /\ ~SignsIn(id)
    BY <1>2, <1>6 DEF UseServer, At, SignsIn
  <2>2. NextStep(wiz.step, "none") = 2 /\ NextStep(wiz.step, "back") = 0
    BY <2>1 DEF NextStep
  <2>3. \/ \E url, new : Goes([wiz EXCEPT !.conn.base = url, !.conn.key = new], "none")
        \/ Goes(wiz, "back")
    BY <1>6 DEF UseServer
  <2>4. CASE Goes(wiz, "back")
    <3>1. wiz' = Wizard(0, id, base, key, model, file, accepted, caller)
      BY <1>1, <2>2, <2>4 DEF Goes, Wizard
    <3>2. Known(0, id, key, model, file, accepted)
      BY DEF Known
    <3> QED
      BY <1>3, <2>1, <3>1, <3>2, WizardGoesOn
  <2>5. ASSUME NEW url, NEW new, Goes([wiz EXCEPT !.conn.base = url, !.conn.key = new], "none")
        PROVE  WizardInv'
    <3>1. wiz' = Wizard(2, id, url, new, model, file, accepted, caller)
      BY <1>1, <2>2, <2>5 DEF Goes, Wizard
    <3>2. Known(2, id, new, model, file, accepted)
      BY <1>2, <1>3, <2>1, StepsDiffer DEF Known
    <3> QED
      BY <1>3, <2>1, <3>1, <3>2, WizardGoesOn
  <2> QED
    BY <2>3, <2>4, <2>5
<1>7. CASE UseOllama
  <2>1. wiz.step = 1 /\ login.pc = "off" /\ login' = login /\ auth' = auth /\ ~SignsIn(id)
    BY <1>2, <1>7 DEF UseOllama, At, SignsIn
  <2>2. NextStep(wiz.step, "none") = 2 /\ NextStep(wiz.step, "back") = 0
    BY <2>1 DEF NextStep
  <2>3. Goes(wiz, "none") \/ Goes(wiz, "back")
    BY <1>7 DEF UseOllama
  <2>4. \E next \in {0, 2} : wiz' = Wizard(next, id, base, key, model, file, accepted, caller)
    BY <1>1, <2>2, <2>3 DEF Goes, Wizard
  <2>5. \A next \in {0, 2} : Known(next, id, key, model, file, accepted)
    BY <1>2, <1>3, <2>1, StepsDiffer DEF Known
  <2> QED
    BY <1>3, <2>1, <2>4, <2>5, WizardGoesOn
<1>8. CASE UseExistingLogin
  <2>1. wiz.step = 1 /\ login.pc = "off" /\ login' = login /\ auth' = auth
    BY <1>8 DEF UseExistingLogin, At
  <2>2. NextStep(wiz.step, "none") = 2 /\ NextStep(wiz.step, "back") = 0
    BY <2>1 DEF NextStep
  <2>3. \/ ExistingLogin # "" /\ Goes([wiz EXCEPT !.conn.auth = ExistingLogin], "none")
        \/ Goes(wiz, "back")
    BY <1>8 DEF UseExistingLogin
  <2>4. CASE Goes(wiz, "back")
    <3>1. wiz' = Wizard(0, id, base, key, model, file, accepted, caller)
      BY <1>1, <2>2, <2>4 DEF Goes, Wizard
    <3>2. Known(0, id, key, model, file, accepted)
      BY DEF Known
    <3> QED
      BY <1>3, <2>1, <3>1, <3>2, WizardGoesOn
  <2>5. ASSUME NEW new, new # "", Goes([wiz EXCEPT !.conn.auth = new], "none")
        PROVE  WizardInv'
    <3>1. wiz' = Wizard(2, id, base, key, model, new, accepted, caller)
      BY <1>1, <2>2, <2>5 DEF Goes, Wizard
    <3>2. Known(2, id, key, model, new, accepted)
      BY <1>2, <1>3, <2>1, <2>5, StepsDiffer DEF Known
    <3> QED
      BY <1>3, <2>1, <3>1, <3>2, WizardGoesOn
  <2> QED
    BY <2>3, <2>4, <2>5
<1>9. CASE ChooseModel
  <2>1. wiz.step = 2 /\ login.pc = "off" /\ login' = login /\ auth' = auth
    BY <1>9 DEF ChooseModel, At
  <2>2. NextStep(wiz.step, "none") = 3 /\ NextStep(wiz.step, "back") = 1
    BY <2>1 DEF NextStep
  <2>3. \/ \E m \in Models : Goes([wiz EXCEPT !.conn.model = m], "none")
        \/ Goes([wiz EXCEPT !.conn.model = ""], "back")
    BY <1>9 DEF ChooseModel
  <2>4. CASE Goes([wiz EXCEPT !.conn.model = ""], "back")
    <3>1. wiz' = Wizard(1, id, base, key, "", file, accepted, caller)
      BY <1>1, <2>2, <2>4 DEF Goes, Wizard
    <3>2. Known(1, id, key, "", file, accepted)
      BY <1>2, <1>3, <2>1, StepsDiffer DEF Known
    <3> QED
      BY <1>3, <2>1, <3>1, <3>2, WizardGoesOn
  <2>5. ASSUME NEW m \in Models, Goes([wiz EXCEPT !.conn.model = m], "none")
        PROVE  WizardInv'
    <3>1. wiz' = Wizard(3, id, base, key, m, file, accepted, caller)
      BY <1>1, <2>2, <2>5 DEF Goes, Wizard
    <3>2. Known(3, id, key, m, file, accepted)
      BY <1>2, <1>3, <2>1, OnboardingAssumption, StepsDiffer DEF Known
    <3> QED
      BY <1>3, <2>1, <3>1, <3>2, WizardGoesOn
  <2> QED
    BY <2>3, <2>4, <2>5
<1>10. CASE Verify
  <2>1. wiz.step = 3 /\ login.pc = "off" /\ login' = login
    BY <1>10 DEF Verify, At
  <2>2. /\ NextStep(wiz.step, "none") = 4 /\ NextStep(wiz.step, "back") = 2
        /\ NextStep(wiz.step, "retry") = 1
    BY <2>1 DEF NextStep
  <2>3. PICK c \in Clients(Checked(wiz.conn)) :
          /\ auth' = c.auth
          /\ \/ c.ok /\ Goes([wiz EXCEPT !.accepted = TRUE], "none")
             \/ Goes([wiz EXCEPT !.accepted = FALSE], "none")
             \/ Goes(wiz, "back")
             \/ Goes(wiz, "retry")
    BY <1>10 DEF Verify
  <2>4. DOMAIN auth' = {"own", "cli"}
    BY <1>3, <2>3, ClientsKeepAuth
  <2>5. \/ c.ok /\ wiz' = Wizard(4, id, base, key, model, file, TRUE, caller)
        \/ wiz' = Wizard(4, id, base, key, model, file, FALSE, caller)
        \/ wiz' = Wizard(2, id, base, key, model, file, accepted, caller)
        \/ wiz' = Wizard(1, id, base, key, model, file, accepted, caller)
    BY <1>1, <2>2, <2>3 DEF Goes, Wizard
  <2>6. c.ok => (Provider[Catalog[id].provider].keyed => key # "")
    <3> DEFINE used == Checked(wiz.conn)
    <3>1. /\ used.provider = Catalog[id].provider
          /\ used.provider # "openai_codex" => used.auth = ""
          /\ Provider[Catalog[id].provider].keyed => used.key = key
      BY <1>2 DEF Checked, Connection
    <3>2. used.provider \in DOMAIN Provider
      <4>1. step # 0
        BY <1>2, <2>1
      <4>2. id \in DOMAIN Catalog
        BY <1>3, <4>1
      <4> QED
        BY <3>1, <4>2, CatalogProvides
    <3>3. c \in Clients(used)
      OBVIOUS
    <3> HIDE DEF used
    <3>4. c.ok => (Provider[used.provider].keyed => used.key # "")
      BY <1>3, <3>1, <3>2, <3>3, ClientsKey
    <3> QED
      BY <3>1, <3>4
  <2>7. /\ Known(2, id, key, model, file, accepted) /\ Known(1, id, key, model, file, accepted)
        /\ Known(4, id, key, model, file, FALSE)
        /\ c.ok => Known(4, id, key, model, file, TRUE)
    BY <1>2, <1>3, <2>1, <2>6, StepsDiffer DEF Known
  <2>8. CASE c.ok /\ wiz' = Wizard(4, id, base, key, model, file, TRUE, caller)
    BY <2>1, <2>4, <2>7, <2>8, WizardGoesOn
  <2>9. CASE wiz' = Wizard(4, id, base, key, model, file, FALSE, caller)
    BY <2>1, <2>4, <2>7, <2>9, WizardGoesOn
  <2>10. CASE wiz' = Wizard(2, id, base, key, model, file, accepted, caller)
    BY <2>1, <2>4, <2>7, <2>10, WizardGoesOn
  <2>11. CASE wiz' = Wizard(1, id, base, key, model, file, accepted, caller)
    BY <2>1, <2>4, <2>7, <2>11, WizardGoesOn
  <2> QED
    BY <2>5, <2>8, <2>9, <2>10, <2>11
<1>11. CASE ChooseJudge
  <2>1. wiz.step = 4 /\ login.pc = "off" /\ login' = login /\ auth' = auth
    BY <1>11 DEF ChooseJudge, At
  <2>2. NextStep(wiz.step, "none") = 5 /\ NextStep(wiz.step, "back") = 2
    BY <2>1 DEF NextStep
  <2>3. Goes(wiz, "none") \/ Goes(wiz, "back")
    BY <1>11 DEF ChooseJudge
  <2>4. \E next \in {2, 5} : wiz' = Wizard(next, id, base, key, model, file, accepted, caller)
    BY <1>1, <2>2, <2>3 DEF Goes, Wizard
  <2>5. \A next \in {2, 5} : Known(next, id, key, model, file, accepted)
    BY <1>2, <1>3, <2>1, StepsDiffer DEF Known
  <2> QED
    BY <1>3, <2>1, <2>4, <2>5, WizardGoesOn
<1>12. CASE SignedIn
  <2>1. /\ wiz.step = 1 /\ pc = "wizard" /\ SignsIn(id) /\ auth' = auth
        /\ login' = [NoLogin EXCEPT !.paste = login.paste]
    BY <1>2, <1>12 DEF SignedIn, WizardInv
  <2>2. login'.pc = "off"
    BY <2>1 DEF NoLogin
  <2>3. NextStep(wiz.step, "none") = 2
    BY <2>1 DEF NextStep
  <2>4. CASE login.result = "ok"
    <3>1. Goes([wiz EXCEPT !.conn.auth = "own"], "none")
      BY <1>12, <2>4 DEF SignedIn
    <3>2. wiz' = Wizard(2, id, base, key, model, "own", accepted, caller)
      BY <1>1, <2>3, <3>1 DEF Goes, Wizard
    <3>3. Known(2, id, key, model, "own", accepted)
      BY <1>2, <1>3, <2>1, StepsDiffer DEF Known
    <3> QED
      BY <1>3, <2>1, <2>2, <3>2, <3>3, WizardGoesOn
  <2>5. CASE login.result = "cancelled"
    <3>1. wiz' = NoWizard
      BY <1>12, <2>5 DEF SignedIn
    <3> QED
      BY <2>1, <2>2, <3>1, WizardBegins
  <2>6. CASE login.result \notin {"ok", "cancelled"}
    <3>1. wiz' = wiz
      BY <1>12, <2>6 DEF SignedIn
    <3> QED
      BY <2>1, <2>2, <3>1, WizardStays
  <2> QED
    BY <2>4, <2>5, <2>6
<1>13. CASE SignIn
  <2>1. pc = "wizard" /\ wiz.step = 1 /\ SignsIn(id) /\ wiz' = wiz /\ auth' = auth /\ pc' = pc
    BY <1>2, <1>13 DEF SignIn, At, SignsIn
  <2> QED
    BY <1>2, <2>1 DEF WizardInv
<1>14. CASE SignInStep
  <2>1. login.pc # "off" /\ wiz' = wiz /\ pc' = pc
    BY <1>14 DEF SignInStep
  <2>2. DOMAIN auth' = DOMAIN auth
    BY <1>14 DEF SignInStep, LoginStep, Callback, PasteReads, PasteSeesCancel, PasteHandles,
         Answered, Joined, Exchanged, Granted, SaveTokens, EndLogin, configVars
  <2> QED
    BY <2>1, <2>2, WizardStays
<1>15. CASE Start \/ CancelWizard \/ Die \/ Probe \/ SaveSetup \/ LogIn \/ LogOut
  <2>1. login'.pc = "off"
    <3>1. CASE Die
      BY <3>1 DEF Die, NoLogin
    <3>2. CASE CancelWizard
      BY <3>2 DEF CancelWizard
    <3>3. CASE SaveSetup
      <4>1. wiz.step = 5 /\ login' = login
        BY <3>3 DEF SaveSetup
      <4> QED
        BY <4>1, StepsDiffer DEF WizardInv
    <3>4. CASE Start \/ Probe \/ LogIn \/ LogOut
      BY <3>4 DEF Start, Probe, LogIn, LogOut, WizardInv
    <3> QED
      BY <1>15, <3>1, <3>2, <3>3, <3>4
  <2>2. \/ wiz' = NoWizard
        \/ \E new : wiz' = [NoWizard EXCEPT !.caller = new]
    BY <1>15 DEF Start, CancelWizard, Die, Probe, SaveSetup, LogIn, LogOut
  <2>3. DOMAIN auth' = DOMAIN auth
    <3>1. CASE Probe
      BY <3>1, ClientsKeepAuth DEF Probe
    <3>2. CASE ~Probe
      BY <1>15, <3>2 DEF Start, CancelWizard, Die, SaveSetup, LogIn, LogOut, configVars
    <3> QED
      BY <3>1, <3>2
  <2> QED
    BY <2>1, <2>2, <2>3, WizardBegins
<1>16. CASE LoadUserConfig \/ LoadWorkspace \/ LoadFails \/ CloseScope \/ Close \/ Expire
            \/ StartSession \/ Quit \/ PickModel
  <2>1. wiz' = wiz /\ login' = login
    BY <1>16 DEF LoadUserConfig, LoadWorkspace, LoadFails, CloseScope, Close, Expire,
         StartSession, Quit, PickModel, OnlyAt
  <2>2. DOMAIN auth' = DOMAIN auth
    <3>1. CASE StartSession
      BY <3>1, ClientsKeepAuth DEF StartSession
    <3>2. CASE ~StartSession
      BY <1>16, <3>2 DEF LoadUserConfig, LoadWorkspace, LoadFails, CloseScope, Close, Expire,
         Quit, PickModel, configVars
    <3> QED
      BY <3>1, <3>2
  <2>3. pc' = pc \/ pc # "wizard"
    BY <1>16 DEF LoadUserConfig, LoadWorkspace, LoadFails, CloseScope, Close, Expire,
         StartSession, Quit, PickModel, OnlyAt
  <2>4. login.pc # "off" => pc = "wizard"
    BY DEF WizardInv
  <2> QED
    BY <2>1, <2>2, <2>3, <2>4, WizardStays
<1>17. CASE UNCHANGED onboardingVars
  BY <1>17, WizardStays DEF onboardingVars, configVars
<1> QED
  BY <1>4, <1>5, <1>6, <1>7, <1>8, <1>9, <1>10, <1>11, <1>12, <1>13, <1>14, <1>15, <1>16, <1>17
  DEF OnboardingNext

-----------------------------------------------------------------------------
(* What was accepted is what is used.                                      *)

\* Run has loaded the files and has not begun to end.
Loaded ==
    \/ pc \in {"probing", "starting", "session"}
    \/ pc = "wizard" /\ wiz.caller # "setup"

\* Nothing but the file of the user names a setting.
OnlyTheFile ==
    /\ overrides = <<>> /\ chosen.file # NoConnection
    /\ SettingNames \cap (DOMAIN environ \cup DOMAIN workspace) = {}

\* Where the choices are remembered: in the overrides, in the file, and, once it is
\* loaded, in the environment.
ConnInv ==
    /\ chosen = [live |-> chosen.live, file |-> chosen.file]
    /\ DOMAIN overrides \subseteq Cleared /\ DOMAIN config \subseteq Cleared
    /\ chosen.live # NoConnection =>
         Cleared \subseteq DOMAIN overrides /\ Says(overrides, chosen.live)
    /\ chosen.file # NoConnection => Says(config, chosen.file)
    /\ Loaded => scopes # <<>>
    /\ pc # "closing" /\ scopes # <<>> /\ OnlyTheFile => Agree(env, config, SettingNames)
    /\ session # NoConnection => pc = "session" /\ session = Resolved(Sees)

LEMMA InitConn == OnboardingInit => ConnInv
<1> SUFFICES ASSUME OnboardingInit PROVE ConnInv
  OBVIOUS
<1>1. chosen = [live |-> NoConnection, file |-> NoConnection]
  BY DEF OnboardingInit
<1>2. /\ chosen.live = NoConnection /\ chosen.file = NoConnection
      /\ chosen = [live |-> chosen.live, file |-> chosen.file]
  BY <1>1
<1>3. /\ overrides = <<>> /\ config = <<>> /\ pc = "off" /\ session = NoConnection
      /\ scopes = <<>>
  BY DEF OnboardingInit
<1>4. DOMAIN overrides = {} /\ DOMAIN config = {}
  BY <1>3
<1> QED
  BY <1>2, <1>3, <1>4 DEF ConnInv, Loaded

\* What the wizard writes when its check has succeeded.
LEMMA ValuesOf ==
    ASSUME NEW conn
    PROVE  /\ DOMAIN ConnectionValues(conn) = Cleared
           /\ Getenv(ConnectionValues(conn), Ours("provider")) = Catalog[conn.id].provider
           /\ Getenv(ConnectionValues(conn), Ours("model")) = conn.model
           /\ Getenv(ConnectionValues(conn), Ours("base")) = conn.base
           /\ Getenv(ConnectionValues(conn), Ours("key")) = conn.key
           /\ Getenv(ConnectionValues(conn), AuthName) = conn.auth
<1>1. \A n \in Cleared : Getenv(ConnectionValues(conn), n) = ConnectionValue(conn, n)
  BY DEF ConnectionValues, Getenv
<1>2. /\ ConnectionValue(conn, Ours("provider")) = Catalog[conn.id].provider
      /\ ConnectionValue(conn, Ours("model")) = conn.model
      /\ ConnectionValue(conn, Ours("base")) = conn.base
      /\ ConnectionValue(conn, Ours("key")) = conn.key
      /\ ConnectionValue(conn, AuthName) = conn.auth
  BY DEF ConnectionValue, Ours, AuthName
<1>3. DOMAIN ConnectionValues(conn) = Cleared
  BY DEF ConnectionValues
<1> QED
  BY <1>1, <1>2, <1>3, Names

LEMMA AcceptedSays ==
    ASSUME WizardInv, wiz.step = 5, wiz.accepted
    PROVE  Says(ConnectionValues(wiz.conn), Checked(wiz.conn))
<1> DEFINE conn == wiz.conn
           p    == Catalog[conn.id].provider
           v    == ConnectionValues(conn)
<1>1. /\ conn.id \in DOMAIN Catalog /\ conn.model # ""
      /\ SignsIn(conn.id) => conn.auth # ""
      /\ Provider[p].keyed => conn.key # ""
  BY StepsDiffer DEF WizardInv
<1>2. p \in DOMAIN Provider /\ (p = "openai_codex" => conn.auth # "")
  BY <1>1, CatalogProvides
<1>3. /\ Getenv(v, Ours("provider")) = p /\ Getenv(v, Ours("model")) = conn.model
      /\ Getenv(v, Ours("base")) = conn.base /\ Getenv(v, Ours("key")) = conn.key
      /\ Getenv(v, AuthName) = conn.auth
  BY ValuesOf
<1>4. Checked(conn) = Connection(p, conn.base, conn.model, conn.key,
                                 IF conn.auth # "" THEN conn.auth ELSE AuthFileOf(Sees))
  BY DEF Checked
<1> HIDE DEF conn, p, v
<1>5. Checked(conn) = Connection(p, conn.base, conn.model, conn.key, conn.auth)
  BY <1>2, <1>4 DEF Connection
<1>6. Says(v, Checked(conn))
  BY <1>1, <1>2, <1>3, <1>5 DEF Says
<1> QED
  BY <1>6 DEF conn, v

LEMMA WrittenNames ==
    ASSUME DOMAIN config \subseteq Cleared, NEW values, DOMAIN values \subseteq Cleared,
           NEW ok \in BOOLEAN, WriteConfig(values, ok)
    PROVE  DOMAIN config' \subseteq Cleared /\ (ok => config' = Merged(values))
<1>1. DOMAIN Merged(values) \subseteq Cleared
  BY MergedSays
<1>2. ASSUME NEW content \in Torn(Merged(values))
      PROVE  DOMAIN content \subseteq Cleared
  <2>1. DOMAIN <<>> = {}
    OBVIOUS
  <2>2. content = <<>> \/ \E n : content = Without(Merged(values), n)
    BY <1>2 DEF Torn
  <2> QED
    BY <1>1, <2>1, <2>2 DEF Without
<1> QED
  BY <1>1, <1>2 DEF WriteConfig

\* Nothing that the choices depend on has changed.
LEMMA ConnStays ==
    ASSUME ConnInv, UNCHANGED <<environ, env, scopes, overrides, config, workspace, chosen>>,
           pc = "closing" => pc' = "closing" \/ scopes = <<>>,
           Loaded' => Loaded,
           session' = NoConnection \/ (session' = session /\ pc' = pc)
    PROVE  ConnInv'
<1>1. UNCHANGED <<Sees, OnlyTheFile>>
  BY DEF Sees, OnlyTheFile
<1>2. pc' # "closing" /\ scopes # <<>> => pc # "closing"
  OBVIOUS
<1> QED
  BY <1>1, <1>2 DEF ConnInv

\* A process that has ended.
LEMMA ConnEnds ==
    ASSUME ConnInv, UNCHANGED <<environ, config, workspace>>, scopes' = <<>>, overrides' = <<>>,
           chosen' = [chosen EXCEPT !.live = NoConnection], pc' = "off", session' = NoConnection
    PROVE  ConnInv'
<1>1. chosen = [live |-> chosen.live, file |-> chosen.file]
  BY DEF ConnInv
<1>2. chosen' = [live |-> NoConnection, file |-> chosen.file]
  BY ONLY <1>1, chosen' = [chosen EXCEPT !.live = NoConnection]
<1>3. /\ chosen'.live = NoConnection /\ chosen'.file = chosen.file
      /\ chosen' = [live |-> chosen'.live, file |-> chosen'.file]
  BY <1>2
<1>4. DOMAIN overrides' = {}
  OBVIOUS
<1> QED
  BY <1>3, <1>4 DEF ConnInv, Loaded

\* Values are saved: what is said of them is remembered.
LEMMA ConnSaved ==
    ASSUME ConnInv, NEW values, DOMAIN values \subseteq Cleared, DOMAIN values # {},
           NEW ok \in BOOLEAN, WriteConfig(values, ok),
           UNCHANGED <<environ, env, scopes, workspace>>, session' = NoConnection,
           Loaded' => Loaded,
           NEW live, NEW file, chosen' = [live |-> live, file |-> file],
           live # NoConnection => Cleared \subseteq DOMAIN overrides' /\ Says(overrides', live),
           file # NoConnection => ok /\ Says(Merged(values), file),
           \/ overrides' = OverlayEnv(overrides, values)
           \/ overrides' = overrides /\ (file = NoConnection \/ pc' = "closing")
    PROVE  ConnInv'
<1>1. /\ chosen'.live = live /\ chosen'.file = file
      /\ chosen' = [live |-> chosen'.live, file |-> chosen'.file]
  OBVIOUS
<1>2. DOMAIN config' \subseteq Cleared /\ (ok => config' = Merged(values))
  BY WrittenNames DEF ConnInv
<1>3. DOMAIN overrides' \subseteq Cleared
  BY OverlaySays DEF ConnInv
<1>4. ASSUME pc' # "closing", OnlyTheFile'
      PROVE  FALSE
  <2>1. overrides' = <<>> /\ file # NoConnection
    BY <1>1, <1>4 DEF OnlyTheFile
  <2>2. DOMAIN overrides' = {}
    BY <2>1
  <2>3. DOMAIN OverlayEnv(overrides, values) # {}
    BY OverlaySays
  <2>4. overrides' # OverlayEnv(overrides, values)
    BY <2>2, <2>3
  <2> QED
    BY <1>4, <2>1, <2>4
<1> QED
  BY <1>1, <1>2, <1>3, <1>4 DEF ConnInv

\* A step of the wizard is for the same caller.
LEMMA CallerStays ==
    ASSUME WizardInv,
           \/ ChooseProvider \/ UseKey \/ UseServer \/ UseOllama \/ UseExistingLogin \/ SignIn
           \/ ChooseModel \/ Verify \/ ChooseJudge \/ (SignedIn /\ login.result # "cancelled")
    PROVE  wiz'.caller = wiz.caller
<1>1. wiz = [step |-> wiz.step, conn |-> wiz.conn, accepted |-> wiz.accepted,
             caller |-> wiz.caller]
  BY DEF WizardInv
<1>3. \A err : Goes(wiz, err) => wiz'.caller = wiz.caller
  BY <1>1 DEF Goes
<1>4. \A err, conn : Goes([wiz EXCEPT !.conn = conn], err) => wiz'.caller = wiz.caller
  BY <1>1 DEF Goes
<1>5. \A err, x : Goes([wiz EXCEPT !.accepted = x], err) => wiz'.caller = wiz.caller
  BY <1>1 DEF Goes
<1>6. \A err, x : Goes([wiz EXCEPT !.conn.key = x], err) => wiz'.caller = wiz.caller
  BY <1>1 DEF Goes
<1>7. \A err, x : Goes([wiz EXCEPT !.conn.auth = x], err) => wiz'.caller = wiz.caller
  BY <1>1 DEF Goes
<1>8. \A err, x : Goes([wiz EXCEPT !.conn.model = x], err) => wiz'.caller = wiz.caller
  BY <1>1 DEF Goes
<1>9. \A err, x, y : Goes([wiz EXCEPT !.conn.base = x, !.conn.key = y], err)
                        => wiz'.caller = wiz.caller
  BY <1>1 DEF Goes
<1>10. CASE ChooseProvider
  BY <1>4, <1>10 DEF ChooseProvider
<1>11. CASE UseKey
  BY <1>3, <1>6, <1>11 DEF UseKey
<1>12. CASE UseServer
  BY <1>3, <1>9, <1>12 DEF UseServer
<1>13. CASE UseOllama
  BY <1>3, <1>13 DEF UseOllama
<1>14. CASE UseExistingLogin
  BY <1>3, <1>7, <1>14 DEF UseExistingLogin
<1>15. CASE SignIn
  BY <1>15 DEF SignIn
<1>16. CASE ChooseModel
  BY <1>3, <1>8, <1>16 DEF ChooseModel
<1>17. CASE Verify
  BY <1>3, <1>5, <1>17 DEF Verify
<1>18. CASE ChooseJudge
  BY <1>3, <1>18 DEF ChooseJudge
<1>19. CASE SignedIn /\ login.result # "cancelled"
  BY <1>7, <1>19 DEF SignedIn
<1> QED
  BY <1>10, <1>11, <1>12, <1>13, <1>14, <1>15, <1>16, <1>17, <1>18, <1>19

LEMMA NextConn ==
    ASSUME ScopeInv, WizardInv, ConnInv, [OnboardingNext]_onboardingVars
    PROVE  ConnInv'
<1>0. pc # "session" => session = NoConnection
  BY DEF ConnInv
<1>1. CASE LoadUserConfig
  <2>0. PICK s \in Loads(env, config, {}) : env' = s.env /\ scopes' = <<s.changes>>
    BY <1>1 DEF LoadUserConfig
  <2>1. /\ pc = "loading" /\ pc' = "loading" /\ scopes = <<>>
        /\ UNCHANGED <<environ, overrides, config, workspace, wiz, session, chosen>>
    BY <1>1 DEF LoadUserConfig, OnlyAt
  <2>2. env = environ
    <3>1. <<>> # <<scopes[1]>> /\ <<>> # <<scopes[1], scopes[2]>>
      OBVIOUS
    <3> QED
      BY <2>1, <3>1 DEF ScopeInv, Restorable
  <2>3. ASSUME OnlyTheFile'
        PROVE  Agree(env', config', SettingNames)
    <3>1. SettingNames \cap DOMAIN env = {}
      BY <2>1, <2>2, <2>3 DEF OnlyTheFile
    <3>2. \A n \in SettingNames : Getenv(s.env, n) = Getenv(config, n)
      BY <2>0, <3>1, LoadsSay
    <3> QED
      BY <2>0, <2>1, <3>2 DEF Agree
  <2> QED
    BY <1>0, <2>1, <2>3 DEF ConnInv, Loaded
<1>2. CASE LoadWorkspace
  <2>0. PICK s \in Loads(env, workspace, NamesOf(scopes[1])) :
          env' = s.env /\ scopes' = Append(scopes, s.changes)
    BY <1>2 DEF LoadWorkspace
  <2>1. /\ pc = "loading" /\ pc' = "probing" /\ Len(scopes) = 1
        /\ UNCHANGED <<environ, overrides, config, workspace, session, chosen>>
    BY <1>2 DEF LoadWorkspace, OnlyAt
  <2>2. ASSUME NEW last
        PROVE  Append(scopes, last) # <<>> /\ scopes # <<>>
    <3>1. scopes = <<scopes[1]>>
      <4>1. CASE scopes = <<>>
        BY <2>1, <4>1, FewScopes
      <4>2. CASE scopes = <<scopes[1], scopes[2]>>
        <5>1. Len(scopes) = 2
          BY <4>2, FewScopes
        <5>2. Len(scopes) = 1
          BY <2>1
        <5> QED
          BY ONLY <5>1, <5>2
      <4> QED
        BY <4>1, <4>2 DEF ScopeInv, Restorable
    <3>2. Append(scopes, last) = <<scopes[1], last>>
      BY <3>1, FewScopes
    <3>3. <<scopes[1], last>> # <<>> /\ <<scopes[1]>> # <<>>
      OBVIOUS
    <3> QED
      BY <3>1, <3>2, <3>3
  <2>3. ASSUME OnlyTheFile'
        PROVE  Agree(env', config', SettingNames)
    <3>1. OnlyTheFile /\ SettingNames \cap DOMAIN workspace = {}
      BY <2>1, <2>3 DEF OnlyTheFile
    <3>2. Agree(env, config, SettingNames)
      BY <2>1, <2>2, <3>1 DEF ConnInv
    <3>3. \A n \in SettingNames : Getenv(s.env, n) = Getenv(env, n)
      BY <2>0, <3>1, LoadsSay
    <3> QED
      BY <2>0, <2>1, <3>2, <3>3 DEF Agree
  <2>4. scopes' # <<>>
    BY <2>0, <2>2
  <2> QED
    BY <1>0, <2>1, <2>3, <2>4 DEF ConnInv
<1>3. CASE LoadFails \/ CloseScope
  <2>1. /\ pc' = "closing" /\ session = NoConnection
        /\ UNCHANGED <<environ, overrides, config, workspace, session, chosen>>
    BY <1>0, <1>3 DEF LoadFails, CloseScope, OnlyAt
  <2> QED
    BY <2>1 DEF ConnInv, Loaded
<1>4. CASE Close
  BY <1>0, <1>4, ConnEnds DEF Close
<1>5. CASE Die
  BY <1>5, ConnEnds DEF Die
<1>6. CASE Start
  <2>1. pc = "off" /\ scopes = <<>>
    BY <1>6 DEF Start, ScopeInv
  <2>2. ~Loaded'
    <3>1. pc' = "loading" \/ (pc' = "wizard" /\ wiz' = [NoWizard EXCEPT !.caller = "setup"])
      BY <1>6 DEF Start
    <3>2. [NoWizard EXCEPT !.caller = "setup"].caller = "setup"
      BY DEF NoWizard
    <3> QED
      BY <3>1, <3>2 DEF Loaded
  <2>3. UNCHANGED <<environ, env, scopes, overrides, config, workspace, chosen, session>>
    BY <1>6 DEF Start, configVars
  <2> QED
    BY <1>0, <2>1, <2>2, <2>3, ConnStays
<1>7. CASE StartSession
  <2>1. /\ pc = "starting" /\ pc' = "session"
        /\ UNCHANGED <<environ, env, scopes, overrides, config, workspace, chosen>>
        /\ session' = NoConnection \/ session' = Resolved(Sees)
    BY <1>7 DEF StartSession
  <2>2. Sees' = Sees /\ Resolved(Sees)' = Resolved(Sees)
    BY <2>1 DEF Sees, Resolved
  <2>3. Loaded /\ UNCHANGED OnlyTheFile
    BY <2>1 DEF Loaded, OnlyTheFile
  <2> QED
    BY <2>1, <2>2, <2>3 DEF ConnInv
<1>8. CASE Probe
  <2>1. /\ pc = "probing" /\ pc' \in {"starting", "wizard"}
        /\ UNCHANGED <<environ, env, scopes, overrides, config, workspace, chosen, session>>
    BY <1>8 DEF Probe
  <2> QED
    BY <1>0, <2>1, ConnStays DEF Loaded
<1>9. CASE Quit \/ LogIn
  <2>1. /\ pc = "session" /\ session' = NoConnection
        /\ UNCHANGED <<environ, env, scopes, overrides, config, workspace, chosen>>
    BY <1>9 DEF Quit, LogIn, configVars
  <2> QED
    BY <2>1, ConnStays DEF Loaded
<1>10. CASE Expire \/ SignInStep \/ UNCHANGED onboardingVars
  <2>1. UNCHANGED <<environ, env, scopes, overrides, config, workspace, chosen, session, pc, wiz>>
    <3>1. CASE Expire
      BY <3>1 DEF Expire
    <3>2. CASE SignInStep
      BY <3>2 DEF SignInStep, LoginStep, Callback, PasteReads, PasteSeesCancel, PasteHandles,
         Answered, Stop, Joined, Exchanged, Granted, SaveTokens, EndLogin, configVars
    <3>3. CASE UNCHANGED onboardingVars
      BY <3>3 DEF onboardingVars, configVars
    <3> QED
      BY <1>10, <3>1, <3>2, <3>3
  <2> QED
    BY <2>1, ConnStays DEF Loaded
<1>11. CASE ChooseProvider \/ UseKey \/ UseServer \/ UseOllama \/ UseExistingLogin \/ SignIn
            \/ ChooseModel \/ Verify \/ ChooseJudge
  <2>1. /\ pc = "wizard" /\ pc' = pc
        /\ UNCHANGED <<environ, env, scopes, overrides, config, workspace, chosen, session>>
    BY <1>11 DEF ChooseProvider, UseKey, UseServer, UseOllama, UseExistingLogin, SignIn,
       ChooseModel, Verify, ChooseJudge, At, Unsaved
  <2>2. wiz'.caller = wiz.caller
    BY <1>11, CallerStays
  <2> QED
    BY <2>1, <2>2, ConnStays DEF Loaded
<1>12. CASE CancelWizard \/ SignedIn
  <2>1. /\ pc = "wizard"
        /\ UNCHANGED <<environ, env, scopes, overrides, config, workspace, chosen, session>>
    BY <1>12 DEF CancelWizard, SignedIn, Unsaved
  <2>2. \/ wiz.caller = "login" /\ pc' = "starting"
        \/ pc' = "closing"
        \/ pc' = pc /\ wiz'.caller = wiz.caller
    <3>1. CASE CancelWizard
      BY <3>1 DEF CancelWizard
    <3>2. CASE SignedIn /\ login.result = "cancelled"
      BY <3>2 DEF SignedIn
    <3>3. CASE SignedIn /\ login.result # "cancelled"
      <4>1. pc' = pc
        BY <3>3 DEF SignedIn
      <4>2. wiz'.caller = wiz.caller
        BY <3>3, CallerStays
      <4> QED
        BY <4>1, <4>2
    <3> QED
      BY <1>12, <3>1, <3>2, <3>3
  <2> QED
    BY <1>0, <2>1, <2>2, ConnStays DEF Loaded
<1>13. CASE SaveSetup
  <2> DEFINE values == ConnectionValues(wiz.conn)
             accepted == Accepted(wiz)
  <2>1. PICK ok \in BOOLEAN :
          /\ WriteConfig(values, ok)
          /\ overrides' = IF ok /\ wiz.caller # "setup" THEN OverlayEnv(overrides, values)
                          ELSE overrides
          /\ chosen' = [live |-> IF ~ok \/ wiz.caller = "setup" THEN chosen.live ELSE accepted,
                        file |-> IF ok THEN accepted ELSE NoConnection]
          /\ pc' = IF wiz.caller = "login" \/ (ok /\ wiz.caller = "probe")
                   THEN "starting" ELSE "closing"
    BY <1>13 DEF SaveSetup
  <2>2. /\ pc = "wizard" /\ wiz.step = 5
        /\ UNCHANGED <<environ, env, scopes, workspace, session>>
    BY <1>13 DEF SaveSetup
  <2>3. DOMAIN values = Cleared /\ Cleared # {}
    BY ValuesOf, Names
  <2>4. accepted # NoConnection => Says(values, accepted)
    BY <2>2, AcceptedSays DEF Accepted
  <2> HIDE DEF values, accepted
  <2>5. accepted # NoConnection => Says(Merged(values), accepted)
    BY <2>3, <2>4, MergedSays, SaysSame
  <2>6. accepted # NoConnection => Says(OverlayEnv(overrides, values), accepted)
    BY <2>3, <2>4, OverlaySays, SaysSame
  <2>7. Cleared \subseteq DOMAIN OverlayEnv(overrides, values)
    BY <2>3, OverlaySays
  <2>8. Loaded' => Loaded
    BY <2>1, <2>2 DEF Loaded
  <2>9. session' = NoConnection
    BY <1>0, <2>2
  <2> DEFINE live == IF ~ok \/ wiz.caller = "setup" THEN chosen.live ELSE accepted
             file == IF ok THEN accepted ELSE NoConnection
  <2>10. live # NoConnection => Cleared \subseteq DOMAIN overrides' /\ Says(overrides', live)
    BY <2>1, <2>6, <2>7 DEF ConnInv
  <2>11. file # NoConnection => ok /\ Says(Merged(values), file)
    BY <2>5
  <2>12. \/ overrides' = OverlayEnv(overrides, values)
         \/ overrides' = overrides /\ (file = NoConnection \/ pc' = "closing")
    BY <2>1
  <2> QED
    BY <2>1, <2>2, <2>3, <2>8, <2>9, <2>10, <2>11, <2>12, ConnSaved
<1>14. CASE PickModel
  <2>1. PICK m \in Models : ApplyValues([n \in {Ours("model")} |-> m])
    BY <1>14 DEF PickModel
  <2> DEFINE values == [n \in {Ours("model")} |-> m]
  <2>2. /\ pc = "session" /\ pc' = "starting" /\ session' = NoConnection
        /\ UNCHANGED <<environ, env, scopes, workspace>>
    BY <1>14 DEF PickModel
  <2>3. /\ DOMAIN values = {Ours("model")} /\ values[Ours("model")] = m
        /\ Getenv(values, Ours("model")) = m /\ m # "" /\ Ours("model") \in Cleared
    BY OnboardingAssumption, Names DEF Getenv
  <2> DEFINE live == IF chosen.live = NoConnection THEN NoConnection
                     ELSE [chosen.live EXCEPT !.model = m]
             file(ok) == IF ~ok \/ chosen.file = NoConnection THEN NoConnection
                         ELSE [chosen.file EXCEPT !.model = m]
  <2>4. PICK ok \in BOOLEAN :
          /\ overrides' = OverlayEnv(overrides, values) /\ WriteConfig(values, ok)
          /\ chosen' = [live |-> live, file |-> file(ok)]
    BY <2>1, <2>3 DEF ApplyValues
  <2> HIDE DEF values
  <2>5. ASSUME NEW e, NEW f, NEW c, Says(e, c), Agree(f, values, DOMAIN values),
               \A n : n \notin DOMAIN values => Getenv(f, n) = Getenv(e, n)
        PROVE  Says(f, [c EXCEPT !.model = m])
    <3>1. Getenv(f, Ours("model")) = m
      BY <2>3, <2>5 DEF Agree
    <3>2. Agree(f, e, Cleared \ {Ours("model")})
      BY <2>3, <2>5 DEF Agree
    <3>3. Says(f, [c EXCEPT !.model = Getenv(f, Ours("model"))])
      BY <2>3, <2>5, <3>1, <3>2, SaysModel
    <3> QED
      BY <3>1, <3>3
  <2>6. chosen.live # NoConnection =>
          Says(OverlayEnv(overrides, values), [chosen.live EXCEPT !.model = m])
    BY <2>5, OverlaySays DEF ConnInv
  <2>7. chosen.file # NoConnection => Says(Merged(values), [chosen.file EXCEPT !.model = m])
    BY <2>5, MergedSays DEF ConnInv
  <2>8. live # NoConnection => Cleared \subseteq DOMAIN overrides' /\ Says(overrides', live)
    BY <2>4, <2>6, OverlaySays DEF ConnInv
  <2>9. file(ok) # NoConnection => ok /\ Says(Merged(values), file(ok))
    BY <2>7
  <2>10. Loaded
    BY <2>2 DEF Loaded
  <2> HIDE DEF live, file
  <2> QED
    BY <2>2, <2>3, <2>4, <2>8, <2>9, <2>10, ConnSaved
<1>15. CASE LogOut
  <2> DEFINE values == [n \in Cleared |-> ""]
  <2>1. /\ pc = "session" /\ session' = NoConnection
        /\ UNCHANGED <<environ, env, scopes, workspace>>
        /\ overrides' = OverlayEnv(overrides, values)
        /\ chosen' = [live |-> NoConnection, file |-> NoConnection]
    BY <1>15 DEF LogOut
  <2>2. PICK ok \in BOOLEAN : WriteConfig(values, ok)
    BY <1>15 DEF LogOut
  <2>3. DOMAIN values \subseteq Cleared /\ DOMAIN values # {}
    BY Names
  <2>4. Loaded
    BY <2>1 DEF Loaded
  <2> HIDE DEF values
  <2> QED
    BY <2>1, <2>2, <2>3, <2>4, ConnSaved
<1> QED
  BY <1>1, <1>2, <1>3, <1>4, <1>5, <1>6, <1>7, <1>8, <1>9, <1>10, <1>11, <1>12, <1>13, <1>14,
     <1>15 DEF OnboardingNext

\* What the terminal sees of the settings, with what it has laid over them.
LEMMA SeesSays ==
    ASSUME ConnInv
    PROVE  /\ \A n \in DOMAIN overrides : Getenv(Sees, n) = Getenv(overrides, n)
           /\ \A n : n \notin DOMAIN overrides => Getenv(Sees, n) = Getenv(env, n)
           /\ LegacyStandsIn(Sees) = LegacyStandsIn(env)
<1>1. /\ \A n \in DOMAIN overrides : Getenv(Sees, n) = Getenv(overrides, n)
      /\ \A n : n \notin DOMAIN overrides => Getenv(Sees, n) = Getenv(env, n)
  BY DEF Sees, OverlayEnv, Getenv
<1>2. \A s \in {"base", "key", "model", "provider"} : Legacy(s) \notin DOMAIN overrides
  BY Names DEF ConnInv
<1> QED
  BY <1>1, <1>2 DEF LegacyStandsIn

\* The sessions of a process use the connection its user has had checked, and those of
\* a later process the one that was checked and saved: whatever the wizard, /model,
\* /login and /logout do in between, whichever writes fail, and whenever a process dies.
THEOREM TakingEffect ==
    OnboardingInit /\ [][OnboardingNext]_onboardingVars => []SetupTakesEffect
<1>1. ConnInv => SetupTakesEffect
  <2> SUFFICES ASSUME ConnInv, session # NoConnection PROVE SetupTakesEffect
    BY DEF SetupTakesEffect
  <2>1. pc = "session" /\ session = Resolved(Sees) /\ scopes # <<>>
    BY DEF ConnInv, Loaded
  <2>2. ASSUME chosen.live # NoConnection, ~LegacyStandsIn(env)
        PROVE  session = chosen.live
    <3>1. Says(overrides, chosen.live) /\ Agree(Sees, overrides, Cleared)
      BY <2>2, SeesSays DEF ConnInv, Agree
    <3>2. Says(Sees, chosen.live)
      BY <3>1, SaysSame
    <3> QED
      BY <2>1, <2>2, <3>2, SeesSays, ResolvedSays
  <2>3. ASSUME OnlyTheFile
        PROVE  session = chosen.file
    <3>1. Says(config, chosen.file) /\ Agree(env, config, SettingNames)
      BY <2>1, <2>3 DEF ConnInv, OnlyTheFile
    <3>2. DOMAIN overrides = {}
      BY <2>3 DEF OnlyTheFile
    <3>3. Agree(Sees, config, Cleared)
      BY <3>1, <3>2, SeesSays, Names DEF Agree
    <3>4. Says(Sees, chosen.file)
      BY <3>1, <3>3, SaysSame
    <3>5. ~LegacyStandsIn(env)
      <4>1. \A s \in {"base", "key", "model", "provider"} : Getenv(env, Legacy(s)) = ""
        BY <3>1, Names DEF Agree, ConnInv, Getenv
      <4> QED
        BY <4>1 DEF LegacyStandsIn
    <3> QED
      BY <2>1, <3>4, <3>5, SeesSays, ResolvedSays
  <2> QED
    BY <2>2, <2>3 DEF SetupTakesEffect, OnlyTheFile
<1>2. OneReader /\ WizardInv /\ [OnboardingNext]_onboardingVars => WizardInv'
  BY NextWizard
<1>3. ScopeInv /\ WizardInv /\ ConnInv /\ [OnboardingNext]_onboardingVars => ConnInv'
  BY NextConn
<1> QED
  BY <1>1, <1>2, <1>3, InitReader, NextReader, InitScopes, NextScopes, InitWizard, InitConn, PTL

=============================================================================
