----------------------- MODULE RenderSourceHooksProofs ----------------------
(***************************************************************************)
(* The installation of the hooks is all or nothing, for any engine sites   *)
(* and thunks: those proofs use only that Sites is a sequence.             *)
(*                                                                         *)
(* The thunks keep their contract.  The proof runs their code on an        *)
(* arbitrary processor: a lemma for each way that an instruction can go,   *)
(* lemmas for the pieces of code that the thunks share (saving and         *)
(* restoring registers, asking for an identity, the walk of a base read),  *)
(* what each thunk does, what the instructions it replaces do, and their   *)
(* comparison at each kind of site.                                        *)
(***************************************************************************)
EXTENDS RenderSourceHooks, SequenceTheorems, WellFoundedInduction, TLAPS

\* Patches are written only after the last of them has been prepared, and an
\* installation that returns has written none of them or all.
AllOrNothing ==
  /\ pc \in {"preflight", "prepare"} => patched = {}
  /\ pc = "returned" => patched = {} \/ installed
  /\ installed => patched = DOMAIN Sites

\* What SFSE and the runtime do follows the result of the installation.
Follows ==
  /\ plugin # "loading" => pc = "returned"
  /\ plugin = "loaded" => installed
  /\ plugin = "refused" => ~installed
  /\ armed => plugin = "loaded"
  /\ binding # "absent" => armed

IInv == AllOrNothing /\ Follows

\* Initially nothing is patched or published.
LEMMA InitIInv == Init => IInv
BY DEF Init, IInv, AllOrNothing, Follows

\* The installation keeps the invariant: each of its steps happens while the
\* plugin is still loading, and only FinishInstall sets installed.
LEMMA InstallKeeps ==
  ASSUME IInv, PreflightSites \/ PrepareCallPatch \/ WritePatch \/ FinishInstall \/ SFSEPluginLoad
  PROVE  IInv'
<1>1. CASE PreflightSites
  BY <1>1 DEF PreflightSites, runtimeVars, IInv, AllOrNothing, Follows
<1>2. CASE PrepareCallPatch
  BY <1>2 DEF PrepareCallPatch, runtimeVars, IInv, AllOrNothing, Follows
<1>3. CASE WritePatch
  \* A site is left to be written, so the installation has not finished.
  <2>1. ~installed
    <3>1. PICK k \in DOMAIN Sites : patched = 1 .. k - 1 /\ patched' = 1 .. k
      BY <1>3 DEF WritePatch
    <3>2. SUFFICES ASSUME installed PROVE FALSE
      OBVIOUS
    <3>3. patched = DOMAIN Sites
      BY <3>2 DEF IInv, AllOrNothing
    <3>4. k \in 1 .. k - 1
      BY <3>1, <3>3
    <3> QED BY <3>4
  <2> QED BY <1>3, <2>1 DEF WritePatch, runtimeVars, IInv, AllOrNothing, Follows
<1>4. CASE FinishInstall
  BY <1>4 DEF FinishInstall, runtimeVars, IInv, AllOrNothing, Follows
<1>5. CASE SFSEPluginLoad
  BY <1>5 DEF SFSEPluginLoad, runtimeVars, IInv, AllOrNothing, Follows
<1> QED BY <1>1, <1>2, <1>3, <1>4, <1>5

\* So do the runtime and the engine, which patch nothing.
LEMMA RuntimeKeeps ==
  ASSUME IInv,
         RunStartupScan \/ ChangeBinding \/ KillRuntime \/ LeaveSite
           \/ \E k \in DOMAIN Sites : ReachSite(k)
  PROVE  IInv'
<1>1. CASE RunStartupScan
  BY <1>1 DEF RunStartupScan, installVars, IInv, AllOrNothing, Follows
<1>2. CASE ChangeBinding
  BY <1>2 DEF ChangeBinding, PublishRenderSource, ActivateRenderSource, DeactivateRenderSource,
              installVars, IInv, AllOrNothing, Follows
<1>3. CASE KillRuntime
  BY <1>3 DEF KillRuntime, installVars, IInv, AllOrNothing, Follows
<1>4. CASE LeaveSite
  BY <1>4 DEF LeaveSite, installVars, runtimeVars, IInv, AllOrNothing, Follows
<1>5. CASE \E k \in DOMAIN Sites : ReachSite(k)
  <2>1. UNCHANGED <<installVars, runtimeVars>>
    BY <1>5 DEF ReachSite
  <2> QED BY <2>1 DEF installVars, runtimeVars, IInv, AllOrNothing, Follows
<1> QED BY <1>1, <1>2, <1>3, <1>4, <1>5

\* The invariant of the installation, in every reachable state.
THEOREM InstallInvariant == Spec => []IInv
<1>1. IInv /\ [Next]_vars => IInv'
  <2> SUFFICES ASSUME IInv, [Next]_vars PROVE IInv'
    OBVIOUS
  <2>1. CASE Next
    BY <2>1, InstallKeeps, RuntimeKeeps DEF Next
  <2>2. CASE UNCHANGED vars
    BY <2>2 DEF vars, installVars, runtimeVars, IInv, AllOrNothing, Follows
  <2> QED BY <2>1, <2>2
<1> QED BY <1>1, InitIInv, PTL DEF Spec

\* A refused installation has changed no engine code: the plugin that SFSE
\* unloads leaves no call to its thunks behind (main.cpp:58).
THEOREM RefusalIsClean == Spec => []RefusedMeansUntouched
<1>1. IInv => RefusedMeansUntouched
  BY DEF IInv, AllOrNothing, Follows, RefusedMeansUntouched
<1> QED BY <1>1, InstallInvariant, PTL

\* No source is published before every site is redirected.
THEOREM RedirectedFirst == Spec => []PublishedOnlyWhenRedirected
<1>1. IInv => PublishedOnlyWhenRedirected
  BY DEF IInv, AllOrNothing, Follows, PublishedOnlyWhenRedirected
<1> QED BY <1>1, InstallInvariant, PTL
-----------------------------------------------------------------------------
(* Types.                                                                  *)

\* The sites of the texture code.
TextureKinds == {"formIDThenLookup", "ownerFileLookup", "maskedFormID", "compositeOwnerIndex",
  "compositeMaskedFormID"}

\* What an entry of the tables of sites may be.
EngineSites ==
  {BaseRead(actor, result) : actor \in Registers, result \in Registers}
    \cup {Texture(kind) : kind \in TextureKinds} \cup {GeometryLookup}

\* The tables are a sequence of such entries.
LEMMA SitesTyped == Sites \in Seq(EngineSites)
<1>1. kBaseReadSites \in Seq(EngineSites)
  <2>1. \A actor, result \in Registers : BaseRead(actor, result) \in EngineSites
    BY DEF EngineSites
  <2>2. {"rax", "rcx", "rbx", "rbp", "rsi", "rdi", "r8", "r13", "r14"} \subseteq Registers
    BY DEF Registers
  <2> QED BY <2>1, <2>2 DEF kBaseReadSites
<1>2. kTextureIdentitySites \in Seq(EngineSites)
  <2>1. \A kind \in TextureKinds : Texture(kind) \in EngineSites
    BY DEF EngineSites
  <2> QED BY <2>1 DEF kTextureIdentitySites, TextureKinds
<1>3. <<GeometryLookup>> \in Seq(EngineSites)
  BY DEF EngineSites
<1> QED BY <1>1, <1>2, <1>3, ConcatProperties DEF Sites

\* All that the proofs about the installation need of them.
LEMMA SitesListed == Len(Sites) \in Nat /\ DOMAIN Sites = 1 .. Len(Sites)
BY SitesTyped, LenProperties

\* The loops of the installation stay within the tables of sites, and what the
\* engine runs is always a site of them.
THEOREM TypeCorrect == Spec => []TypeOK
<1>1. Init => TypeOK
  <2>1. 0 \in 0 .. Len(Sites)
    BY SitesListed
  <2>2. {} = 1 .. 0
    OBVIOUS
  <2>3. {} \in {1 .. k : k \in 0 .. Len(Sites)}
    BY <2>1, <2>2, Zenon
  <2>4. Init => patched \in {1 .. k : k \in 0 .. Len(Sites)}
    BY <2>3 DEF Init
  <2>5. Init => /\ prepared \in 0 .. Len(Sites) /\ last.site \in {0} \cup DOMAIN Sites
                /\ pc = "preflight" /\ installed = FALSE /\ plugin = "loading"
                /\ armed = FALSE /\ operational = TRUE /\ binding = "absent"
    BY <2>1 DEF Init, NoRun
  <2> QED BY <2>4, <2>5 DEF TypeOK
<1>2. TypeOK /\ [Next]_vars => TypeOK'
  <2> SUFFICES ASSUME TypeOK, [Next]_vars PROVE TypeOK'
    OBVIOUS
  <2> USE DEF installVars, runtimeVars
  <2>1. CASE PreflightSites \/ FinishInstall \/ SFSEPluginLoad \/ RunStartupScan \/ KillRuntime
    BY <2>1 DEF PreflightSites, FinishInstall, SFSEPluginLoad, RunStartupScan, KillRuntime, TypeOK
  <2>2. CASE PrepareCallPatch
    <3>1. prepared' \in 0 .. Len(Sites)
      BY <2>2, SitesListed DEF PrepareCallPatch, TypeOK
    <3> QED BY <2>2, <3>1 DEF PrepareCallPatch, TypeOK
  <2>3. CASE WritePatch
    <3>1. \E k \in 0 .. Len(Sites) : patched' = 1 .. k
      BY <2>3, SitesListed DEF WritePatch
    <3> QED BY <2>3, <3>1 DEF WritePatch, TypeOK
  <2>4. CASE ChangeBinding
    BY <2>4 DEF ChangeBinding, PublishRenderSource, ActivateRenderSource, DeactivateRenderSource, TypeOK
  <2>5. CASE LeaveSite
    BY <2>5 DEF LeaveSite, NoRun, TypeOK
  <2>6. ASSUME NEW k \in DOMAIN Sites, ReachSite(k) PROVE TypeOK'
    <3>1. last'.site = k
      BY <2>6 DEF ReachSite
    <3>2. UNCHANGED <<installVars, runtimeVars>>
      BY <2>6 DEF ReachSite
    <3> QED BY <3>1, <3>2 DEF TypeOK
  <2>7. CASE UNCHANGED vars
    BY <2>7 DEF vars, TypeOK
  <2> QED BY <2>1, <2>2, <2>3, <2>4, <2>5, <2>6, <2>7 DEF Next
<1> QED BY <1>1, <1>2, PTL DEF Spec

-----------------------------------------------------------------------------
(* The run of a code: one processor after another.                         *)

\* A set of naturals that is not empty has a least element.
LEMMA LeastNatural ==
  ASSUME NEW S \in SUBSET Nat, S # {}
  PROVE  \E n \in S : \A m \in S : n <= m
<1>1. PICK n \in S : \A m \in S : ~ (<<m, n>> \in OpToRel(<, Nat))
  BY NatLessThanWellFounded, WFMin
<1>2. \A m \in S : m < n => <<m, n>> \in OpToRel(<, Nat)
  BY DEF OpToRel
<1>3. \A m \in S : ~(m < n)
  BY <1>1, <1>2, Zenon
<1> QED BY <1>3

\* Induction over a set of naturals.
LEMMA SetInduction ==
  ASSUME NEW S, 0 \in S, \A n \in Nat : n \in S => n + 1 \in S
  PROVE  Nat \subseteq S
<1> SUFFICES ASSUME Nat \ S # {} PROVE FALSE
  OBVIOUS
<1>1. PICK n \in Nat \ S : \A m \in Nat \ S : n <= m
  BY LeastNatural
<1>2. n # 0 /\ n - 1 \in Nat /\ n - 1 \in S
  BY <1>1
<1>3. (n - 1) + 1 \in S
  BY <1>2
<1> QED BY <1>1, <1>2, <1>3

\* What the run of a code leads through: the processor at the start and after each instruction.
Trace(w, cpu, code, after) ==
  after = [k \in 0 .. Len(code) |-> IF k = 0 THEN cpu ELSE Execute(w, after[k - 1], code[k])]

\* Every code has such a run.
LEMMA RunExists ==
  ASSUME NEW w, NEW cpu, NEW code, Len(code) \in Nat
  PROVE  \E after : Trace(w, cpu, code, after)
<1> DEFINE Upto(n, after) ==
      after = [k \in 0 .. n |-> IF k = 0 THEN cpu ELSE Execute(w, after[k - 1], code[k])]
           S == {n \in Nat : \E after : Upto(n, after)}
<1>1. 0 \in S
  <2>1. Upto(0, [k \in 0 .. 0 |-> cpu])
    OBVIOUS
  <2> QED BY <2>1
<1>2. ASSUME NEW n \in Nat, n \in S PROVE n + 1 \in S
  <2>1. PICK f : Upto(n, f)
    BY <1>2
  <2> DEFINE g == [k \in 0 .. n + 1 |-> IF k = n + 1 THEN Execute(w, f[n], code[n + 1]) ELSE f[k]]
  <2>2. \A k \in 0 .. n : f[k] = IF k = 0 THEN cpu ELSE Execute(w, f[k - 1], code[k])
    BY <2>1
  <2>3. ASSUME NEW k \in 0 .. n + 1 PROVE g[k] = IF k = 0 THEN cpu ELSE Execute(w, g[k - 1], code[k])
    <3>1. CASE k = 0
      BY <3>1, <2>2
    <3>2. CASE k = n + 1
      BY <3>2
    <3>3. CASE k # 0 /\ k # n + 1
      <4>1. k \in 0 .. n /\ k - 1 \in 0 .. n
        BY <3>3
      <4> QED BY <4>1, <2>2, <3>3
    <3> QED BY <3>1, <3>2, <3>3
  <2>4. g = [k \in 0 .. n + 1 |-> IF k = 0 THEN cpu ELSE Execute(w, g[k - 1], code[k])]
    BY <2>3, Zenon
  <2>5. Upto(n + 1, g)
    BY <2>4, Zenon
  <2>6. \E after : Upto(n + 1, after)
    BY <2>5, Zenon
  <2> HIDE DEF g, Upto
  <2> QED BY <2>6
<1> HIDE DEF S
<1>3. Len(code) \in S
  BY <1>1, <1>2, SetInduction
<1> QED BY <1>3 DEF S, Trace

\* The same, step by step.
Leads(w, cpu, code, n, after) ==
  /\ after[0] = cpu
  /\ \A k \in 1 .. n : after[k] = Execute(w, after[k - 1], code[k])
  /\ Run(w, cpu, code) = after[n]

\* What Run computes is the last processor of the run.
LEMMA RunIs ==
  ASSUME NEW w, NEW cpu, NEW code, NEW n \in Nat, Len(code) = n
  PROVE  \E after : Leads(w, cpu, code, n, after)
<1> DEFINE a == CHOOSE after :
                  after = [k \in 0 .. Len(code) |->
                             IF k = 0 THEN cpu ELSE Execute(w, after[k - 1], code[k])]
<1>1. Run(w, cpu, code) = a[n]
  BY DEF Run
<1>2. a = [k \in 0 .. Len(code) |-> IF k = 0 THEN cpu ELSE Execute(w, a[k - 1], code[k])]
  <2>1. PICK f : Trace(w, cpu, code, f)
    BY RunExists
  <2> QED BY <2>1, Zenon DEF Trace
<1> HIDE DEF a
<1>3. a[0] = cpu
  BY <1>2
<1>4. \A k \in 1 .. n : a[k] = Execute(w, a[k - 1], code[k])
  BY <1>2
<1>5. Leads(w, cpu, code, n, a)
  BY <1>1, <1>3, <1>4 DEF Leads
<1> QED BY <1>5, Zenon

\* A sequence of anything.
IsSeq(s) == \E A : s \in Seq(A)

\* The parts of two sequences that are joined.
LEMMA Joined ==
  ASSUME NEW p, NEW q, IsSeq(p), IsSeq(q)
  PROVE  /\ IsSeq(p \o q) /\ Len(p) \in Nat /\ Len(q) \in Nat /\ Len(p \o q) = Len(p) + Len(q)
         /\ \A k \in 1 .. Len(p) : (p \o q)[k] = p[k]
         /\ \A k \in 1 .. Len(q) : (p \o q)[Len(p) + k] = q[k]
<1>1. PICK A : p \in Seq(A)
  BY DEF IsSeq
<1>2. PICK B : q \in Seq(B)
  BY DEF IsSeq
<1>3. p \in Seq(A \cup B) /\ q \in Seq(A \cup B)
  BY <1>1, <1>2, SeqMonotonic
<1>4. p \o q \in Seq(A \cup B)
  BY <1>3
<1> QED BY <1>3, <1>4 DEF IsSeq

\* Code that is joined runs one part after the other.
LEMMA RunConcat ==
  ASSUME NEW w, NEW cpu, NEW p, NEW q, IsSeq(p), IsSeq(q)
  PROVE  Run(w, cpu, p \o q) = Run(w, Run(w, cpu, p), q)
<1> DEFINE m == Len(p)  n == Len(q)
<1>0. m \in Nat /\ n \in Nat /\ m + n \in Nat /\ Len(p) = m /\ Len(q) = n /\ Len(p \o q) = m + n
  BY Joined
<1> HIDE DEF m, n
<1>1. PICK all : Leads(w, cpu, p \o q, m + n, all)
  BY <1>0, RunIs
<1>2. PICK a : Leads(w, cpu, p, m, a)
  BY <1>0, RunIs
<1>3. PICK b : Leads(w, a[m], q, n, b)
  BY <1>0, RunIs
<1>4. \A k \in 1 .. m : (p \o q)[k] = p[k]
  BY Joined DEF m
<1>5. \A k \in 1 .. n : (p \o q)[m + k] = q[k]
  BY Joined DEF m, n
<1> DEFINE S == {k \in Nat : k <= m => all[k] = a[k]}
           T == {k \in Nat : k <= n => all[m + k] = b[k]}
<1>6. Nat \subseteq S
  <2>1. 0 \in S
    BY <1>1, <1>2 DEF Leads
  <2>2. ASSUME NEW k \in Nat, k \in S PROVE k + 1 \in S
    <3> SUFFICES ASSUME k + 1 <= m PROVE all[k + 1] = a[k + 1]
      OBVIOUS
    <3>1. k + 1 \in 1 .. m /\ k + 1 \in 1 .. m + n /\ (k + 1) - 1 = k /\ all[k] = a[k]
      BY <1>0, <2>2
    <3> QED BY <3>1, <1>1, <1>2, <1>4 DEF Leads
  <2> HIDE DEF S
  <2> QED BY <2>1, <2>2, SetInduction
<1>7. Nat \subseteq T
  <2>1. 0 \in T
    <3>1. m \in S
      BY <1>0, <1>6
    <3> QED BY <3>1, <1>0, <1>3 DEF Leads
  <2>2. ASSUME NEW k \in Nat, k \in T PROVE k + 1 \in T
    <3> SUFFICES ASSUME k + 1 <= n PROVE all[m + (k + 1)] = b[k + 1]
      OBVIOUS
    <3>1. k + 1 \in 1 .. n /\ m + (k + 1) \in 1 .. m + n /\ (k + 1) - 1 = k /\ all[m + k] = b[k]
          /\ (m + (k + 1)) - 1 = m + k
      BY <1>0, <2>2
    <3> QED BY <3>1, <1>1, <1>3, <1>5 DEF Leads
  <2> HIDE DEF T
  <2> QED BY <2>1, <2>2, SetInduction
<1>8. n \in T
  BY <1>0, <1>7
<1> QED BY <1>0, <1>1, <1>2, <1>3, <1>8 DEF Leads

-----------------------------------------------------------------------------
(* Instructions, one lemma for each way that one can go.                   *)

\* A word on top of a stack, and the words of a sub.
Onto(v, S) == <<v>> \o S
Space(n, S) == [k \in 1 .. n |-> Junk] \o S

\* A processor whose calls have all been aligned.
Cpu(R, F, S, skip, left, G) ==
  [regs |-> R, flags |-> F, stack |-> S, aligned |-> TRUE, skip |-> skip, left |-> left, given |-> G]

\* The processor goes on, jumps to a label, or has left the code.
Open(R, F, S, G)       == Cpu(R, F, S, "", "", G)
Heading(R, F, S, l, G) == Cpu(R, F, S, l, "", G)
Gone(R, F, S, place, G) == Cpu(R, F, S, "", place, G)

\* A register is replaced.
Put(R, r, v) == [R EXCEPT ![r] = v]
Word(x)  == Value(x, "")
Masked(v, mask) == <<"and", v[2], mask[2]>>
Zero  == Word("zero")
Other == Word("nonzero")
Named(l) == l # ""

\* The walk of a base read finds the key.
Found(w, key) == key = FormID("base") /\ w.binding # "absent"

\* A register is pushed.
LEMMA PushStep ==
  ASSUME NEW w, NEW R, NEW F, NEW S, NEW G, NEW r
  PROVE  Execute(w, Open(R, F, S, G), Push(r)) =
           Open(R, F, Onto(R[r], S), G)
BY Zenon DEF Execute, Open, Cpu, Push, Ins, Onto

\* A register is popped.
LEMMA PopStep ==
  ASSUME NEW w, NEW R, NEW F, NEW S, NEW G, NEW r
  PROVE  Execute(w, Open(R, F, S, G), Pop(r)) =
           Open(Put(R, r, Head(S)), F, Tail(S), G)
BY Zenon DEF Execute, Open, Cpu, Put, Pop, Ins

\* The flags are pushed.
LEMMA PushFlagsStep ==
  ASSUME NEW w, NEW R, NEW F, NEW S, NEW G
  PROVE  Execute(w, Open(R, F, S, G), Plain("pushfq")) =
           Open(R, F, Onto(F, S), G)
BY Zenon DEF Execute, Open, Cpu, Plain, Ins, Onto

\* The flags are popped.
LEMMA PopFlagsStep ==
  ASSUME NEW w, NEW R, NEW F, NEW S, NEW G
  PROVE  Execute(w, Open(R, F, S, G), Plain("popfq")) =
           Open(R, Head(S), Tail(S), G)
BY Zenon DEF Execute, Open, Cpu, Plain, Ins

\* Words are reserved on the stack.
LEMMA SubStep ==
  ASSUME NEW w, NEW R, NEW F, NEW S, NEW G, NEW n
  PROVE  Execute(w, Open(R, F, S, G), Sub(n)) =
           Open(R, Junk, Space(n, S), G)
BY Zenon DEF Execute, Open, Cpu, Sub, Ins, Space

\* Words are released.
LEMMA AddStep ==
  ASSUME NEW w, NEW R, NEW F, NEW S, NEW G, NEW n
  PROVE  Execute(w, Open(R, F, S, G), Add(n)) =
           Open(R, Junk, SubSeq(S, n + 1, Len(S)), G)
BY Zenon DEF Execute, Open, Cpu, Add, Ins

\* A register is copied.
LEMMA MovStep ==
  ASSUME NEW w, NEW R, NEW F, NEW S, NEW G, NEW r, NEW q
  PROVE  Execute(w, Open(R, F, S, G), Mov(r, q)) =
           Open(Put(R, r, R[q]), F, S, G)
BY Zenon DEF Execute, Open, Cpu, Put, Mov, Ins

\* A register is worked in.
LEMMA ClobberStep ==
  ASSUME NEW w, NEW R, NEW F, NEW S, NEW G, NEW r
  PROVE  Execute(w, Open(R, F, S, G), Clobber(r)) =
           Open(Put(R, r, Junk), Junk, S, G)
BY Zenon DEF Execute, Open, Cpu, Put, Clobber, Ins

\* A constant is loaded.
LEMMA ConstStep ==
  ASSUME NEW w, NEW R, NEW F, NEW S, NEW G, NEW r, NEW x
  PROVE  Execute(w, Open(R, F, S, G), Const(r, x)) =
           Open(Put(R, r, Word(x)), F, S, G)
BY Zenon DEF Execute, Open, Cpu, Put, Const, Ins, Word

\* A register is masked.
LEMMA AndStep ==
  ASSUME NEW w, NEW R, NEW F, NEW S, NEW G, NEW r, NEW q
  PROVE  Execute(w, Open(R, F, S, G), And(r, q)) =
           Open(Put(R, r, Masked(R[r], R[q])), Masked(R[r], R[q]), S, G)
BY Zenon DEF Execute, Open, Cpu, Put, And, Ins, Masked

\* A field is loaded from an object that exists.
LEMMA LoadStep ==
  ASSUME NEW w, NEW R, NEW F, NEW S, NEW G, NEW r, NEW q, NEW x, R[q] # NPC("null")
  PROVE  Execute(w, Open(R, F, S, G), Load(r, q, x)) =
           Open(Put(R, r, Field(w, R[q], x)), F, S, G)
BY Zenon DEF Execute, Open, Cpu, Put, Load

\* A register that holds zero is tested.
LEMMA TestZero ==
  ASSUME NEW w, NEW R, NEW F, NEW S, NEW G, NEW r, IsZero(R[r])
  PROVE  Execute(w, Open(R, F, S, G), Test(r)) =
           Open(R, Zero, S, G)
BY Zenon DEF Execute, Open, Cpu, Test, Ins, Flag, Zero, Other, Word

\* A register that holds something is tested.
LEMMA TestOther ==
  ASSUME NEW w, NEW R, NEW F, NEW S, NEW G, NEW r, ~IsZero(R[r])
  PROVE  Execute(w, Open(R, F, S, G), Test(r)) =
           Open(R, Other, S, G)
BY Zenon DEF Execute, Open, Cpu, Test, Ins, Flag, Zero, Other, Word

\* The owner index of an NPC without an owner is compared.
LEMMA CmpSame ==
  ASSUME NEW w, NEW R, NEW F, NEW S, NEW G, NEW r, R[r] = Value("ownerIndex", "FFFF")
  PROVE  Execute(w, Open(R, F, S, G), CmpFFFF(r)) =
           Open(R, Zero, S, G)
BY Zenon DEF Execute, Open, Cpu, CmpFFFF, Ins, Flag, Zero, Other, Word

\* Another owner index is compared.
LEMMA CmpDiffers ==
  ASSUME NEW w, NEW R, NEW F, NEW S, NEW G, NEW r, ~(R[r] = Value("ownerIndex", "FFFF"))
  PROVE  Execute(w, Open(R, F, S, G), CmpFFFF(r)) =
           Open(R, Other, S, G)
BY Zenon DEF Execute, Open, Cpu, CmpFFFF, Ins, Flag, Zero, Other, Word

\* The runtime is found killed.
LEMMA KilledStep ==
  ASSUME NEW w, NEW R, NEW F, NEW S, NEW G, ~w.operational
  PROVE  Execute(w, Open(R, F, S, G), Plain("cmpOperational")) =
           Open(R, Zero, S, G)
BY Zenon DEF Execute, Open, Cpu, Plain, Ins, Flag, Zero, Other, Word

\* The runtime is found operational.
LEMMA OperationalStep ==
  ASSUME NEW w, NEW R, NEW F, NEW S, NEW G, ~~w.operational
  PROVE  Execute(w, Open(R, F, S, G), Plain("cmpOperational")) =
           Open(R, Other, S, G)
BY Zenon DEF Execute, Open, Cpu, Plain, Ins, Flag, Zero, Other, Word

\* The registry has a slot for the key.
LEMMA ProbeFinds ==
  ASSUME NEW w, NEW R, NEW F, NEW S, NEW G, NEW r, NEW q, Found(w, R[r])
  PROVE  Execute(w, Open(R, F, S, G), Probe(r, q)) =
           Open(Put(R, q, Word("slot")), Other, S, G)
BY Zenon DEF Execute, Open, Cpu, Put, Probe, Ins, Found, Word, Flag, Zero, Other

\* The registry has no slot for the key.
LEMMA ProbeMisses ==
  ASSUME NEW w, NEW R, NEW F, NEW S, NEW G, NEW r, NEW q, ~(Found(w, R[r]))
  PROVE  Execute(w, Open(R, F, S, G), Probe(r, q)) =
           Open(Put(R, q, Junk), Zero, S, G)
BY Zenon DEF Execute, Open, Cpu, Put, Probe, Ins, Found, Word, Flag, Zero, Other

\* A jump on zero is taken.
LEMMA JzTaken ==
  ASSUME NEW w, NEW R, NEW F, NEW S, NEW G, NEW l
  PROVE  Execute(w, Open(R, Zero, S, G), Jz(l)) =
           Heading(R, Zero, S, l, G)
BY Zenon DEF Execute, Open, Cpu, Jz, Jnz, Ins, Heading, Zero, Other, Word, Flag, Value

\* A jump on zero is not taken.
LEMMA JzNotTaken ==
  ASSUME NEW w, NEW R, NEW F, NEW S, NEW G, NEW l
  PROVE  Execute(w, Open(R, Other, S, G), Jz(l)) =
           Open(R, Other, S, G)
BY Zenon DEF Execute, Open, Cpu, Jz, Jnz, Ins, Heading, Zero, Other, Word, Flag, Value

\* A jump on another value is not taken.
LEMMA JnzNotTaken ==
  ASSUME NEW w, NEW R, NEW F, NEW S, NEW G, NEW l
  PROVE  Execute(w, Open(R, Zero, S, G), Jnz(l)) =
           Open(R, Zero, S, G)
BY Zenon DEF Execute, Open, Cpu, Jz, Jnz, Ins, Heading, Zero, Other, Word, Flag, Value

\* A jump on another value is taken.
LEMMA JnzTaken ==
  ASSUME NEW w, NEW R, NEW F, NEW S, NEW G, NEW l
  PROVE  Execute(w, Open(R, Other, S, G), Jnz(l)) =
           Heading(R, Other, S, l, G)
BY Zenon DEF Execute, Open, Cpu, Jz, Jnz, Ins, Heading, Zero, Other, Word, Flag, Value

\* A label is passed.
LEMMA LabelPassed ==
  ASSUME NEW w, NEW R, NEW F, NEW S, NEW G, NEW l
  PROVE  Execute(w, Open(R, F, S, G), Label(l)) =
           Open(R, F, S, G)
BY Zenon DEF Execute, Open, Cpu, Label, Ins

\* A jump reaches its label.
LEMMA LabelReached ==
  ASSUME NEW w, NEW R, NEW F, NEW S, NEW G, NEW l
  PROVE  Execute(w, Heading(R, F, S, l, G), Label(l)) =
           Open(R, F, S, G)
BY Zenon DEF Execute, Open, Cpu, Heading, Label, Ins

\* The code leaves for a function.
LEMMA JmpStep ==
  ASSUME NEW w, NEW R, NEW F, NEW S, NEW G, NEW l
  PROVE  Execute(w, Open(R, F, S, G), Jmp(l)) =
           Gone(R, F, S, l, G)
BY Zenon DEF Execute, Open, Cpu, Gone, Jmp, Ins

\* The code calls a function.
LEMMA EnterStep ==
  ASSUME NEW w, NEW R, NEW F, NEW S, NEW G, NEW l
  PROVE  Execute(w, Open(R, F, S, G), Enter(l)) =
           Gone(R, F, Onto(ReturnAddress, S), l, G)
BY Zenon DEF Execute, Open, Cpu, Gone, Enter, Ins, Onto

\* The code returns to the site.
LEMMA RetStep ==
  ASSUME NEW w, NEW R, NEW F, NEW S, NEW G, Head(S) = ReturnAddress
  PROVE  Execute(w, Open(R, F, S, G), Plain("ret")) = Gone(R, F, Tail(S), "site", G)
BY Zenon DEF Execute, Open, Gone, Cpu, Plain, Ins

\* What a jump skips does nothing.
LEMMA Skipped ==
  ASSUME NEW w, NEW R, NEW F, NEW S, NEW G, NEW l, NEW i, Named(l), i # Label(l)
  PROVE  Execute(w, Heading(R, F, S, l, G), i) = Heading(R, F, S, l, G)
BY Zenon DEF Execute, Heading, Cpu, Named

-----------------------------------------------------------------------------
(* Registers are saved and put back.                                       *)

\* Sequences are equal when they have the same elements.
LEMMA SameSeq ==
  ASSUME NEW s, NEW t, IsSeq(s), IsSeq(t), Len(s) = Len(t), \A k \in 1 .. Len(s) : s[k] = t[k]
  PROVE  s = t
<1>1. PICK A : s \in Seq(A)
  BY DEF IsSeq
<1>2. PICK B : t \in Seq(B)
  BY DEF IsSeq
<1>3. s \in Seq(A \cup B) /\ t \in Seq(A \cup B)
  BY <1>1, <1>2, SeqMonotonic
<1> QED BY <1>3, SeqEqual

\* A function from 1 .. n is a sequence of n elements.
LEMMA FunctionIsSeq ==
  ASSUME NEW n \in Nat, NEW f, DOMAIN f = 1 .. n, f = [k \in 1 .. n |-> f[k]]
  PROVE  IsSeq(f) /\ Len(f) = n
<1>1. f \in [1 .. n -> {f[k] : k \in 1 .. n}]
  OBVIOUS
<1>2. f \in Seq({f[k] : k \in 1 .. n})
  BY <1>1
<1>3. Len(f) = n
  BY <1>1, <1>2
<1> QED BY <1>2, <1>3 DEF IsSeq

\* A word that is pushed is the head of the stack; the rest is as it was.
LEMMA PushedOne ==
  ASSUME NEW S, IsSeq(S), NEW v
  PROVE  /\ IsSeq(Onto(v, S)) /\ Len(Onto(v, S)) = Len(S) + 1 /\ Len(S) \in Nat
         /\ Head(Onto(v, S)) = v /\ Tail(Onto(v, S)) = S
         /\ \A k \in 1 .. Len(S) + 1 : (Onto(v, S))[k] = IF k = 1 THEN v ELSE S[k - 1]
<1>1. PICK A : S \in Seq(A)
  BY DEF IsSeq
<1>2. S \in Seq(A \cup {v}) /\ <<v>> \in Seq(A \cup {v})
  BY <1>1, SeqMonotonic
<1>3. (<<v>> \o S) \in Seq(A \cup {v}) /\ Len(<<v>>) = 1 /\ Len(S) \in Nat
  BY <1>2
<1>4. Len((<<v>> \o S)) = Len(S) + 1
  BY <1>2, <1>3
<1>5. \A k \in 1 .. Len(S) + 1 : ((<<v>> \o S))[k] = IF k = 1 THEN v ELSE S[k - 1]
  BY <1>2, <1>3
<1>6. Head((<<v>> \o S)) = v
  BY <1>3, <1>4, <1>5
<1>7. Tail((<<v>> \o S)) = S
  <2> DEFINE T == Tail((<<v>> \o S))
  <2>1. T \in Seq(A \cup {v}) /\ Len(T) = Len(S) /\ \A k \in 1 .. Len(S) : T[k] = ((<<v>> \o S))[k + 1]
    BY <1>3, <1>4, HeadTailProperties
  <2>2. \A k \in 1 .. Len(S) : T[k] = S[k]
    BY <2>1, <1>3, <1>5
  <2> HIDE DEF T
  <2>3. T = S
    BY <1>2, <2>1, <2>2, SeqEqual
  <2> QED BY <2>3 DEF T
<1>8. IsSeq(<<v>> \o S)
  BY <1>3 DEF IsSeq
<1> QED BY <1>3, <1>4, <1>5, <1>6, <1>7, <1>8, Zenon DEF Onto

\* What is on a stack once the first n of the words have been pushed on S.
Pile(words, n, S) == [k \in 1 .. n |-> words[n + 1 - k]] \o S

\* How high the pile is.
LEMMA PileLength ==
  ASSUME NEW words, NEW S, IsSeq(S), NEW n \in Nat
  PROVE  IsSeq(Pile(words, n, S)) /\ Len(S) \in Nat /\ Len(Pile(words, n, S)) = n + Len(S)
<1> DEFINE K == [k \in 1 .. n |-> words[n + 1 - k]]
<1>1. IsSeq(K) /\ Len(K) = n
  BY FunctionIsSeq
<1> HIDE DEF K
<1>2. IsSeq(K \o S) /\ Len(S) \in Nat /\ Len(K \o S) = n + Len(S)
  BY <1>1, Joined
<1> QED BY <1>2 DEF K, Pile

\* Its top is the last of the words.
LEMMA PileTop ==
  ASSUME NEW words, NEW S, IsSeq(S), NEW n \in Nat, NEW k \in 1 .. n
  PROVE  Pile(words, n, S)[k] = words[n + 1 - k]
<1> DEFINE K == [j \in 1 .. n |-> words[n + 1 - j]]
<1>1. IsSeq(K) /\ Len(K) = n /\ K[k] = words[n + 1 - k]
  BY FunctionIsSeq
<1> HIDE DEF K
<1>2. (K \o S)[k] = K[k]
  BY <1>1, Joined
<1> QED BY <1>1, <1>2 DEF K, Pile

\* Below the words is the stack they were pushed on.
LEMMA PileRest ==
  ASSUME NEW words, NEW S, IsSeq(S), NEW n \in Nat, NEW k \in 1 .. Len(S)
  PROVE  Pile(words, n, S)[n + k] = S[k]
<1> DEFINE K == [j \in 1 .. n |-> words[n + 1 - j]]
<1>1. IsSeq(K) /\ Len(K) = n
  BY FunctionIsSeq
<1> HIDE DEF K
<1>2. (K \o S)[Len(K) + k] = S[k]
  BY <1>1, Joined
<1> QED BY <1>1, <1>2 DEF K, Pile

\* A pile of no words.
LEMMA PileNone ==
  ASSUME NEW words, NEW S, IsSeq(S)
  PROVE  Pile(words, 0, S) = S
<1> DEFINE T == Pile(words, 0, S)
<1>1. IsSeq(T) /\ Len(S) \in Nat /\ Len(T) = 0 + Len(S)
  BY PileLength
<1>2. \A k \in 1 .. Len(S) : T[0 + k] = S[k]
  <2>1. 0 \in Nat
    OBVIOUS
  <2> QED BY <2>1, PileRest
<1> HIDE DEF T
<1>3. Len(T) = Len(S) /\ \A k \in 1 .. Len(T) : T[k] = S[k]
  BY <1>1, <1>2
<1>4. T = S
  BY <1>1, <1>3, SameSeq
<1> QED BY <1>4 DEF T

\* A pile of one word more.
LEMMA PileMore ==
  ASSUME NEW words, NEW S, IsSeq(S), NEW n \in Nat
  PROVE  Pile(words, n + 1, S) = Onto(words[n + 1], Pile(words, n, S))
<1> DEFINE T == Pile(words, n, S)
           U == Pile(words, n + 1, S)
           V == Onto(words[n + 1], T)
<1>1. IsSeq(T) /\ Len(S) \in Nat /\ Len(T) = n + Len(S)
  BY PileLength
<1>2. /\ \A k \in 1 .. n : T[k] = words[n + 1 - k]
      /\ \A k \in 1 .. Len(S) : T[n + k] = S[k]
  <2>1. \A k \in 1 .. n : T[k] = words[n + 1 - k]
    BY PileTop
  <2>2. \A k \in 1 .. Len(S) : T[n + k] = S[k]
    BY PileRest
  <2> QED BY <2>1, <2>2
<1>3. n + 1 \in Nat
  OBVIOUS
<1>4. IsSeq(U) /\ Len(U) = n + 1 + Len(S)
  BY <1>3, PileLength
<1>5. /\ \A k \in 1 .. n + 1 : U[k] = words[n + 1 + 1 - k]
      /\ \A k \in 1 .. Len(S) : U[n + 1 + k] = S[k]
  <2>1. \A k \in 1 .. n + 1 : U[k] = words[n + 1 + 1 - k]
    BY <1>3, PileTop
  <2>2. \A k \in 1 .. Len(S) : U[n + 1 + k] = S[k]
    BY <1>3, PileRest
  <2> QED BY <2>1, <2>2
<1> HIDE DEF T, U
<1>6. /\ IsSeq(V) /\ Len(V) = Len(T) + 1
      /\ \A k \in 1 .. Len(T) + 1 : V[k] = IF k = 1 THEN words[n + 1] ELSE T[k - 1]
  BY <1>1, PushedOne
<1> HIDE DEF V
<1>7. ASSUME NEW k \in 1 .. n + 1 + Len(S) PROVE U[k] = V[k]
  <2>1. CASE k = 1
    <3>1. 1 \in 1 .. n + 1 /\ n + 1 + 1 - 1 = n + 1 /\ 1 \in 1 .. Len(T) + 1
      BY <1>1
    <3> QED BY <3>1, <2>1, <1>5, <1>6
  <2>2. CASE k \in 2 .. n + 1
    <3>1. /\ k - 1 \in 1 .. n /\ n + 1 - (k - 1) = n + 1 + 1 - k
          /\ k \in 1 .. Len(T) + 1 /\ k \in 1 .. n + 1 /\ k # 1
      BY <2>2, <1>1
    <3>2. T[k - 1] = words[n + 1 + 1 - k]
      BY <3>1, <1>2
    <3>3. V[k] = T[k - 1]
      BY <3>1, <1>6
    <3> QED BY <3>1, <3>2, <3>3, <1>5
  <2>3. CASE k \in n + 2 .. n + 1 + Len(S)
    <3> DEFINE j == k - (n + 1)
    <3>1. j \in 1 .. Len(S) /\ k = n + 1 + j /\ k - 1 = n + j /\ k \in 1 .. Len(T) + 1 /\ k # 1
      BY <2>3, <1>1
    <3> HIDE DEF j
    <3>2. V[k] = T[k - 1]
      BY <3>1, <1>6
    <3> QED BY <3>1, <3>2, <1>2, <1>5
  <2> QED BY <2>1, <2>2, <2>3, <1>1
<1>8. Len(V) = Len(U)
  BY <1>1, <1>4, <1>6
<1>9. U = V
  BY <1>1, <1>4, <1>6, <1>7, <1>8, SameSeq
<1> QED BY <1>9 DEF U, V, T

\* The words that the registers hold.
Words(R, saved) == [k \in 1 .. Len(saved) |-> R[saved[k]]]
Saved(R, saved, S) == Pile(Words(R, saved), Len(saved), S)

\* PushAll leaves the registers alone and saves the ones it is given.
LEMMA PushAllSaves ==
  ASSUME NEW w, NEW R, NEW F, NEW S, NEW G, NEW saved, IsSeq(saved), IsSeq(S)
  PROVE  /\ IsSeq(PushAll(saved))
         /\ Run(w, Open(R, F, S, G), PushAll(saved)) = Open(R, F, Saved(R, saved, S), G)
<1> DEFINE n == Len(saved)
           words == Words(R, saved)
           At(k) == Open(R, F, Pile(words, k, S), G)
<1>1. n \in Nat /\ DOMAIN saved = 1 .. n /\ \A k \in 1 .. n : words[k] = R[saved[k]]
  BY DEF IsSeq, Words
<1> HIDE DEF n, words
<1>2. IsSeq(PushAll(saved)) /\ Len(PushAll(saved)) = n /\ \A k \in 1 .. n : PushAll(saved)[k] = Push(saved[k])
  BY <1>1, FunctionIsSeq DEF PushAll
<1>3. PICK after : Leads(w, Open(R, F, S, G), PushAll(saved), n, after)
  BY <1>1, <1>2, RunIs
<1>4. after[0] = At(0)
  BY <1>3, PileNone DEF Leads
<1>5. ASSUME NEW k \in Nat, k + 1 <= n, after[k] = At(k) PROVE after[k + 1] = At(k + 1)
  <2>1. k + 1 \in 1 .. n /\ (k + 1) - 1 = k
    BY <1>1, <1>5
  <2>2. after[k + 1] = Execute(w, after[k], Push(saved[k + 1]))
    BY <2>1, <1>2, <1>3 DEF Leads
  <2>3. after[k + 1] = Open(R, F, Onto(R[saved[k + 1]], Pile(words, k, S)), G)
    BY <1>5, <2>2, PushStep
  <2>4. Pile(words, k + 1, S) = Onto(R[saved[k + 1]], Pile(words, k, S))
    BY <1>1, <2>1, PileMore
  <2> QED BY <2>3, <2>4
<1> HIDE DEF At
<1>6. after[n] = At(n)
  <2> DEFINE P == {k \in Nat : k <= n => after[k] = At(k)}
  <2>1. 0 \in P
    BY <1>4
  <2>2. \A k \in Nat : k \in P => k + 1 \in P
    BY <1>1, <1>5
  <2>3. Nat \subseteq P
    <3> HIDE DEF P
    <3> QED BY <2>1, <2>2, SetInduction
  <2> QED BY <1>1, <2>3
<1> QED BY <1>2, <1>3, <1>6 DEF Leads, At, n, words, Saved

\* The registers with those that were saved put back.
PutBack(R, saved, Q) == [r \in Registers |-> IF \E k \in 1 .. Len(saved) : saved[k] = r THEN R[r] ELSE Q[r]]

\* PopAll of the reverse puts them back, whatever has happened to them, and leaves
\* the stack as it was.
LEMMA PopAllRestores ==
  ASSUME NEW w, NEW R, NEW F, NEW S, NEW G, NEW Q, NEW saved, IsSeq(saved), IsSeq(S),
         Q = [r \in Registers |-> Q[r]]
  PROVE  /\ IsSeq(PopAll(Reverse(saved)))
         /\ Run(w, Open(Q, F, Saved(R, saved, S), G), PopAll(Reverse(saved))) =
              Open(PutBack(R, saved, Q), F, S, G)
<1> DEFINE n == Len(saved)
           words == Words(R, saved)
           C == PopAll(Reverse(saved))
           Back(k) == [r \in Registers |-> IF \E j \in 1 .. n : n < j + k /\ saved[j] = r THEN R[r] ELSE Q[r]]
           At(k) == Open(Back(k), F, Pile(words, n - k, S), G)
           c0 == Open(Q, F, Saved(R, saved, S), G)
<1>1. n \in Nat /\ DOMAIN saved = 1 .. n /\ \A k \in 1 .. n : words[k] = R[saved[k]]
  BY DEF IsSeq, Words
<1>2. Reverse(saved) = [k \in 1 .. n |-> saved[n - k + 1]]
  BY DEF Reverse
<1>3. c0 = Open(Q, F, Pile(words, n, S), G)
  BY DEF Saved
<1> HIDE DEF n, words, c0
<1>4. IsSeq(C) /\ Len(C) = n /\ \A k \in 1 .. n : C[k] = Pop(saved[n - k + 1])
  <2>1. C = [k \in 1 .. n |-> Pop(saved[n - k + 1])]
    BY <1>1, <1>2 DEF PopAll
  <2> QED BY <1>1, <2>1, FunctionIsSeq
<1> HIDE DEF C
<1>5. PICK after : Leads(w, c0, C, n, after)
  BY <1>1, <1>4, RunIs
<1>6. after[0] = At(0)
  <2>1. Back(0) = Q /\ n - 0 = n
    BY <1>1
  <2> HIDE DEF Back
  <2> QED BY <1>3, <1>5, <2>1 DEF Leads
<1>7. ASSUME NEW k \in Nat, k + 1 <= n, after[k] = At(k) PROVE after[k + 1] = At(k + 1)
  <2> DEFINE m == n - (k + 1)
             T == Pile(words, m, S)
  <2>1. /\ k + 1 \in 1 .. n /\ (k + 1) - 1 = k /\ m \in Nat /\ n - k = m + 1 /\ n - (k + 1) + 1 = m + 1
        /\ m + 1 \in 1 .. n
    BY <1>1, <1>7
  <2> HIDE DEF m
  <2> DEFINE r0 == saved[m + 1]
  <2>2. after[k + 1] = Execute(w, after[k], Pop(r0))
    BY <2>1, <1>4, <1>5 DEF Leads
  <2>3. IsSeq(T) /\ Pile(words, n - k, S) = Onto(R[r0], T)
    BY <1>1, <2>1, PileLength, PileMore
  <2> HIDE DEF T, r0
  <2>4. after[k] = Open(Back(k), F, Onto(R[r0], T), G)
    BY <1>7, <2>3
  <2>5. after[k + 1] = Open(Put(Back(k), r0, R[r0]), F, T, G)
    <3>1. Head(Onto(R[r0], T)) = R[r0] /\ Tail(Onto(R[r0], T)) = T
      BY <2>3, PushedOne
    <3>2. PICK B, St : B = Back(k) /\ St = Onto(R[r0], T)
      OBVIOUS
    <3>3. Execute(w, Open(B, F, St, G), Pop(r0)) = Open(Put(B, r0, Head(St)), F, Tail(St), G)
      BY PopStep
    <3> HIDE DEF Back
    <3> QED BY <3>1, <3>2, <3>3, <2>4, <2>2, Zenon
  <2>6. Put(Back(k), r0, R[r0]) = Back(k + 1)
    <3>1. \A r : (\E j \in 1 .. n : n < j + (k + 1) /\ saved[j] = r)
                   <=> ((\E j \in 1 .. n : n < j + k /\ saved[j] = r) \/ r = r0)
      BY <2>1, <1>1 DEF r0
    <3> QED BY <3>1 DEF Put
  <2>7. T = Pile(words, n - (k + 1), S)
    BY DEF T, m
  <2> QED BY <2>5, <2>6, <2>7
<1> HIDE DEF At
<1>8. after[n] = At(n)
  <2> DEFINE P == {k \in Nat : k <= n => after[k] = At(k)}
  <2>1. 0 \in P
    BY <1>6
  <2>2. \A k \in Nat : k \in P => k + 1 \in P
    BY <1>1, <1>7
  <2>3. Nat \subseteq P
    <3> HIDE DEF P
    <3> QED BY <2>1, <2>2, SetInduction
  <2> QED BY <1>1, <2>3
<1>9. At(n) = Open(PutBack(R, saved, Q), F, S, G)
  <2>1. \A r : (\E j \in 1 .. n : n < j + n /\ saved[j] = r) <=> \E k \in 1 .. n : saved[k] = r
    BY <1>1
  <2>2. Back(n) = PutBack(R, saved, Q)
    BY <2>1 DEF PutBack, n
  <2>3. n - n = 0
    BY <1>1
  <2> HIDE DEF Back
  <2> QED BY <2>2, <2>3, PileNone DEF At
<1> QED BY <1>4, <1>5, <1>8, <1>9 DEF Leads, c0, C

-----------------------------------------------------------------------------
(* Calls.                                                                  *)

\* What the engine's functions were given, after a call.
Given(R, G, target) == IF target = "virtual" THEN Noted(R) ELSE G

\* A stack on which a function may be called.
IsEven(S) == Len(S) % 2 = 0

\* A function is called on an aligned stack.
LEMMA CallStep ==
  ASSUME NEW w, NEW R, NEW F, NEW S, NEW G, NEW t, IsEven(S)
  PROVE  Execute(w, Open(R, F, S, G), Call(t)) =
           Open(AfterCall(R, Answer(w, R["rcx"], t)), Junk, Shadow(S), Given(R, G, t))
<1>1. Aligned(TRUE, S) = TRUE
  BY Zenon DEF Aligned, IsEven
<1>2. Execute(w, Open(R, F, S, G), Call(t)) =
        [regs |-> AfterCall(R, Answer(w, R["rcx"], t)), flags |-> Junk, stack |-> Shadow(S),
         aligned |-> Aligned(TRUE, S), skip |-> "", left |-> "", given |-> Given(R, G, t)]
  BY Zenon DEF Execute, Call, Ins, Open, Cpu, Called, Given
<1> QED BY <1>1, <1>2, Zenon DEF Open, Cpu

\* Words that are reserved on a stack, and are enough for the shadow space, are what
\* a called function overwrites.
LEMMA SpaceLaws ==
  ASSUME NEW S, IsSeq(S), NEW n \in Nat
  PROVE  /\ IsSeq(Space(n, S)) /\ Len(S) \in Nat /\ Len(Space(n, S)) = n + Len(S)
         /\ SubSeq(Space(n, S), n + 1, Len(Space(n, S))) = S
         /\ n >= ShadowWords => Shadow(Space(n, S)) = Space(n, S)
<1> DEFINE K == [k \in 1 .. n |-> Junk]
           T == Space(n, S)
<1>1. IsSeq(K) /\ Len(K) = n /\ \A k \in 1 .. n : K[k] = Junk
  <2>1. DOMAIN K = 1 .. n /\ K = [k \in 1 .. n |-> K[k]]
    OBVIOUS
  <2> QED BY <2>1, FunctionIsSeq
<1> HIDE DEF K
<1>2. /\ IsSeq(T) /\ Len(S) \in Nat /\ Len(T) = n + Len(S)
      /\ \A k \in 1 .. n : T[k] = K[k]
      /\ \A k \in 1 .. Len(S) : T[n + k] = S[k]
  BY <1>1, Joined DEF Space, K
<1> HIDE DEF T
<1>3. SubSeq(T, n + 1, Len(T)) = S
  <2> DEFINE U == SubSeq(T, n + 1, Len(T))
  <2>1. U = [k \in 1 .. Len(S) |-> T[n + k]]
    BY <1>2
  <2>2. IsSeq(U) /\ Len(U) = Len(S)
    <3>1. DOMAIN U = 1 .. Len(S) /\ U = [k \in 1 .. Len(S) |-> U[k]]
      BY <2>1
    <3> QED BY <3>1, <1>2, FunctionIsSeq
  <2>3. \A k \in 1 .. Len(U) : U[k] = S[k]
    BY <2>1, <2>2, <1>2
  <2> HIDE DEF U
  <2>4. U = S
    BY <2>2, <2>3, SameSeq
  <2> QED BY <2>4 DEF U
<1>4. n >= ShadowWords => Shadow(T) = T
  <2>1. SUFFICES ASSUME n >= ShadowWords PROVE Shadow(T) = T
    OBVIOUS
  <2>2. DOMAIN T = 1 .. Len(T) /\ T = [k \in DOMAIN T |-> T[k]]
    BY <1>2 DEF IsSeq
  <2>3. \A k \in DOMAIN T : k <= ShadowWords => T[k] = Junk
    BY <1>1, <1>2, <2>1, <2>2 DEF ShadowWords
  <2> QED BY <2>2, <2>3 DEF Shadow
<1> QED BY <1>2, <1>3, <1>4 DEF T

\* A call made with the shadow space on top of a stack that it aligns.
LEMMA CallInShadow ==
  ASSUME NEW w, NEW R, NEW F, NEW S, NEW G, NEW t, IsSeq(S), NEW n \in Nat, n >= ShadowWords,
         (n + Len(S)) % 2 = 0
  PROVE  Execute(w, Open(R, F, Space(n, S), G), Call(t)) =
           Open(AfterCall(R, Answer(w, R["rcx"], t)), Junk, Space(n, S), Given(R, G, t))
<1>1. Len(Space(n, S)) = n + Len(S) /\ Shadow(Space(n, S)) = Space(n, S)
  BY SpaceLaws
<1>2. IsEven(Space(n, S))
  BY <1>1 DEF IsEven
<1> QED BY <1>1, <1>2, CallStep

\* The words reserved on a stack are released.
LEMMA ReleaseStep ==
  ASSUME NEW w, NEW R, NEW F, NEW S, NEW G, IsSeq(S), NEW n \in Nat
  PROVE  Execute(w, Open(R, F, Space(n, S), G), Add(n)) = Open(R, Junk, S, G)
<1>1. PICK T : T = Space(n, S)
  OBVIOUS
<1>2. SubSeq(T, n + 1, Len(T)) = S
  BY <1>1, SpaceLaws
<1>3. Execute(w, Open(R, F, T, G), Add(n)) = Open(R, Junk, SubSeq(T, n + 1, Len(T)), G)
  BY Zenon DEF Execute, Open, Cpu, Add, Ins
<1> QED BY <1>1, <1>2, <1>3

-----------------------------------------------------------------------------
(* The thunks that leave for a function of the engine.                     *)

\* A state of the registers.
IsRegs(R) == R = [r \in Registers |-> R[r]]

\* TextureFormIDLookupThunk jumps to the lookup with the FormID that the runtime
\* resolves, and with the registers that a call preserves.
LEMMA FormIDLookupRun ==
  ASSUME NEW w, NEW R, NEW F, NEW S, NEW G, IsRegs(R),
         IsSeq(S), Len(S) % 2 = 1
  PROVE  \E Q : /\ Run(w, Open(R, F, S, G), TextureFormIDLookupThunk) = Gone(Q, Junk, S, "lookup", G)
                /\ Q["rcx"] = R["rcx"] /\ Q["rdx"] = Answer(w, R["rsi"], "runtimeFormID")
                /\ \A r \in Registers \ Volatile : Q[r] = R[r]
<1> DEFINE C == TextureFormIDLookupThunk
           T == Onto(R["rcx"], S)
<1>1. /\ Len(C) = 10
      /\ C[1] = Push("rcx") /\ C[2] = Sub(4) /\ C[3] = Mov("rcx", "rsi") /\ C[4] = Clobber("rax")
      /\ C[5] = Call("runtimeFormID") /\ C[6] = Mov("rdx", "rax") /\ C[7] = Add(4) /\ C[8] = Pop("rcx")
      /\ C[9] = Clobber("rax") /\ C[10] = Jmp("lookup")
  BY DEF TextureFormIDLookupThunk
<1> HIDE DEF C
<1>2. PICK a : Leads(w, Open(R, F, S, G), C, 10, a)
  BY <1>1, RunIs
<1>3. /\ a[0] = Open(R, F, S, G) /\ Run(w, Open(R, F, S, G), C) = a[10]
      /\ a[1] = Execute(w, a[0], Push("rcx")) /\ a[2] = Execute(w, a[1], Sub(4))
      /\ a[3] = Execute(w, a[2], Mov("rcx", "rsi")) /\ a[4] = Execute(w, a[3], Clobber("rax"))
      /\ a[5] = Execute(w, a[4], Call("runtimeFormID")) /\ a[6] = Execute(w, a[5], Mov("rdx", "rax"))
      /\ a[7] = Execute(w, a[6], Add(4)) /\ a[8] = Execute(w, a[7], Pop("rcx"))
      /\ a[9] = Execute(w, a[8], Clobber("rax")) /\ a[10] = Execute(w, a[9], Jmp("lookup"))
  BY <1>1, <1>2 DEF Leads
<1> DEFINE R4 == Put(Put(R, "rcx", R["rsi"]), "rax", Junk)
           R5 == AfterCall(R4, Answer(w, R4["rcx"], "runtimeFormID"))
           R6 == Put(R5, "rdx", R5["rax"])
           R9 == Put(Put(R6, "rcx", R["rcx"]), "rax", Junk)
<1>4. /\ IsSeq(T) /\ Len(T) % 2 = 0 /\ Len(T) \in Nat /\ Head(T) = R["rcx"] /\ Tail(T) = S
  <2>1. /\ IsSeq(T) /\ Len(T) = Len(S) + 1 /\ Len(S) \in Nat /\ Head(T) = R["rcx"] /\ Tail(T) = S
    BY PushedOne
  <2> QED BY <2>1
<1>5. a[4] = Open(R4, Junk, Space(4, T), G)
  BY <1>3, PushStep, SubStep, MovStep, ClobberStep
<1> HIDE DEF T, R4
<1>7. a[5] = Open(R5, Junk, Space(4, T), G)
  <2>1. (4 + Len(T)) % 2 = 0 /\ 4 \in Nat /\ 4 >= ShadowWords
    BY <1>4 DEF ShadowWords
  <2>2. Execute(w, Open(R4, Junk, Space(4, T), G), Call("runtimeFormID")) =
          Open(R5, Junk, Space(4, T), Given(R4, G, "runtimeFormID"))
    BY <1>4, <2>1, CallInShadow
  <2>3. Given(R4, G, "runtimeFormID") = G
    BY DEF Given
  <2> QED BY <1>3, <1>5, <2>2, <2>3, Zenon
<1> HIDE DEF R5, R6, R9
<1>8. a[6] = Open(R6, Junk, Space(4, T), G)
  BY <1>3, <1>7, MovStep DEF R6
<1>9. a[7] = Open(R6, Junk, T, G)
  BY <1>3, <1>4, <1>8, ReleaseStep
<1>10. a[8] = Open(Put(R6, "rcx", R["rcx"]), Junk, S, G)
  <2>1. Execute(w, Open(R6, Junk, T, G), Pop("rcx")) = Open(Put(R6, "rcx", Head(T)), Junk, Tail(T), G)
    BY PopStep
  <2> QED BY <1>3, <1>4, <1>9, <2>1, Zenon
<1>11. a[10] = Gone(R9, Junk, S, "lookup", G)
  BY <1>3, <1>10, ClobberStep, JmpStep DEF R9
<1>12. /\ R9["rcx"] = R["rcx"] /\ R9["rdx"] = Answer(w, R["rsi"], "runtimeFormID")
       /\ \A r \in Registers \ Volatile : R9[r] = R[r]
  BY DEF IsRegs, R9, R6, R5, R4, Put, AfterCall, Registers, Volatile
<1> QED BY <1>3, <1>11, <1>12 DEF C

\* TextureOwnerFileThunk jumps to the getter of the owner file with the identity.
LEMMA OwnerFileRun ==
  ASSUME NEW w, NEW R, NEW F, NEW S, NEW G, IsRegs(R), IsSeq(S), Len(S) % 2 = 1
  PROVE  \E Q : /\ Run(w, Open(R, F, S, G), TextureOwnerFileThunk) = Gone(Q, Junk, S, "getFile", G)
                /\ Q["rcx"] = Answer(w, R["rsi"], "faceTextureIdentity")
                /\ \A r \in Registers \ Volatile : Q[r] = R[r]
<1> DEFINE C == TextureOwnerFileThunk
<1>1. /\ Len(C) = 8
      /\ C[1] = Sub(5) /\ C[2] = Mov("rcx", "rsi") /\ C[3] = Clobber("rax")
      /\ C[4] = Call("faceTextureIdentity") /\ C[5] = Add(5) /\ C[6] = Mov("rcx", "rax")
      /\ C[7] = Clobber("rax") /\ C[8] = Jmp("getFile")
  BY DEF TextureOwnerFileThunk
<1> HIDE DEF C
<1>2. PICK a : Leads(w, Open(R, F, S, G), C, 8, a)
  BY <1>1, RunIs
<1>3. /\ a[0] = Open(R, F, S, G) /\ Run(w, Open(R, F, S, G), C) = a[8]
      /\ a[1] = Execute(w, a[0], Sub(5)) /\ a[2] = Execute(w, a[1], Mov("rcx", "rsi"))
      /\ a[3] = Execute(w, a[2], Clobber("rax")) /\ a[4] = Execute(w, a[3], Call("faceTextureIdentity"))
      /\ a[5] = Execute(w, a[4], Add(5)) /\ a[6] = Execute(w, a[5], Mov("rcx", "rax"))
      /\ a[7] = Execute(w, a[6], Clobber("rax")) /\ a[8] = Execute(w, a[7], Jmp("getFile"))
  BY <1>1, <1>2 DEF Leads
<1> DEFINE R3 == Put(Put(R, "rcx", R["rsi"]), "rax", Junk)
           R4 == AfterCall(R3, Answer(w, R3["rcx"], "faceTextureIdentity"))
           R7 == Put(Put(R4, "rcx", R4["rax"]), "rax", Junk)
<1>4. Len(S) \in Nat
  BY DEF IsSeq
<1>5. a[3] = Open(R3, Junk, Space(5, S), G)
  BY <1>3, SubStep, MovStep, ClobberStep
<1> HIDE DEF R3
<1>6. a[4] = Open(R4, Junk, Space(5, S), G)
  <2>1. (5 + Len(S)) % 2 = 0 /\ 5 \in Nat /\ 5 >= ShadowWords
    BY <1>4 DEF ShadowWords
  <2>2. Execute(w, Open(R3, Junk, Space(5, S), G), Call("faceTextureIdentity")) =
          Open(R4, Junk, Space(5, S), Given(R3, G, "faceTextureIdentity"))
    BY <1>4, <2>1, CallInShadow
  <2>3. Given(R3, G, "faceTextureIdentity") = G
    BY DEF Given
  <2> QED BY <1>3, <1>5, <2>2, <2>3, Zenon
<1> HIDE DEF R4, R7
<1>7. a[5] = Open(R4, Junk, S, G)
  BY <1>3, <1>6, ReleaseStep
<1>8. a[8] = Gone(R7, Junk, S, "getFile", G)
  BY <1>3, <1>7, MovStep, ClobberStep, JmpStep DEF R7
<1>9. /\ R7["rcx"] = Answer(w, R["rsi"], "faceTextureIdentity")
      /\ \A r \in Registers \ Volatile : R7[r] = R[r]
  BY DEF IsRegs, R7, R4, R3, Put, AfterCall, Registers, Volatile
<1> QED BY <1>3, <1>8, <1>9 DEF C

\* The identity that a thunk asks for.
Identity(w, R) == Answer(w, R["rsi"], "faceTextureIdentity")
\* What asking for it leaves of the registers.
Asked(w, R) == AfterCall(Put(Put(R, "rcx", R["rsi"]), "rax", Junk), Identity(w, R))

\* A thunk asks for the identity and loads a field of it.
AskFor(n, r, field) ==
  << Sub(n), Mov("rcx", "rsi"), Clobber("rax"), Call("faceTextureIdentity"),
     Load(r, "rax", field), Add(n) >>

\* Asking needs a stack that the reserved words align.
LEMMA AskRun ==
  ASSUME NEW w, NEW R, NEW F, NEW S, NEW G, NEW n \in {4, 5}, NEW reg, NEW field,
         IsRegs(R), IsSeq(S), (n + Len(S)) % 2 = 0, Identity(w, R) # NPC("null")
  PROVE  /\ IsSeq(AskFor(n, reg, field))
         /\ Run(w, Open(R, F, S, G), AskFor(n, reg, field)) =
              Open(Put(Asked(w, R), reg, Field(w, Identity(w, R), field)), Junk, S, G)
<1> DEFINE C == AskFor(n, reg, field)
<1>1. /\ Len(C) = 6
      /\ C[1] = Sub(n) /\ C[2] = Mov("rcx", "rsi") /\ C[3] = Clobber("rax")
      /\ C[4] = Call("faceTextureIdentity") /\ C[5] = Load(reg, "rax", field) /\ C[6] = Add(n)
  BY DEF AskFor
<1>0. IsSeq(C)
  <2>1. C \in Seq({Sub(n), Mov("rcx", "rsi"), Clobber("rax"), Call("faceTextureIdentity"),
                   Load(reg, "rax", field), Add(n)})
    BY DEF AskFor
  <2> QED BY <2>1 DEF IsSeq
<1> HIDE DEF C
<1>2. PICK a : Leads(w, Open(R, F, S, G), C, 6, a)
  BY <1>1, RunIs
<1>3. /\ a[0] = Open(R, F, S, G) /\ Run(w, Open(R, F, S, G), C) = a[6]
      /\ a[1] = Execute(w, a[0], Sub(n)) /\ a[2] = Execute(w, a[1], Mov("rcx", "rsi"))
      /\ a[3] = Execute(w, a[2], Clobber("rax")) /\ a[4] = Execute(w, a[3], Call("faceTextureIdentity"))
      /\ a[5] = Execute(w, a[4], Load(reg, "rax", field)) /\ a[6] = Execute(w, a[5], Add(n))
  BY <1>1, <1>2 DEF Leads
<1> DEFINE R3 == Put(Put(R, "rcx", R["rsi"]), "rax", Junk)
           R4 == Asked(w, R)
           R5 == Put(R4, reg, Field(w, Identity(w, R), field))
<1>4. R3["rcx"] = R["rsi"] /\ R4["rax"] = Identity(w, R)
  BY DEF IsRegs, Put, Asked, AfterCall, Registers
<1>5. R4 = AfterCall(R3, Answer(w, R3["rcx"], "faceTextureIdentity"))
  BY <1>4, Zenon DEF Asked, Identity
<1>6. a[3] = Open(R3, Junk, Space(n, S), G)
  BY <1>3, SubStep, MovStep, ClobberStep
<1> HIDE DEF R3, R4, R5
<1>7. a[4] = Open(R4, Junk, Space(n, S), G)
  <2>1. n \in Nat /\ n >= ShadowWords
    BY DEF ShadowWords
  <2>2. Execute(w, Open(R3, Junk, Space(n, S), G), Call("faceTextureIdentity")) =
          Open(R4, Junk, Space(n, S), Given(R3, G, "faceTextureIdentity"))
    BY <1>5, <2>1, CallInShadow
  <2>3. Given(R3, G, "faceTextureIdentity") = G
    BY DEF Given
  <2> QED BY <1>3, <1>6, <2>2, <2>3, Zenon
<1>8. a[5] = Open(R5, Junk, Space(n, S), G)
  BY <1>3, <1>4, <1>7, LoadStep DEF R5
<1>9. a[6] = Open(R5, Junk, S, G)
  BY <1>3, <1>8, ReleaseStep
<1> QED BY <1>0, <1>3, <1>9 DEF C, R5, R4

-----------------------------------------------------------------------------
(* The thunks that mask a FormID or load an owner index.                   *)

\* How high the stack is with the registers saved.
LEMMA SavedLength ==
  ASSUME NEW R, NEW saved, NEW S, IsSeq(saved), IsSeq(S)
  PROVE  /\ IsSeq(Saved(R, saved, S)) /\ Len(Saved(R, saved, S)) = Len(saved) + Len(S)
         /\ Len(saved) \in Nat /\ Len(S) \in Nat
<1>1. Len(saved) \in Nat /\ Len(S) \in Nat
  BY DEF IsSeq
<1> QED BY <1>1, PileLength DEF Saved

\* A thunk saves registers, runs code that leaves the stack alone, and puts them back.
LEMMA SavesAround ==
  ASSUME NEW w, NEW R, NEW F, NEW S, NEW G, NEW saved, NEW code, NEW Q, NEW H,
         IsSeq(saved), IsSeq(S), IsSeq(code), IsRegs(Q),
         Run(w, Open(R, F, Saved(R, saved, S), G), code) = Open(Q, H, Saved(R, saved, S), G)
  PROVE  /\ IsSeq(PushAll(saved) \o code \o PopAll(Reverse(saved)))
         /\ Run(w, Open(R, F, S, G), PushAll(saved) \o code \o PopAll(Reverse(saved)))
              = Open(PutBack(R, saved, Q), H, S, G)
<1> DEFINE A == PushAll(saved)
           B == PopAll(Reverse(saved))
           T == Saved(R, saved, S)
<1>1. IsSeq(A) /\ Run(w, Open(R, F, S, G), A) = Open(R, F, T, G)
  BY PushAllSaves
<1>2. IsSeq(B) /\ Run(w, Open(Q, H, T, G), B) = Open(PutBack(R, saved, Q), H, S, G)
  BY PopAllRestores DEF IsRegs
<1>3. Run(w, Open(R, F, T, G), code) = Open(Q, H, T, G)
  OBVIOUS
<1> HIDE DEF A, B, T
<1>4. IsSeq(A \o code) /\ IsSeq((A \o code) \o B)
  BY <1>1, <1>2, Joined
<1>5. Run(w, Open(R, F, S, G), A \o code) = Open(Q, H, T, G)
  BY <1>1, <1>3, RunConcat
<1>6. Run(w, Open(R, F, S, G), (A \o code) \o B) = Open(PutBack(R, saved, Q), H, S, G)
  BY <1>1, <1>2, <1>4, <1>5, RunConcat
<1> QED BY <1>4, <1>6 DEF A, B

\* The same, after some other code.
LEMMA SavesAfter ==
  ASSUME NEW w, NEW c, NEW first, NEW R, NEW F, NEW S, NEW G, NEW saved, NEW code, NEW Q, NEW H,
         IsSeq(first), IsSeq(saved), IsSeq(S), IsSeq(code), IsRegs(Q),
         Run(w, c, first) = Open(R, F, S, G),
         Run(w, Open(R, F, Saved(R, saved, S), G), code) = Open(Q, H, Saved(R, saved, S), G)
  PROVE  /\ IsSeq(first \o PushAll(saved) \o code \o PopAll(Reverse(saved)))
         /\ Run(w, c, first \o PushAll(saved) \o code \o PopAll(Reverse(saved)))
              = Open(PutBack(R, saved, Q), H, S, G)
<1> DEFINE A == PushAll(saved)
           B == PopAll(Reverse(saved))
           T == Saved(R, saved, S)
<1>1. IsSeq(A) /\ Run(w, Open(R, F, S, G), A) = Open(R, F, T, G)
  BY PushAllSaves
<1>2. IsSeq(B) /\ Run(w, Open(Q, H, T, G), B) = Open(PutBack(R, saved, Q), H, S, G)
  BY PopAllRestores DEF IsRegs
<1>3. Run(w, Open(R, F, T, G), code) = Open(Q, H, T, G)
  OBVIOUS
<1> HIDE DEF A, B, T
<1>4. IsSeq(first \o A) /\ IsSeq((first \o A) \o code) /\ IsSeq(((first \o A) \o code) \o B)
  BY <1>1, <1>2, Joined
<1>5. Run(w, c, first \o A) = Open(R, F, T, G)
  BY <1>1, RunConcat
<1>6. Run(w, c, (first \o A) \o code) = Open(Q, H, T, G)
  BY <1>3, <1>4, <1>5, RunConcat
<1>7. Run(w, c, ((first \o A) \o code) \o B) = Open(PutBack(R, saved, Q), H, S, G)
  BY <1>2, <1>4, <1>6, RunConcat
<1> QED BY <1>4, <1>7 DEF A, B

\* A field of the identity.
IdentityField(w, R, field) == Field(w, Identity(w, R), field)

\* TextureMaskedFormIDThunk returns with the FormID of the identity, masked.
LEMMA MaskedRun ==
  ASSUME NEW w, NEW R, NEW F, NEW S, NEW G, NEW v, IsRegs(R), IsSeq(S), Len(S) % 2 = 1,
         Head(S) = ReturnAddress, Identity(w, R) # NPC("null"), v = IdentityField(w, R, "formID")
  PROVE  Run(w, Open(R, F, S, G), TextureMaskedFormIDThunk) =
           Gone(Put(Put(R, "rdx", v), "rbx", Masked(v, R["rax"])), Masked(v, R["rax"]), Tail(S), "site", G)
<1> DEFINE saved == <<"rax", "rcx", "r8", "r9", "r10", "r11">>
           T == Saved(R, saved, S)
           code == AskFor(5, "rdx", "formID")
           Q == Put(Asked(w, R), "rdx", v)
           C == << Mov("rbx", "rdx"), And("rbx", "rax"), Plain("ret") >>
           R1 == Put(R, "rdx", v)
<1>1. /\ IsSeq(saved) /\ Len(saved) = 6
      /\ saved[1] = "rax" /\ saved[2] = "rcx" /\ saved[3] = "r8" /\ saved[4] = "r9" /\ saved[5] = "r10"
      /\ saved[6] = "r11"
  <2>1. saved \in Seq(Registers)
    BY DEF Registers
  <2> QED BY <2>1 DEF IsSeq
<1>2. TextureMaskedFormIDThunk = (PushAll(saved) \o code \o PopAll(Reverse(saved))) \o C
  BY Zenon DEF TextureMaskedFormIDThunk, AskFor
<1> HIDE DEF saved
<1>3. IsSeq(T) /\ (5 + Len(T)) % 2 = 0
  <2>1. IsSeq(T) /\ Len(T) = 6 + Len(S) /\ Len(S) \in Nat
    <3>1. IsSeq(T) /\ Len(T) = Len(saved) + Len(S) /\ Len(S) \in Nat
      BY <1>1, SavedLength
    <3> QED BY <1>1, <3>1
  <2> QED BY <2>1
<1>4. IsSeq(code) /\ Run(w, Open(R, F, T, G), code) = Open(Q, Junk, T, G)
  BY <1>3, AskRun DEF IdentityField
<1>5. IsRegs(Q)
  BY DEF Asked, AfterCall, Put, IsRegs
<1>6. PutBack(R, saved, Q) = R1
  BY <1>1 DEF IsRegs, PutBack, Asked, AfterCall, Put, Registers, Volatile
<1> HIDE DEF code, Q, T
<1>7. /\ IsSeq(PushAll(saved) \o code \o PopAll(Reverse(saved)))
      /\ Run(w, Open(R, F, S, G), PushAll(saved) \o code \o PopAll(Reverse(saved))) = Open(R1, Junk, S, G)
  BY <1>1, <1>4, <1>5, <1>6, SavesAround DEF T
<1>8. IsSeq(C) /\ Len(C) = 3 /\ C[1] = Mov("rbx", "rdx") /\ C[2] = And("rbx", "rax") /\ C[3] = Plain("ret")
  <2>1. C \in Seq({Mov("rbx", "rdx"), And("rbx", "rax"), Plain("ret")})
    OBVIOUS
  <2> QED BY <2>1 DEF IsSeq
<1> HIDE DEF C
<1>9. PICK a : Leads(w, Open(R1, Junk, S, G), C, 3, a)
  BY <1>8, RunIs
<1>10. /\ a[0] = Open(R1, Junk, S, G) /\ Run(w, Open(R1, Junk, S, G), C) = a[3]
       /\ a[1] = Execute(w, a[0], Mov("rbx", "rdx")) /\ a[2] = Execute(w, a[1], And("rbx", "rax"))
       /\ a[3] = Execute(w, a[2], Plain("ret"))
  BY <1>8, <1>9 DEF Leads
<1>11. R1["rdx"] = v /\ R1["rax"] = R["rax"]
  BY DEF IsRegs, Put, Registers
<1> DEFINE R2 == Put(R1, "rbx", v)
           R3 == Put(R1, "rbx", Masked(v, R["rax"]))
<1>12. R2["rbx"] = v /\ R2["rax"] = R["rax"] /\ Put(R2, "rbx", Masked(R2["rbx"], R2["rax"])) = R3
  BY <1>11 DEF IsRegs, Put, Registers
<1> HIDE DEF R1
<1>13. a[1] = Open(R2, Junk, S, G)
  BY <1>10, <1>11, MovStep
<1> HIDE DEF R2, R3
<1>14. a[2] = Open(R3, Masked(v, R["rax"]), S, G)
  BY <1>10, <1>12, <1>13, AndStep
<1>15. a[3] = Gone(R3, Masked(v, R["rax"]), Tail(S), "site", G)
  BY <1>10, <1>14, RetStep
<1>16. PICK P : P = PushAll(saved) \o code \o PopAll(Reverse(saved))
  OBVIOUS
<1>17. Run(w, Open(R, F, S, G), P \o C) = a[3]
  BY <1>7, <1>8, <1>10, <1>16, RunConcat
<1> QED BY <1>2, <1>15, <1>16, <1>17 DEF R3, R1

\* CompositeMaskedFormIDThunk returns with the FormID of the identity, masked, and
\* rdx as it was.
LEMMA CompositeMaskedRun ==
  ASSUME NEW w, NEW R, NEW F, NEW S, NEW G, NEW v, IsRegs(R), IsSeq(S), Len(S) % 2 = 1,
         Head(S) = ReturnAddress, Identity(w, R) # NPC("null"), v = IdentityField(w, R, "formID")
  PROVE  Run(w, Open(R, F, S, G), CompositeMaskedFormIDThunk) =
           Gone(Put(R, "rdi", Masked(v, R["rax"])), Masked(v, R["rax"]), Tail(S), "site", G)
<1> DEFINE saved == <<"rax", "rcx", "rdx", "r8", "r9", "r10", "r11">>
           T == Saved(R, saved, S)
           code == AskFor(4, "rdi", "formID")
           Q == Put(Asked(w, R), "rdi", v)
           C == << And("rdi", "rax"), Plain("ret") >>
           R1 == Put(R, "rdi", v)
           R2 == Put(R, "rdi", Masked(v, R["rax"]))
<1>1. /\ IsSeq(saved) /\ Len(saved) = 7
      /\ saved[1] = "rax" /\ saved[2] = "rcx" /\ saved[3] = "rdx" /\ saved[4] = "r8" /\ saved[5] = "r9"
      /\ saved[6] = "r10" /\ saved[7] = "r11"
  <2>1. saved \in Seq(Registers)
    BY DEF Registers
  <2> QED BY <2>1 DEF IsSeq
<1>2. CompositeMaskedFormIDThunk = (PushAll(saved) \o code \o PopAll(Reverse(saved))) \o C
  BY Zenon DEF CompositeMaskedFormIDThunk, AskFor
<1> HIDE DEF saved
<1>3. IsSeq(T) /\ (4 + Len(T)) % 2 = 0
  <2>1. IsSeq(T) /\ Len(T) = Len(saved) + Len(S) /\ Len(S) \in Nat
    BY <1>1, SavedLength
  <2> QED BY <1>1, <2>1
<1>4. IsSeq(code) /\ Run(w, Open(R, F, T, G), code) = Open(Q, Junk, T, G)
  BY <1>3, AskRun DEF IdentityField
<1>5. IsRegs(Q)
  BY DEF Asked, AfterCall, Put, IsRegs
<1>6. PutBack(R, saved, Q) = R1
  BY <1>1 DEF IsRegs, PutBack, Asked, AfterCall, Put, Registers, Volatile
<1> HIDE DEF code, Q, T
<1>7. /\ IsSeq(PushAll(saved) \o code \o PopAll(Reverse(saved)))
      /\ Run(w, Open(R, F, S, G), PushAll(saved) \o code \o PopAll(Reverse(saved))) = Open(R1, Junk, S, G)
  BY <1>1, <1>4, <1>5, <1>6, SavesAround DEF T
<1>8. IsSeq(C) /\ Len(C) = 2 /\ C[1] = And("rdi", "rax") /\ C[2] = Plain("ret")
  <2>1. C \in Seq({And("rdi", "rax"), Plain("ret")})
    OBVIOUS
  <2> QED BY <2>1 DEF IsSeq
<1> HIDE DEF C
<1>9. PICK a : Leads(w, Open(R1, Junk, S, G), C, 2, a)
  BY <1>8, RunIs
<1>10. /\ a[0] = Open(R1, Junk, S, G) /\ Run(w, Open(R1, Junk, S, G), C) = a[2]
       /\ a[1] = Execute(w, a[0], And("rdi", "rax")) /\ a[2] = Execute(w, a[1], Plain("ret"))
  BY <1>8, <1>9 DEF Leads
<1>11. R1["rdi"] = v /\ R1["rax"] = R["rax"] /\ Put(R1, "rdi", Masked(R1["rdi"], R1["rax"])) = R2
  BY DEF IsRegs, Put, Registers
<1> HIDE DEF R1, R2
<1>12. a[1] = Open(R2, Masked(v, R["rax"]), S, G)
  BY <1>10, <1>11, AndStep
<1>13. a[2] = Gone(R2, Masked(v, R["rax"]), Tail(S), "site", G)
  BY <1>10, <1>12, RetStep
<1>14. PICK P : P = PushAll(saved) \o code \o PopAll(Reverse(saved))
  OBVIOUS
<1>15. Run(w, Open(R, F, S, G), P \o C) = a[2]
  BY <1>7, <1>8, <1>10, <1>14, RunConcat
<1> QED BY <1>2, <1>13, <1>14, <1>15 DEF R2

\* The owner index that a thunk puts in rdx.
OwnerOf(v) == IF v = Value("ownerIndex", "FFFF") THEN Word("0") ELSE v

\* The code between the saving and the restoring of the registers.
AskForOwner ==
  << Sub(5), Mov("rcx", "rsi"), Clobber("rax"), Call("faceTextureIdentity"),
     Load("rdx", "rax", "ownerIndex"), Const("r10", "FFFF"),
     CmpFFFF("rdx"), Jnz("ownerReady"), Const("rdx", "0"), Label("ownerReady"), Add(5) >>

\* What it leaves of the registers.
OwnerAsked(R, Q, v) ==
  /\ IsRegs(Q) /\ Q["r10"] = Word("FFFF") /\ Q["rdx"] = OwnerOf(v)
  /\ \A r \in Registers \ Volatile : Q[r] = R[r]

\* The jump over the constant 0 is taken when the identity has an owner.
LEMMA AskOwnerRun ==
  ASSUME NEW w, NEW R, NEW F, NEW S, NEW G, NEW v,
         IsRegs(R), IsSeq(S), (5 + Len(S)) % 2 = 0, Identity(w, R) # NPC("null"),
         v = IdentityField(w, R, "ownerIndex")
  PROVE  /\ IsSeq(AskForOwner)
         /\ \E Q : OwnerAsked(R, Q, v) /\ Run(w, Open(R, F, S, G), AskForOwner) = Open(Q, Junk, S, G)
<1> DEFINE C == AskForOwner
<1>1. /\ Len(C) = 11
      /\ C[1] = Sub(5) /\ C[2] = Mov("rcx", "rsi") /\ C[3] = Clobber("rax")
      /\ C[4] = Call("faceTextureIdentity") /\ C[5] = Load("rdx", "rax", "ownerIndex")
      /\ C[6] = Const("r10", "FFFF") /\ C[7] = CmpFFFF("rdx") /\ C[8] = Jnz("ownerReady")
      /\ C[9] = Const("rdx", "0") /\ C[10] = Label("ownerReady") /\ C[11] = Add(5)
  BY DEF AskForOwner
<1>0. IsSeq(C)
  <2>1. C \in Seq({Sub(5), Mov("rcx", "rsi"), Clobber("rax"), Call("faceTextureIdentity"),
                   Load("rdx", "rax", "ownerIndex"), Const("r10", "FFFF"), CmpFFFF("rdx"),
                   Jnz("ownerReady"), Const("rdx", "0"), Label("ownerReady"), Add(5)})
    BY DEF AskForOwner
  <2> QED BY <2>1 DEF IsSeq
<1> HIDE DEF C
<1>2. PICK a : Leads(w, Open(R, F, S, G), C, 11, a)
  BY <1>1, RunIs
<1>3. /\ a[0] = Open(R, F, S, G) /\ Run(w, Open(R, F, S, G), C) = a[11]
      /\ a[1] = Execute(w, a[0], Sub(5)) /\ a[2] = Execute(w, a[1], Mov("rcx", "rsi"))
      /\ a[3] = Execute(w, a[2], Clobber("rax")) /\ a[4] = Execute(w, a[3], Call("faceTextureIdentity"))
      /\ a[5] = Execute(w, a[4], Load("rdx", "rax", "ownerIndex"))
      /\ a[6] = Execute(w, a[5], Const("r10", "FFFF")) /\ a[7] = Execute(w, a[6], CmpFFFF("rdx"))
      /\ a[8] = Execute(w, a[7], Jnz("ownerReady")) /\ a[9] = Execute(w, a[8], Const("rdx", "0"))
      /\ a[10] = Execute(w, a[9], Label("ownerReady")) /\ a[11] = Execute(w, a[10], Add(5))
  BY <1>1, <1>2 DEF Leads
<1> DEFINE R3 == Put(Put(R, "rcx", R["rsi"]), "rax", Junk)
           R4 == Asked(w, R)
           R6 == Put(Put(R4, "rdx", v), "r10", Word("FFFF"))
<1>4. R3["rcx"] = R["rsi"] /\ R4["rax"] = Identity(w, R)
  BY DEF IsRegs, Put, Asked, AfterCall, Registers
<1>5. R4 = AfterCall(R3, Answer(w, R3["rcx"], "faceTextureIdentity"))
  BY <1>4, Zenon DEF Asked, Identity
<1>6. a[3] = Open(R3, Junk, Space(5, S), G)
  BY <1>3, SubStep, MovStep, ClobberStep
<1>7. IsRegs(R6) /\ R6["r10"] = Word("FFFF") /\ R6["rdx"] = v /\ \A r \in Registers \ Volatile : R6[r] = R[r]
  BY DEF IsRegs, Put, Asked, AfterCall, Registers, Volatile
<1> HIDE DEF R3, R4, R6
<1>8. a[4] = Open(R4, Junk, Space(5, S), G)
  <2>1. 5 \in Nat /\ 5 >= ShadowWords
    BY DEF ShadowWords
  <2>2. Execute(w, Open(R3, Junk, Space(5, S), G), Call("faceTextureIdentity")) =
          Open(R4, Junk, Space(5, S), Given(R3, G, "faceTextureIdentity"))
    BY <1>5, <2>1, CallInShadow
  <2>3. Given(R3, G, "faceTextureIdentity") = G
    BY DEF Given
  <2> QED BY <1>3, <1>6, <2>2, <2>3, Zenon
<1>9. a[6] = Open(R6, Junk, Space(5, S), G)
  BY <1>3, <1>4, <1>8, LoadStep, ConstStep DEF R6, IdentityField
<1>11. CASE v = Value("ownerIndex", "FFFF")
  <2> DEFINE Q == Put(R6, "rdx", Word("0"))
  <2>1. a[7] = Open(R6, Zero, Space(5, S), G)
    BY <1>3, <1>7, <1>9, <1>11, CmpSame
  <2>2. a[10] = Open(Q, Zero, Space(5, S), G)
    BY <1>3, <2>1, JnzNotTaken, ConstStep, LabelPassed
  <2>3. a[11] = Open(Q, Junk, S, G)
    BY <1>3, <2>2, ReleaseStep
  <2>4. OwnerAsked(R, Q, v)
    BY <1>7, <1>11 DEF OwnerAsked, IsRegs, Put, OwnerOf, Registers, Volatile
  <2> HIDE DEF Q
  <2> QED BY <1>0, <1>3, <2>3, <2>4 DEF C
<1>12. CASE v # Value("ownerIndex", "FFFF")
  <2>1. a[7] = Open(R6, Other, Space(5, S), G)
    BY <1>3, <1>7, <1>9, <1>12, CmpDiffers
  <2>2. a[8] = Heading(R6, Other, Space(5, S), "ownerReady", G)
    BY <1>3, <2>1, JnzTaken
  <2>3. Named("ownerReady") /\ Const("rdx", "0") # Label("ownerReady")
    BY Zenon DEF Named, Const, Label, Ins
  <2>4. a[10] = Open(R6, Other, Space(5, S), G)
    BY <1>3, <2>2, <2>3, Skipped, LabelReached
  <2>5. a[11] = Open(R6, Junk, S, G)
    BY <1>3, <2>4, ReleaseStep
  <2>6. OwnerAsked(R, R6, v)
    BY <1>7, <1>12 DEF OwnerAsked, OwnerOf
  <2> QED BY <1>0, <1>3, <2>5, <2>6 DEF C
<1> QED BY <1>11, <1>12

\* CompositeOwnerIndexThunk returns with the owner index of the identity, and the flags
\* as they were.
LEMMA OwnerIndexRun ==
  ASSUME NEW w, NEW R, NEW F, NEW S, NEW G, NEW v, IsRegs(R), IsSeq(S), Len(S) % 2 = 1,
         Head(S) = ReturnAddress, Identity(w, R) # NPC("null"), v = IdentityField(w, R, "ownerIndex")
  PROVE  Run(w, Open(R, F, S, G), CompositeOwnerIndexThunk) =
           Gone(Put(Put(R, "rdx", OwnerOf(v)), "r10", Word("FFFF")), F, Tail(S), "site", G)
<1>0. PICK U : U = Onto(F, S)
  OBVIOUS
<1> DEFINE saved == <<"rax", "rcx", "r8", "r9", "r11">>
           T == Saved(R, saved, U)
           A == <<Plain("pushfq")>>
           C == << Plain("popfq"), Plain("ret") >>
           R1 == Put(Put(R, "rdx", OwnerOf(v)), "r10", Word("FFFF"))
<1>1. /\ IsSeq(saved) /\ Len(saved) = 5
      /\ saved[1] = "rax" /\ saved[2] = "rcx" /\ saved[3] = "r8" /\ saved[4] = "r9" /\ saved[5] = "r11"
  <2>1. saved \in Seq(Registers)
    BY DEF Registers
  <2> QED BY <2>1 DEF IsSeq
<1>2. CompositeOwnerIndexThunk = A \o PushAll(saved) \o AskForOwner \o PopAll(Reverse(saved)) \o C
  BY Zenon DEF CompositeOwnerIndexThunk, AskForOwner
<1> HIDE DEF saved
<1>3. /\ IsSeq(U) /\ Len(U) = Len(S) + 1 /\ Len(S) \in Nat /\ Head(U) = F /\ Tail(U) = S
  BY <1>0, PushedOne
<1>4. IsSeq(T) /\ (5 + Len(T)) % 2 = 0
  <2>1. IsSeq(T) /\ Len(T) = Len(saved) + Len(U)
    <3>1. IsSeq(saved)
      BY <1>1
    <3>2. IsSeq(U)
      BY <1>3
    <3>3. IsSeq(Saved(R, saved, U)) /\ Len(Saved(R, saved, U)) = Len(saved) + Len(U)
      BY <3>1, <3>2, SavedLength
    <3> QED BY <3>3
  <2>2. Len(T) = 5 + (Len(S) + 1)
    BY <1>1, <1>3, <2>1
  <2> QED BY <1>3, <2>1, <2>2
<1> HIDE DEF T
<1>5. IsSeq(AskForOwner)
  BY <1>4, AskOwnerRun
<1>6. PICK Q : OwnerAsked(R, Q, v) /\ Run(w, Open(R, F, T, G), AskForOwner) = Open(Q, Junk, T, G)
  BY <1>4, AskOwnerRun
<1>7. PutBack(R, saved, Q) = R1
  <2>1. \A r \in Registers : (\E k \in 1 .. Len(saved) : saved[k] = r)
                              <=> r \in {"rax", "rcx", "r8", "r9", "r11"}
    BY <1>1
  <2>2. ASSUME NEW r \in Registers PROVE PutBack(R, saved, Q)[r] = R1[r]
    <3>1. CASE r = "r10"
      BY <1>6, <2>1, <3>1 DEF OwnerAsked, IsRegs, PutBack, Put, Registers
    <3>2. CASE r = "rdx"
      BY <1>6, <2>1, <3>2 DEF OwnerAsked, IsRegs, PutBack, Put, Registers
    <3>3. CASE r \notin {"r10", "rdx"}
      <4>1. R1[r] = R[r]
        BY <3>3 DEF IsRegs, Put
      <4>2. Q[r] = R[r] \/ r \in {"rax", "rcx", "r8", "r9", "r11"}
        BY <1>6, <3>3 DEF OwnerAsked, Volatile
      <4> QED BY <2>1, <4>1, <4>2 DEF PutBack
    <3> QED BY <3>1, <3>2, <3>3
  <2>3. R1 = [r \in Registers |-> R1[r]]
    BY DEF IsRegs, Put
  <2> QED BY <2>2, <2>3 DEF PutBack
<1>8. IsSeq(A) /\ Run(w, Open(R, F, S, G), A) = Open(R, F, U, G)
  <2>1. IsSeq(A) /\ Len(A) = 1 /\ A[1] = Plain("pushfq")
    <3>1. A \in Seq({Plain("pushfq")})
      OBVIOUS
    <3> QED BY <3>1 DEF IsSeq
  <2> HIDE DEF A
  <2>2. PICK a : Leads(w, Open(R, F, S, G), A, 1, a)
    BY <2>1, RunIs
  <2>3. /\ a[0] = Open(R, F, S, G) /\ Run(w, Open(R, F, S, G), A) = a[1]
        /\ a[1] = Execute(w, a[0], Plain("pushfq"))
    BY <2>1, <2>2 DEF Leads
  <2> QED BY <1>0, <2>1, <2>3, PushFlagsStep
<1>9. IsSeq(C) /\ Run(w, Open(R1, Junk, U, G), C) = Gone(R1, F, Tail(S), "site", G)
  <2>1. IsSeq(C) /\ Len(C) = 2 /\ C[1] = Plain("popfq") /\ C[2] = Plain("ret")
    <3>1. C \in Seq({Plain("popfq"), Plain("ret")})
      OBVIOUS
    <3> QED BY <3>1 DEF IsSeq
  <2> HIDE DEF C, R1
  <2>2. PICK a : Leads(w, Open(R1, Junk, U, G), C, 2, a)
    BY <2>1, RunIs
  <2>3. /\ a[0] = Open(R1, Junk, U, G) /\ Run(w, Open(R1, Junk, U, G), C) = a[2]
        /\ a[1] = Execute(w, a[0], Plain("popfq")) /\ a[2] = Execute(w, a[1], Plain("ret"))
    BY <2>1, <2>2 DEF Leads
  <2>4. Execute(w, Open(R1, Junk, U, G), Plain("popfq")) = Open(R1, F, S, G)
    <3>1. Execute(w, Open(R1, Junk, U, G), Plain("popfq")) = Open(R1, Head(U), Tail(U), G)
      BY PopFlagsStep
    <3> QED BY <1>3, <3>1, Zenon
  <2> QED BY <2>1, <2>3, <2>4, RetStep
<1> HIDE DEF A, C, R1
<1>10. PICK P : P = A \o PushAll(saved) \o AskForOwner \o PopAll(Reverse(saved))
  OBVIOUS
<1>11. IsSeq(P) /\ Run(w, Open(R, F, S, G), P) = Open(R1, Junk, U, G)
  <2>1. IsRegs(Q)
    BY <1>6 DEF OwnerAsked
  <2> QED BY <1>1, <1>3, <1>5, <1>6, <1>7, <1>8, <1>10, <2>1, SavesAfter DEF T
<1>12. Run(w, Open(R, F, S, G), P \o C) = Gone(R1, F, Tail(S), "site", G)
  BY <1>9, <1>11, RunConcat
<1> QED BY <1>2, <1>10, <1>12, Zenon DEF R1

-----------------------------------------------------------------------------
(* Values, and the memory they point to.                                   *)

\* A pointer to an NPC is zero when it is null.
LEMMA ZeroNPC == ASSUME NEW n PROVE IsZero(NPC(n)) <=> n = "null"
<1>1. NPC(n)[1] = "npc" /\ NPC(n)[2] = n /\ NPC("null")[2] = "null"
  BY Zenon DEF NPC, Value
<1>2. FormID("unregistered")[1] = "formID" /\ Value("active", "inactive")[1] = "active"
  BY Zenon DEF FormID, Value
<1> QED BY <1>1, <1>2 DEF IsZero

\* A FormID is zero when it is that of an NPC that is not registered.
LEMMA ZeroFormID == ASSUME NEW n PROVE IsZero(FormID(n)) <=> n = "unregistered"
<1>1. FormID(n)[1] = "formID" /\ FormID(n)[2] = n /\ FormID("unregistered")[2] = "unregistered"
  BY Zenon DEF FormID, Value
<1>2. NPC("null")[1] = "npc" /\ Value("active", "inactive")[1] = "active"
  BY Zenon DEF NPC, Value
<1> QED BY <1>1, <1>2 DEF IsZero

\* The flag of a slot is zero when the slot is inactive.
LEMMA ZeroActive == ASSUME NEW b PROVE IsZero(Value("active", b)) <=> b = "inactive"
<1>1. /\ Value("active", b)[1] = "active" /\ Value("active", b)[2] = b
      /\ Value("active", "inactive")[2] = "inactive"
  BY Zenon DEF Value
<1>2. NPC("null")[1] = "npc" /\ FormID("unregistered")[1] = "formID"
  BY Zenon DEF NPC, FormID, Value
<1> QED BY <1>1, <1>2 DEF IsZero

\* The result of the engine's function is not known to be zero.
LEMMA ZeroResult == ~IsZero(Value("result", "virtual"))
<1>1. Value("result", "virtual")[1] = "result" /\ Value("active", "inactive")[1] = "active"
  BY Zenon DEF Value
<1>2. NPC("null")[1] = "npc" /\ FormID("unregistered")[1] = "formID"
  BY Zenon DEF NPC, FormID, Value
<1> QED BY <1>1, <1>2 DEF IsZero

\* Two NPCs differ in their FormIDs.
LEMMA SameFormID == ASSUME NEW m, NEW n PROVE FormID(m) = FormID(n) <=> m = n
<1>1. FormID(m)[2] = m /\ FormID(n)[2] = n
  BY Zenon DEF FormID, Value
<1> QED BY <1>1

\* Two pointers to NPCs are equal when the NPCs are.
LEMMA SameNPC == ASSUME NEW m, NEW n PROVE NPC(m) = NPC(n) <=> m = n
<1>1. NPC(m)[2] = m /\ NPC(n)[2] = n
  BY Zenon DEF NPC, Value
<1> QED BY <1>1

\* A slot and an actor are neither null nor the same.
LEMMA NotNull ==
  Word("slot") # NPC("null") /\ Word("actor") # NPC("null") /\ ~(Word("slot") = Word("actor"))
<1>1. Word("slot")[1] = "slot" /\ Word("actor")[1] = "actor" /\ NPC("null")[1] = "npc"
  BY Zenon DEF Word, NPC, Value
<1> QED BY <1>1

\* An actor's NPC is its base.
LEMMA FieldOfActor == ASSUME NEW w PROVE Field(w, Word("actor"), "npc") = NPC(w.base)
<1>1. Word("actor")[1] # "npc"
  <2>1. Word("actor")[1] = "actor"
    BY Zenon DEF Word, Value
  <2> QED BY <2>1
<1>2. Word("actor") = Value("actor", "") /\ Word("slot") = Value("slot", "")
  BY Zenon DEF Word
<1> QED BY <1>1, <1>2, NotNull, Zenon DEF Field

\* A slot holds whether it is active, and its source.
LEMMA FieldOfSlot ==
  ASSUME NEW w
  PROVE  /\ Field(w, Word("slot"), "active") = Value("active", w.binding)
         /\ Field(w, Word("slot"), "source") = NPC("source")
<1>1. Word("slot")[1] # "npc"
  <2>1. Word("slot")[1] = "slot"
    BY Zenon DEF Word, Value
  <2> QED BY <2>1
<1>2. Word("actor") = Value("actor", "") /\ Word("slot") = Value("slot", "")
  BY Zenon DEF Word
<1>3. Field(w, Word("slot"), "active") = Value("active", w.binding)
  BY <1>1, <1>2, NotNull, Zenon DEF Field
<1>4. Field(w, Word("slot"), "source") = NPC("source")
  BY <1>1, <1>2, NotNull, Zenon DEF Field
<1> QED BY <1>3, <1>4

\* An NPC holds its FormID and its owner index.
LEMMA FieldOfNPC ==
  ASSUME NEW w, NEW n
  PROVE  /\ Field(w, NPC(n), "formID") = FormID(n)
         /\ Field(w, NPC(n), "ownerIndex") = Value("ownerIndex", IF n \in Unowned THEN "FFFF" ELSE n)
<1>1. NPC(n)[1] = "npc" /\ NPC(n)[2] = n
  BY Zenon DEF NPC, Value
<1>2. NPC(n) # Value("actor", "") /\ NPC(n) # Value("slot", "")
  <2>1. Word("actor")[1] = "actor" /\ Word("slot")[1] = "slot"
    BY Zenon DEF Word, Value
  <2>2. NPC(n) # Word("actor") /\ NPC(n) # Word("slot")
    BY <1>1, <2>1
  <2> QED BY <2>2, Zenon DEF Word
<1>3. Field(w, NPC(n), "formID") = FormID(n)
  BY <1>1, <1>2, Zenon DEF Field
<1>4. Field(w, NPC(n), "ownerIndex") = Value("ownerIndex", IF n \in Unowned THEN "FFFF" ELSE n)
  BY <1>1, <1>2, Zenon DEF Field
<1> QED BY <1>3, <1>4

\* The resolvers answer for an NPC; an engine function answers for anything.
LEMMA Answers ==
  ASSUME NEW w, NEW n
  PROVE  /\ Answer(w, NPC(n), "faceTextureIdentity") = NPC(FaceTextureIdentity(w, n))
         /\ Answer(w, NPC(n), "runtimeFormID") = FormID(RuntimeBase(w, n))
         /\ \A v : Answer(w, v, "virtual") = Value("result", "virtual")
<1>1. NPC(n)[1] = "npc" /\ NPC(n)[2] = n
  BY Zenon DEF NPC, Value
<1>2. Answer(w, NPC(n), "faceTextureIdentity") = NPC(FaceTextureIdentity(w, n))
  BY <1>1, Zenon DEF Answer
<1>3. Answer(w, NPC(n), "runtimeFormID") = FormID(RuntimeBase(w, n))
  BY <1>1, Zenon DEF Answer
<1>4. ASSUME NEW v PROVE Answer(w, v, "virtual") = Value("result", "virtual")
  BY Zenon DEF Answer
<1> QED BY <1>2, <1>3, <1>4

-----------------------------------------------------------------------------
(* The redirection of a base read.                                         *)

\* After j instructions a run heads for the label at the end of its code.
Leaps(w, c, code, n, a, j, R, F, S, G, l) ==
  /\ n \in Nat /\ j \in 0 .. n - 1 /\ Leads(w, c, code, n, a)
  /\ a[j] = Heading(R, F, S, l, G) /\ Named(l) /\ code[n] = Label(l)
  /\ \A k \in 1 .. n - 1 : code[k] # Label(l)

\* It skips what is between.
LEMMA SkipsToEnd ==
  ASSUME NEW w, NEW c, NEW code, NEW n, NEW a, NEW j, NEW R, NEW F, NEW S, NEW G, NEW l,
         Leaps(w, c, code, n, a, j, R, F, S, G, l)
  PROVE  Run(w, c, code) = Open(R, F, S, G)
<1>0. /\ n \in Nat /\ j \in 0 .. n - 1 /\ Leads(w, c, code, n, a)
      /\ a[j] = Heading(R, F, S, l, G) /\ Named(l) /\ code[n] = Label(l)
      /\ \A k \in 1 .. n - 1 : code[k] # Label(l)
  BY DEF Leaps
<1> DEFINE P == {k \in Nat : j + k <= n - 1 => a[j + k] = Heading(R, F, S, l, G)}
<1>1. 0 \in P
  BY <1>0
<1>2. ASSUME NEW k \in Nat, k \in P PROVE k + 1 \in P
  <2> SUFFICES ASSUME j + (k + 1) <= n - 1 PROVE a[j + (k + 1)] = Heading(R, F, S, l, G)
    OBVIOUS
  <2>1. PICK m : m = j + (k + 1)
    OBVIOUS
  <2>2. m \in 1 .. n /\ m \in 1 .. n - 1 /\ m - 1 = j + k /\ a[j + k] = Heading(R, F, S, l, G)
    BY <1>0, <1>2, <2>1
  <2>3. a[m] = Execute(w, Heading(R, F, S, l, G), code[m])
    BY <1>0, <2>2 DEF Leads
  <2>4. code[m] # Label(l)
    BY <1>0, <2>2
  <2> QED BY <2>1, <2>3, <2>4, <1>0, Skipped
<1>3. Nat \subseteq P
  <2> HIDE DEF P
  <2> QED BY <1>1, <1>2, SetInduction
<1>4. a[n - 1] = Heading(R, F, S, l, G)
  <2>1. (n - 1) - j \in P
    BY <1>0, <1>3
  <2>2. j + ((n - 1) - j) = n - 1
    BY <1>0
  <2> QED BY <2>1, <2>2, <1>0
<1>5. n \in 1 .. n /\ Run(w, c, code) = a[n]
  BY <1>0 DEF Leads
<1>6. a[n] = Execute(w, a[n - 1], Label(l))
  BY <1>0, <1>5 DEF Leads
<1>7. Execute(w, Heading(R, F, S, l, G), Label(l)) = Open(R, F, S, G)
  BY LabelReached
<1> QED BY <1>4, <1>5, <1>6, <1>7

\* The code of a base read between the saving and the restoring of its registers.
Redirection(result, actor, byteOffset, table, key, remaining) ==
  << Load(result, actor, "npc"), Test(result), Jz("done"),
     Clobber(table), Plain("cmpOperational"), Jz("done"),
     Load(key, result, "formID"), Test(key), Jz("done"),
     Clobber(byteOffset), Clobber(remaining), Probe(key, table), Jz("done"),
     Load(remaining, table, "active"), Test(remaining), Jz("done"),
     Load(remaining, table, "source"), Test(remaining), Jz("done"),
     Clobber(table), Mov(result, remaining), Label("done") >>

\* Its instructions, one by one.
LEMMA RedirectionCode ==
  ASSUME NEW r, NEW actor, NEW b, NEW t, NEW k, NEW m, NEW C, C = Redirection(r, actor, b, t, k, m)
  PROVE  /\ IsSeq(C) /\ Len(C) = 22
         /\ C[1] = Load(r, actor, "npc") /\ C[2] = Test(r) /\ C[3] = Jz("done")
         /\ C[4] = Clobber(t) /\ C[5] = Plain("cmpOperational") /\ C[6] = Jz("done")
         /\ C[7] = Load(k, r, "formID") /\ C[8] = Test(k) /\ C[9] = Jz("done")
         /\ C[10] = Clobber(b) /\ C[11] = Clobber(m) /\ C[12] = Probe(k, t) /\ C[13] = Jz("done")
         /\ C[14] = Load(m, t, "active") /\ C[15] = Test(m) /\ C[16] = Jz("done")
         /\ C[17] = Load(m, t, "source") /\ C[18] = Test(m) /\ C[19] = Jz("done")
         /\ C[20] = Clobber(t) /\ C[21] = Mov(r, m) /\ C[22] = Label("done")
<1>1. C \in Seq({Load(r, actor, "npc"), Test(r), Jz("done"), Clobber(t), Plain("cmpOperational"),
                 Load(k, r, "formID"), Test(k), Clobber(b), Clobber(m), Probe(k, t),
                 Load(m, t, "active"), Test(m), Load(m, t, "source"), Mov(r, m), Label("done")})
  BY DEF Redirection
<1> QED BY <1>1 DEF Redirection, IsSeq

\* Its last instruction is the only label.
LEMMA RedirectionLabel ==
  ASSUME NEW r, NEW actor, NEW b, NEW t, NEW k, NEW m, NEW C, C = Redirection(r, actor, b, t, k, m)
  PROVE  Named("done") /\ \A n \in 1 .. 21 : C[n] # Label("done")
<1>1. Named("done")
  BY Zenon DEF Named
<1>2. ASSUME NEW x, NEW y, NEW z
      PROVE  /\ Load(x, y, z) # Label("done") /\ Test(x) # Label("done") /\ Jz(x) # Label("done")
             /\ Clobber(x) # Label("done") /\ Plain("cmpOperational") # Label("done")
             /\ Probe(x, y) # Label("done") /\ Mov(x, y) # Label("done")
  <2> DEFINE L == Label("done")
  <2>1. L.op = "label"
    BY Zenon DEF Label, Ins
  <2>2. /\ Load(x, y, z).op = "load" /\ Test(x).op = "test" /\ Jz(x).op = "jz"
        /\ Clobber(x).op = "clobber" /\ Plain("cmpOperational").op = "cmpOperational"
        /\ Probe(x, y).op = "probe" /\ Mov(x, y).op = "mov"
    BY Zenon DEF Load, Test, Jz, Clobber, Plain, Probe, Mov, Ins
  <2> QED BY <2>1, <2>2
<1>3. ASSUME NEW n \in 1 .. 21 PROVE C[n] # Label("done")
  <2>1. n \in 1 .. 7 \/ n \in 8 .. 14 \/ n \in 15 .. 21
    OBVIOUS
  <2>2. CASE n \in 1 .. 7
    BY <1>2, <2>2, RedirectionCode
  <2>3. CASE n \in 8 .. 14
    BY <1>2, <2>3, RedirectionCode
  <2>4. CASE n \in 15 .. 21
    BY <1>2, <2>4, RedirectionCode
  <2> QED BY <2>1, <2>2, <2>3, <2>4
<1> QED BY <1>1, <1>3

\* Registers remain registers.
LEMMA PutTyped ==
  ASSUME NEW R, IsRegs(R), NEW r, NEW v
  PROVE  IsRegs(Put(R, r, v))
BY DEF IsRegs, Put

\* The register that is replaced.
LEMMA PutSame ==
  ASSUME NEW R, IsRegs(R), NEW r \in Registers, NEW v
  PROVE  Put(R, r, v)[r] = v
BY DEF IsRegs, Put

\* The other registers.
LEMMA PutOther ==
  ASSUME NEW R, IsRegs(R), NEW r, NEW v, NEW x \in Registers, x # r
  PROVE  Put(R, r, v)[x] = R[x]
BY DEF IsRegs, Put

\* The registers of a base read: its result, and four others to work in.
Apart(r, b, t, k, m) ==
  /\ r \in Registers /\ b \in Registers /\ t \in Registers /\ k \in Registers /\ m \in Registers
  /\ r # b /\ r # t /\ r # k /\ r # m /\ b # t /\ b # k /\ b # m /\ t # k /\ t # m /\ k # m

\* What the redirection leaves of the registers.
RedirectedRegs(w, R, Q, r, b, t, k, m) ==
  /\ IsRegs(Q) /\ Q[r] = NPC(Redirected(w, w.base))
  /\ \A x \in Registers : x \notin {r, b, t, k, m} => Q[x] = R[x]

\* Every path through the redirection ends with the promised NPC in the result, and has
\* worked in the four registers only: the base is null, the runtime is killed, the base
\* has no FormID, it has no slot, its slot is inactive, or its slot is active.
LEMMA RedirectionRun ==
  ASSUME NEW w, NEW R, NEW F, NEW S, NEW G, NEW r, NEW actor, NEW b, NEW t, NEW k, NEW m,
         IsRegs(R), Apart(r, b, t, k, m), R[actor] = Word("actor"),
         w.binding \in {"absent", "inactive", "active"}
  PROVE  \E Q, H : /\ RedirectedRegs(w, R, Q, r, b, t, k, m)
                   /\ Run(w, Open(R, F, S, G), Redirection(r, actor, b, t, k, m)) = Open(Q, H, S, G)
<1>1. PICK C : C = Redirection(r, actor, b, t, k, m)
  OBVIOUS
<1>2. IsSeq(C) /\ Len(C) = 22
  BY <1>1, RedirectionCode
<1>3. PICK a : Leads(w, Open(R, F, S, G), C, 22, a)
  BY <1>2, RunIs
<1>4. /\ C[1] = Load(r, actor, "npc") /\ C[2] = Test(r) /\ C[3] = Jz("done")
      /\ C[4] = Clobber(t) /\ C[5] = Plain("cmpOperational") /\ C[6] = Jz("done")
      /\ C[7] = Load(k, r, "formID") /\ C[8] = Test(k) /\ C[9] = Jz("done")
      /\ C[10] = Clobber(b) /\ C[11] = Clobber(m) /\ C[12] = Probe(k, t) /\ C[13] = Jz("done")
      /\ C[14] = Load(m, t, "active") /\ C[15] = Test(m) /\ C[16] = Jz("done")
      /\ C[17] = Load(m, t, "source") /\ C[18] = Test(m) /\ C[19] = Jz("done")
      /\ C[20] = Clobber(t) /\ C[21] = Mov(r, m) /\ C[22] = Label("done")
  BY <1>1, RedirectionCode
<1>5. /\ a[0] = Open(R, F, S, G) /\ Run(w, Open(R, F, S, G), C) = a[22]
      /\ a[1] = Execute(w, a[0], Load(r, actor, "npc")) /\ a[2] = Execute(w, a[1], Test(r))
      /\ a[3] = Execute(w, a[2], Jz("done")) /\ a[4] = Execute(w, a[3], Clobber(t))
      /\ a[5] = Execute(w, a[4], Plain("cmpOperational")) /\ a[6] = Execute(w, a[5], Jz("done"))
      /\ a[7] = Execute(w, a[6], Load(k, r, "formID")) /\ a[8] = Execute(w, a[7], Test(k))
      /\ a[9] = Execute(w, a[8], Jz("done")) /\ a[10] = Execute(w, a[9], Clobber(b))
      /\ a[11] = Execute(w, a[10], Clobber(m))
  BY <1>3, <1>4 DEF Leads
<1>6. /\ a[12] = Execute(w, a[11], Probe(k, t)) /\ a[13] = Execute(w, a[12], Jz("done"))
      /\ a[14] = Execute(w, a[13], Load(m, t, "active")) /\ a[15] = Execute(w, a[14], Test(m))
      /\ a[16] = Execute(w, a[15], Jz("done")) /\ a[17] = Execute(w, a[16], Load(m, t, "source"))
      /\ a[18] = Execute(w, a[17], Test(m)) /\ a[19] = Execute(w, a[18], Jz("done"))
      /\ a[20] = Execute(w, a[19], Clobber(t)) /\ a[21] = Execute(w, a[20], Mov(r, m))
      /\ a[22] = Execute(w, a[21], Label("done"))
  BY <1>3, <1>4 DEF Leads
\* A jump to the end leaves the registers as they are then.
<1>7. ASSUME NEW j \in 0 .. 21, NEW Q, a[j] = Heading(Q, Zero, S, "done", G)
      PROVE  Run(w, Open(R, F, S, G), C) = Open(Q, Zero, S, G)
  <2>1. Named("done") /\ \A n \in 1 .. 21 : C[n] # Label("done")
    BY <1>1, RedirectionLabel
  <2>2. Leaps(w, Open(R, F, S, G), C, 22, a, j, Q, Zero, S, G, "done")
    BY <1>3, <1>4, <1>7, <2>1 DEF Leaps
  <2> QED BY <2>2, SkipsToEnd
<1>8. PICK N, R1 : N = NPC(w.base) /\ R1 = Put(R, r, N)
  OBVIOUS
<1>9. IsRegs(R1) /\ R1[r] = N /\ \A x \in Registers : x # r => R1[x] = R[x]
  BY <1>8, PutTyped, PutSame, PutOther DEF Apart
<1>10. a[1] = Open(R1, F, S, G)
  BY <1>5, <1>8, LoadStep, NotNull, FieldOfActor
<1>11. CASE w.base = "null"
  <2>1. a[3] = Heading(R1, Zero, S, "done", G)
    BY <1>5, <1>8, <1>9, <1>10, <1>11, TestZero, JzTaken, ZeroNPC
  <2>2. Redirected(w, w.base) = w.base
    BY <1>11 DEF Redirected
  <2>3. RedirectedRegs(w, R, R1, r, b, t, k, m)
    BY <1>8, <1>9, <2>2 DEF RedirectedRegs
  <2>4. 3 \in 0 .. 21
    OBVIOUS
  <2> QED BY <1>1, <1>7, <2>1, <2>3, <2>4
<1>12. CASE w.base # "null"
  <2>1. a[3] = Open(R1, Other, S, G)
    BY <1>5, <1>8, <1>9, <1>10, <1>12, TestOther, JzNotTaken, ZeroNPC
  <2>2. PICK R4 : R4 = Put(R1, t, Junk)
    OBVIOUS
  <2>3. IsRegs(R4) /\ R4[r] = N /\ \A x \in Registers : x \notin {r, t} => R4[x] = R[x]
    BY <1>9, <2>2, PutTyped, PutSame, PutOther DEF Apart
  <2>4. a[4] = Open(R4, Junk, S, G)
    BY <1>5, <2>1, <2>2, ClobberStep
  <2>5. CASE ~w.operational
    <3>1. a[6] = Heading(R4, Zero, S, "done", G)
      BY <1>5, <2>4, <2>5, KilledStep, JzTaken
    <3>2. Redirected(w, w.base) = w.base
      BY <2>5 DEF Redirected
    <3>3. RedirectedRegs(w, R, R4, r, b, t, k, m)
      BY <1>8, <2>3, <3>2 DEF RedirectedRegs
    <3>4. 6 \in 0 .. 21
      OBVIOUS
    <3> QED BY <1>1, <1>7, <3>1, <3>3, <3>4
  <2>6. CASE w.operational
    <3>1. a[6] = Open(R4, Other, S, G)
      BY <1>5, <2>4, <2>6, OperationalStep, JzNotTaken
    <3>2. PICK R7 : R7 = Put(R4, k, FormID(w.base))
      OBVIOUS
    <3>3. /\ IsRegs(R7) /\ R7[r] = N /\ R7[k] = FormID(w.base)
          /\ \A x \in Registers : x \notin {r, t, k} => R7[x] = R[x]
      BY <2>3, <3>2, PutTyped, PutSame, PutOther DEF Apart
    <3>4. a[7] = Open(R7, Other, S, G)
      BY <1>5, <1>8, <1>12, <2>3, <3>1, <3>2, LoadStep, SameNPC, FieldOfNPC
    <3>5. CASE w.base = "unregistered"
      <4>1. a[9] = Heading(R7, Zero, S, "done", G)
        BY <1>5, <3>3, <3>4, <3>5, TestZero, JzTaken, ZeroFormID
      <4>2. Redirected(w, w.base) = w.base
        BY <3>5 DEF Redirected
      <4>3. RedirectedRegs(w, R, R7, r, b, t, k, m)
        BY <1>8, <3>3, <4>2 DEF RedirectedRegs
      <4>4. 9 \in 0 .. 21
        OBVIOUS
      <4> QED BY <1>1, <1>7, <4>1, <4>3, <4>4
    <3>6. CASE w.base # "unregistered"
      <4>1. a[9] = Open(R7, Other, S, G)
        BY <1>5, <3>3, <3>4, <3>6, TestOther, JzNotTaken, ZeroFormID
      <4>2. PICK R11 : R11 = Put(Put(R7, b, Junk), m, Junk)
        OBVIOUS
      <4>3. /\ IsRegs(R11) /\ R11[r] = N /\ R11[k] = FormID(w.base)
            /\ \A x \in Registers : x \notin {r, t, k, b, m} => R11[x] = R[x]
        BY <3>3, <4>2, PutTyped, PutSame, PutOther DEF Apart
      <4>4. a[11] = Open(R11, Junk, S, G)
        BY <1>5, <4>1, <4>2, ClobberStep
      <4>5. CASE ~Found(w, FormID(w.base))
        <5>1. PICK R12 : R12 = Put(R11, t, Junk)
          OBVIOUS
        <5>2. a[13] = Heading(R12, Zero, S, "done", G)
          BY <1>6, <4>3, <4>4, <4>5, <5>1, ProbeMisses, JzTaken
        <5>3. Redirected(w, w.base) = w.base
          BY <4>5 DEF Redirected, Found
        <5>4. RedirectedRegs(w, R, R12, r, b, t, k, m)
          BY <1>8, <4>3, <5>1, <5>3, PutTyped, PutOther DEF RedirectedRegs, Apart
        <5>5. 13 \in 0 .. 21
          OBVIOUS
        <5> QED BY <1>1, <1>7, <5>2, <5>4, <5>5
      <4>6. CASE Found(w, FormID(w.base))
        <5>1. PICK R14 : R14 = Put(Put(R11, t, Word("slot")), m, Value("active", w.binding))
          OBVIOUS
        <5>2. /\ IsRegs(R14) /\ R14[r] = N /\ R14[t] = Word("slot") /\ R14[m] = Value("active", w.binding)
              /\ \A x \in Registers : x \notin {r, t, k, b, m} => R14[x] = R[x]
          BY <4>3, <5>1, PutTyped, PutSame, PutOther DEF Apart
        <5>3. PICK R12 : R12 = Put(R11, t, Word("slot"))
          OBVIOUS
        <5>4. R12[t] = Word("slot") /\ R14 = Put(R12, m, Value("active", w.binding))
          BY <4>3, <5>1, <5>3, PutSame DEF Apart
        <5>5. a[13] = Open(R12, Other, S, G)
          BY <1>6, <4>3, <4>4, <4>6, <5>3, ProbeFinds, JzNotTaken
        <5>6. a[14] = Open(R14, Other, S, G)
          BY <1>6, <5>4, <5>5, LoadStep, NotNull, FieldOfSlot
        <5>7. w.base = "base" /\ w.binding # "absent"
          BY <4>6, SameFormID DEF Found
        <5>8. CASE w.binding = "inactive"
          <6>1. a[16] = Heading(R14, Zero, S, "done", G)
            BY <1>6, <5>2, <5>6, <5>8, TestZero, JzTaken, ZeroActive
          <6>2. Redirected(w, w.base) = w.base
            BY <5>8 DEF Redirected
          <6>3. RedirectedRegs(w, R, R14, r, b, t, k, m)
            BY <1>8, <5>2, <6>2 DEF RedirectedRegs
          <6>4. 16 \in 0 .. 21
            OBVIOUS
          <6> QED BY <1>1, <1>7, <6>1, <6>3, <6>4
        <5>9. CASE w.binding = "active"
          <6>1. a[16] = Open(R14, Other, S, G)
            BY <1>6, <5>2, <5>6, <5>9, TestOther, JzNotTaken, ZeroActive
          <6>2. PICK R17, R20, R21 : /\ R17 = Put(R14, m, NPC("source")) /\ R20 = Put(R17, t, Junk)
                                     /\ R21 = Put(R20, r, NPC("source"))
            OBVIOUS
          <6>3. R17[m] = NPC("source") /\ R20[m] = NPC("source")
            BY <5>2, <6>2, PutTyped, PutSame, PutOther DEF Apart
          <6>4. a[17] = Open(R17, Other, S, G)
            BY <1>6, <5>2, <6>1, <6>2, LoadStep, NotNull, FieldOfSlot
          <6>5. ~IsZero(NPC("source"))
            BY ZeroNPC
          <6>6. a[19] = Open(R17, Other, S, G)
            BY <1>6, <6>3, <6>4, <6>5, TestOther, JzNotTaken
          <6>7. a[22] = Open(R21, Junk, S, G)
            BY <1>6, <6>2, <6>3, <6>6, ClobberStep, MovStep, LabelPassed
          <6>8. Redirected(w, w.base) = "source"
            BY <2>6, <5>7, <5>9 DEF Redirected
          <6>9. RedirectedRegs(w, R, R21, r, b, t, k, m)
            BY <5>2, <6>2, <6>8, PutTyped, PutSame, PutOther DEF RedirectedRegs, Apart
          <6> QED BY <1>1, <1>5, <6>7, <6>9
        <5> QED BY <5>7, <5>8, <5>9
      <4> QED BY <4>5, <4>6
    <3> QED BY <3>5, <3>6
  <2> QED BY <2>5, <2>6
<1> QED BY <1>11, <1>12

-----------------------------------------------------------------------------
(* The thunks of the base reads and of the geometry lookup.                *)

\* The registers a base read works in are four, and none is its result.
LEMMA ScratchApart ==
  ASSUME NEW r \in Registers, NEW s, s = SelectScratchRegisters(r)
  PROVE  IsSeq(s) /\ Len(s) = 4 /\ Apart(r, s[1], s[2], s[3], s[4])
<1> DEFINE c == <<"rax", "rcx", "rdx", "r10", "r11">>
           Passed(k) == r \in {c[j] : j \in 1 .. k}
<1>1. s = [k \in 1 .. 4 |-> c[IF Passed(k) THEN k + 1 ELSE k]]
  BY Zenon DEF SelectScratchRegisters
<1>2. /\ Passed(1) <=> r \in {"rax"}
      /\ Passed(2) <=> r \in {"rax", "rcx"}
      /\ Passed(3) <=> r \in {"rax", "rcx", "rdx"}
      /\ Passed(4) <=> r \in {"rax", "rcx", "rdx", "r10"}
  <2>1. 1 .. 1 = {1} /\ 1 .. 2 = {1, 2} /\ 1 .. 3 = {1, 2, 3} /\ 1 .. 4 = {1, 2, 3, 4}
    OBVIOUS
  <2>2. c[1] = "rax" /\ c[2] = "rcx" /\ c[3] = "rdx" /\ c[4] = "r10"
    OBVIOUS
  <2> HIDE DEF c
  <2> QED BY <2>1, <2>2
<1>3. s[1] = (IF r = "rax" THEN "rcx" ELSE "rax")
  BY <1>1, <1>2
<1>4. s[2] = (IF r \in {"rax", "rcx"} THEN "rdx" ELSE "rcx")
  BY <1>1, <1>2
<1>5. s[3] = (IF r \in {"rax", "rcx", "rdx"} THEN "r10" ELSE "rdx")
  BY <1>1, <1>2
<1>6. s[4] = (IF r \in {"rax", "rcx", "rdx", "r10"} THEN "r11" ELSE "r10")
  BY <1>1, <1>2
<1>7. IsSeq(s) /\ Len(s) = 4
  <2>1. DOMAIN s = 1 .. 4 /\ s = [k \in 1 .. 4 |-> s[k]] /\ 4 \in Nat
    BY <1>1
  <2> QED BY <2>1, FunctionIsSeq
<1>8. Apart(r, s[1], s[2], s[3], s[4])
  BY <1>3, <1>4, <1>5, <1>6 DEF Apart, Registers
<1> QED BY <1>7, <1>8

\* BaseReadThunk returns with the promised NPC in the result and nothing else changed.
LEMMA BaseReadRun ==
  ASSUME NEW w, NEW R, NEW F, NEW S, NEW G, NEW site, IsRegs(R), IsSeq(S), Head(S) = ReturnAddress,
         site.result \in Registers, R[site.actor] = Word("actor"),
         w.binding \in {"absent", "inactive", "active"}
  PROVE  Run(w, Open(R, F, S, G), BaseReadThunk(site)) =
           Gone(Put(R, site.result, NPC(Redirected(w, w.base))), F, Tail(S), "site", G)
<1>1. PICK U, s, r, R1 : /\ U = Onto(F, S) /\ s = SelectScratchRegisters(site.result) /\ r = site.result
                         /\ R1 = Put(R, r, NPC(Redirected(w, w.base)))
  OBVIOUS
<1>2. PICK A, C, M : /\ A = <<Plain("pushfq")>> /\ C = << Plain("popfq"), Plain("ret") >>
                     /\ M = Redirection(r, site.actor, s[1], s[2], s[3], s[4])
  OBVIOUS
<1>3. BaseReadThunk(site) = A \o PushAll(s) \o M \o PopAll(Reverse(s)) \o C
  BY <1>1, <1>2, Zenon DEF BaseReadThunk, Redirection
<1>4. IsSeq(s) /\ Len(s) = 4 /\ Apart(r, s[1], s[2], s[3], s[4])
  BY <1>1, ScratchApart
<1>5. IsSeq(U) /\ Head(U) = F /\ Tail(U) = S
  BY <1>1, PushedOne
<1>6. IsSeq(M)
  BY <1>2, RedirectionCode
<1>7. PICK T : T = Saved(R, s, U)
  OBVIOUS
<1>8. PICK Q, H : /\ RedirectedRegs(w, R, Q, r, s[1], s[2], s[3], s[4])
                  /\ Run(w, Open(R, F, T, G), M) = Open(Q, H, T, G)
  BY <1>1, <1>2, <1>4, RedirectionRun
<1>9. PutBack(R, s, Q) = R1
  <2>1. \A x \in Registers : (\E k \in 1 .. Len(s) : s[k] = x) <=> x \in {s[1], s[2], s[3], s[4]}
    BY <1>4
  <2>2. ASSUME NEW x \in Registers PROVE PutBack(R, s, Q)[x] = R1[x]
    BY <1>1, <1>4, <1>8, <2>1, PutSame, PutOther DEF Apart, PutBack, RedirectedRegs
  <2>3. R1 = [x \in Registers |-> R1[x]]
    BY <1>1, PutTyped DEF IsRegs
  <2> QED BY <2>2, <2>3 DEF PutBack
<1>10. IsSeq(A) /\ Run(w, Open(R, F, S, G), A) = Open(R, F, U, G)
  <2>1. IsSeq(A) /\ Len(A) = 1 /\ A[1] = Plain("pushfq")
    <3>1. A \in Seq({Plain("pushfq")})
      BY <1>2
    <3> QED BY <1>2, <3>1 DEF IsSeq
  <2>2. PICK a : Leads(w, Open(R, F, S, G), A, 1, a)
    BY <2>1, RunIs
  <2>3. /\ a[0] = Open(R, F, S, G) /\ Run(w, Open(R, F, S, G), A) = a[1]
        /\ a[1] = Execute(w, a[0], Plain("pushfq"))
    BY <2>1, <2>2 DEF Leads
  <2> QED BY <1>1, <2>1, <2>3, PushFlagsStep
<1>11. IsSeq(C) /\ Run(w, Open(R1, H, U, G), C) = Gone(R1, F, Tail(S), "site", G)
  <2>1. IsSeq(C) /\ Len(C) = 2 /\ C[1] = Plain("popfq") /\ C[2] = Plain("ret")
    <3>1. C \in Seq({Plain("popfq"), Plain("ret")})
      BY <1>2
    <3> QED BY <1>2, <3>1 DEF IsSeq
  <2>2. PICK a : Leads(w, Open(R1, H, U, G), C, 2, a)
    BY <2>1, RunIs
  <2>3. /\ a[0] = Open(R1, H, U, G) /\ Run(w, Open(R1, H, U, G), C) = a[2]
        /\ a[1] = Execute(w, a[0], Plain("popfq")) /\ a[2] = Execute(w, a[1], Plain("ret"))
    BY <2>1, <2>2 DEF Leads
  <2>4. Execute(w, Open(R1, H, U, G), Plain("popfq")) = Open(R1, F, S, G)
    <3>1. Execute(w, Open(R1, H, U, G), Plain("popfq")) = Open(R1, Head(U), Tail(U), G)
      BY PopFlagsStep
    <3> QED BY <1>5, <3>1, Zenon
  <2> QED BY <2>1, <2>3, <2>4, RetStep
<1>12. PICK P : P = A \o PushAll(s) \o M \o PopAll(Reverse(s))
  OBVIOUS
<1>13. IsSeq(P) /\ Run(w, Open(R, F, S, G), P) = Open(R1, H, U, G)
  <2>1. IsRegs(Q)
    BY <1>8 DEF RedirectedRegs
  <2> QED BY <1>4, <1>5, <1>6, <1>7, <1>8, <1>9, <1>10, <1>12, <2>1, SavesAfter
<1>14. Run(w, Open(R, F, S, G), P \o C) = Gone(R1, F, Tail(S), "site", G)
  BY <1>11, <1>13, RunConcat
<1> QED BY <1>1, <1>3, <1>12, <1>14, Zenon

\* GeometryLookupTelemetryThunk calls the engine's function with the arguments it was
\* given, and returns with the function's result.
LEMMA GeometryRun ==
  ASSUME NEW w, NEW R, NEW F, NEW S, NEW G, IsRegs(R), IsSeq(S), Len(S) % 2 = 1,
         Head(S) = ReturnAddress, R["r12"] = Word("actor")
  PROVE  \E Q, H : /\ Run(w, Open(R, F, S, G), GeometryLookupTelemetryThunk) =
                        Gone(Q, H, Tail(S), "site", Noted(R))
                   /\ Q["rax"] = Value("result", "virtual")
                   /\ \A r \in Registers \ Volatile : Q[r] = R[r]
<1>1. PICK C : C = GeometryLookupTelemetryThunk
  OBVIOUS
<1>2. /\ Len(C) = 21
      /\ C[1] = Push("rcx") /\ C[2] = Push("rdx") /\ C[3] = Sub(5) /\ C[4] = Call("virtual") /\ C[5] = Add(5)
      /\ C[6] = Pop("r11") /\ C[7] = Pop("r10") /\ C[8] = Clobber("rcx") /\ C[9] = Clobber("rdx")
      /\ C[10] = Clobber("r10") /\ C[11] = Test("rax") /\ C[12] = Jnz("recordBase")
      /\ C[13] = Clobber("r10") /\ C[14] = Label("recordBase") /\ C[15] = Load("r10", "r12", "npc")
      /\ C[16] = Test("r10") /\ C[17] = Jz("done") /\ C[18] = Load("r10", "r10", "formID")
      /\ C[19] = Clobber("r11") /\ C[20] = Label("done") /\ C[21] = Plain("ret")
  BY <1>1 DEF GeometryLookupTelemetryThunk
<1>3. PICK a : Leads(w, Open(R, F, S, G), C, 21, a)
  BY <1>2, RunIs
<1>4. /\ a[0] = Open(R, F, S, G) /\ Run(w, Open(R, F, S, G), C) = a[21]
      /\ a[1] = Execute(w, a[0], Push("rcx")) /\ a[2] = Execute(w, a[1], Push("rdx"))
      /\ a[3] = Execute(w, a[2], Sub(5)) /\ a[4] = Execute(w, a[3], Call("virtual"))
      /\ a[5] = Execute(w, a[4], Add(5)) /\ a[6] = Execute(w, a[5], Pop("r11"))
      /\ a[7] = Execute(w, a[6], Pop("r10")) /\ a[8] = Execute(w, a[7], Clobber("rcx"))
      /\ a[9] = Execute(w, a[8], Clobber("rdx")) /\ a[10] = Execute(w, a[9], Clobber("r10"))
  BY <1>2, <1>3 DEF Leads
<1>5. /\ a[11] = Execute(w, a[10], Test("rax")) /\ a[12] = Execute(w, a[11], Jnz("recordBase"))
      /\ a[13] = Execute(w, a[12], Clobber("r10")) /\ a[14] = Execute(w, a[13], Label("recordBase"))
      /\ a[15] = Execute(w, a[14], Load("r10", "r12", "npc")) /\ a[16] = Execute(w, a[15], Test("r10"))
      /\ a[17] = Execute(w, a[16], Jz("done")) /\ a[18] = Execute(w, a[17], Load("r10", "r10", "formID"))
      /\ a[19] = Execute(w, a[18], Clobber("r11")) /\ a[20] = Execute(w, a[19], Label("done"))
      /\ a[21] = Execute(w, a[20], Plain("ret"))
  BY <1>2, <1>3 DEF Leads
<1>6. PICK U, V : U = Onto(R["rcx"], S) /\ V = Onto(R["rdx"], U)
  OBVIOUS
<1>7. IsSeq(U) /\ Len(U) = Len(S) + 1 /\ Len(S) \in Nat /\ Head(U) = R["rcx"] /\ Tail(U) = S
  BY <1>6, PushedOne
<1>8. IsSeq(V) /\ Len(V) = Len(U) + 1 /\ Head(V) = R["rdx"] /\ Tail(V) = U
  BY <1>6, <1>7, PushedOne
<1>9. a[3] = Open(R, Junk, Space(5, V), G)
  BY <1>4, <1>6, PushStep, SubStep
<1>10. PICK R4 : R4 = AfterCall(R, Value("result", "virtual"))
  OBVIOUS
<1>11. a[4] = Open(R4, Junk, Space(5, V), Noted(R))
  <2>1. Len(V) = Len(S) + 2
    BY <1>7, <1>8
  <2>2. (5 + Len(V)) % 2 = 0 /\ 5 \in Nat /\ 5 >= ShadowWords
    BY <1>7, <2>1 DEF ShadowWords
  <2>3. Execute(w, Open(R, Junk, Space(5, V), G), Call("virtual")) =
          Open(AfterCall(R, Answer(w, R["rcx"], "virtual")), Junk, Space(5, V), Given(R, G, "virtual"))
    BY <1>8, <2>2, CallInShadow
  <2>4. Given(R, G, "virtual") = Noted(R)
    BY DEF Given
  <2> QED BY <1>4, <1>9, <1>10, <2>3, <2>4, Answers
<1>12. a[5] = Open(R4, Junk, V, Noted(R))
  BY <1>4, <1>8, <1>11, ReleaseStep
<1>13. PICK R6, R7 : R6 = Put(R4, "r11", R["rdx"]) /\ R7 = Put(R6, "r10", R["rcx"])
  OBVIOUS
<1>14. a[6] = Open(R6, Junk, U, Noted(R))
  <2>1. Execute(w, Open(R4, Junk, V, Noted(R)), Pop("r11")) =
          Open(Put(R4, "r11", Head(V)), Junk, Tail(V), Noted(R))
    BY PopStep
  <2> QED BY <1>4, <1>8, <1>12, <1>13, <2>1, Zenon
<1>15. a[7] = Open(R7, Junk, S, Noted(R))
  <2>1. Execute(w, Open(R6, Junk, U, Noted(R)), Pop("r10")) =
          Open(Put(R6, "r10", Head(U)), Junk, Tail(U), Noted(R))
    BY PopStep
  <2> QED BY <1>4, <1>7, <1>13, <1>14, <2>1, Zenon
<1>16. PICK R10 : R10 = Put(Put(Put(R7, "rcx", Junk), "rdx", Junk), "r10", Junk)
  OBVIOUS
<1>17. a[10] = Open(R10, Junk, S, Noted(R))
  BY <1>4, <1>15, <1>16, ClobberStep
<1>18. /\ IsRegs(R10) /\ R10["rax"] = Value("result", "virtual")
       /\ \A r \in Registers \ Volatile : R10[r] = R[r]
  BY <1>10, <1>13, <1>16 DEF IsRegs, Put, AfterCall, Registers, Volatile
<1>19. a[12] = Heading(R10, Other, S, "recordBase", Noted(R))
  BY <1>5, <1>17, <1>18, ZeroResult, TestOther, JnzTaken
<1>20. a[14] = Open(R10, Other, S, Noted(R))
  <2>1. Named("recordBase") /\ Clobber("r10") # Label("recordBase")
    BY Zenon DEF Named, Clobber, Label, Ins
  <2> QED BY <1>5, <1>19, <2>1, Skipped, LabelReached
<1>21. PICK R15 : R15 = Put(R10, "r10", NPC(w.base))
  OBVIOUS
<1>22. a[15] = Open(R15, Other, S, Noted(R))
  <2>1. R10["r12"] = Word("actor")
    BY <1>18 DEF Registers, Volatile
  <2> QED BY <1>5, <1>20, <1>21, <2>1, LoadStep, NotNull, FieldOfActor
<1>23. R15["r10"] = NPC(w.base)
  BY <1>18, <1>21, PutSame DEF Registers
<1>24. CASE w.base = "null"
  <2>1. a[17] = Heading(R15, Zero, S, "done", Noted(R))
    BY <1>5, <1>22, <1>23, <1>24, ZeroNPC, TestZero, JzTaken
  <2>2. Named("done") /\ Clobber("r11") # Label("done") /\ Load("r10", "r10", "formID") # Label("done")
    <3>1. Load("r10", "r10", "formID").op = "load" /\ Label("done").op = "label"
      BY Zenon DEF Load, Label, Ins
    <3> QED BY <3>1, Zenon DEF Named, Clobber, Label, Ins
  <2>3. a[20] = Open(R15, Zero, S, Noted(R))
    BY <1>5, <2>1, <2>2, Skipped, LabelReached
  <2>4. a[21] = Gone(R15, Zero, Tail(S), "site", Noted(R))
    BY <1>5, <2>3, RetStep
  <2>5. R15["rax"] = Value("result", "virtual") /\ \A r \in Registers \ Volatile : R15[r] = R[r]
    BY <1>18, <1>21 DEF IsRegs, Put, Registers, Volatile
  <2> QED BY <1>1, <1>4, <2>4, <2>5
<1>25. CASE w.base # "null"
  <2>1. a[17] = Open(R15, Other, S, Noted(R))
    BY <1>5, <1>22, <1>23, <1>25, ZeroNPC, TestOther, JzNotTaken
  <2>2. PICK R19 : R19 = Put(Put(R15, "r10", FormID(w.base)), "r11", Junk)
    OBVIOUS
  <2>3. a[20] = Open(R19, Junk, S, Noted(R))
    BY <1>5, <1>23, <1>25, <2>1, <2>2, SameNPC, FieldOfNPC, LoadStep, ClobberStep, LabelPassed
  <2>4. a[21] = Gone(R19, Junk, Tail(S), "site", Noted(R))
    BY <1>5, <2>3, RetStep
  <2>5. R19["rax"] = Value("result", "virtual") /\ \A r \in Registers \ Volatile : R19[r] = R[r]
    BY <1>18, <1>21, <2>2 DEF IsRegs, Put, Registers, Volatile
  <2> QED BY <1>1, <1>4, <2>4, <2>5
<1> QED BY <1>24, <1>25

-----------------------------------------------------------------------------
(* Sites: the processor as the engine arrives and as it goes on.           *)

\* What a processor is made of.
LEMMA CpuFields ==
  ASSUME NEW R, NEW F, NEW S, NEW s, NEW l, NEW G, NEW c, c = Cpu(R, F, S, s, l, G)
  PROVE  /\ c.regs = R /\ c.flags = F /\ c.stack = S /\ c.aligned = TRUE /\ c.left = l /\ c.given = G
BY DEF Cpu

\* A processor with another stack, place or register.  (Under a condition, the
\* prover reduces the record.)
LEMMA CpuMoved ==
  ASSUME NEW R, NEW F, NEW S, NEW s, NEW l, NEW G, NEW T
  PROVE  [Cpu(R, F, S, s, l, G) EXCEPT !.stack = T] = Cpu(R, F, T, s, l, G)
<1>1. (IF T = T THEN [Cpu(R, F, S, s, l, G) EXCEPT !.stack = T] ELSE T) = Cpu(R, F, T, s, l, G)
  BY Zenon DEF Cpu
<1> QED BY <1>1, Zenon

\* Another place that the code has left for.
LEMMA CpuLeft ==
  ASSUME NEW R, NEW F, NEW S, NEW s, NEW l, NEW G, NEW m
  PROVE  [Cpu(R, F, S, s, l, G) EXCEPT !.left = m] = Cpu(R, F, S, s, m, G)
<1>1. (IF m = m THEN [Cpu(R, F, S, s, l, G) EXCEPT !.left = m] ELSE m) = Cpu(R, F, S, s, m, G)
  BY Zenon DEF Cpu
<1> QED BY <1>1, Zenon

\* Another value of a register.
LEMMA CpuPut ==
  ASSUME NEW R, NEW F, NEW S, NEW s, NEW l, NEW G, NEW r, NEW v
  PROVE  [Cpu(R, F, S, s, l, G) EXCEPT !.regs[r] = v] = Cpu(Put(R, r, v), F, S, s, l, G)
<1>1. (IF r = r THEN [Cpu(R, F, S, s, l, G) EXCEPT !.regs[r] = v] ELSE r) = Cpu(Put(R, r, v), F, S, s, l, G)
  BY Zenon DEF Cpu, Put
<1> QED BY <1>1, Zenon

\* A processor with two registers replaced.
PutTwo(c, r, v, q, u) == [c EXCEPT !.regs[r] = v, !.regs[q] = u]

\* It has those registers, and the rest as it was.
LEMMA CpuPutTwo ==
  ASSUME NEW R, NEW F, NEW S, NEW s, NEW l, NEW G, NEW r, NEW v, NEW q, NEW u
  PROVE  PutTwo(Cpu(R, F, S, s, l, G), r, v, q, u) = Cpu(Put(Put(R, r, v), q, u), F, S, s, l, G)
<1>1. (IF r = r THEN PutTwo(Cpu(R, F, S, s, l, G), r, v, q, u) ELSE r)
        = Cpu(Put(Put(R, r, v), q, u), F, S, s, l, G)
  BY Zenon DEF Cpu, Put, PutTwo
<1> QED BY <1>1, Zenon

\* The registers as the engine reaches a site, and the arguments of no call.
StartRegs(w, site) ==
  [r \in Registers |-> IF r = site.actor THEN Value("actor", "")
                       ELSE IF r = "rsi" /\ site.kind \notin {"baseRead", "geometryLookup"}
                            THEN NPC(w.npc) ELSE In(r)]
NoneGiven == [r \in Arguments |-> Junk]
Entered == Onto(ReturnAddress, Frame)
NoPlace == ""

\* The engine arrives at a site on its own stack frame.
LEMMA ArrivingIs ==
  ASSUME NEW w, NEW site
  PROVE  /\ IsRegs(StartRegs(w, site))
         /\ Arriving(w, site) = Open(StartRegs(w, site), In("flags"), Frame, NoneGiven)
<1>1. IsRegs(StartRegs(w, site))
  BY DEF IsRegs, StartRegs
<1>2. Arriving(w, site) = Open(StartRegs(w, site), In("flags"), Frame, NoneGiven)
  BY Zenon DEF Arriving, Open, Cpu, StartRegs, NoneGiven
<1> QED BY <1>1, <1>2

\* The frame is aligned and has the shadow space; the word that a call pushes makes its
\* length odd.
LEMMA FrameLaws ==
  /\ IsSeq(Frame) /\ Len(Frame) = 6 /\ Shadow(Frame) = Frame
  /\ IsSeq(Entered) /\ Len(Entered) % 2 = 1 /\ Head(Entered) = ReturnAddress /\ Tail(Entered) = Frame
<1>1. PICK S : S = <<Value("frame", "1"), Value("frame", "2")>>
  OBVIOUS
<1>2. IsSeq(S) /\ Len(S) = 2
  <2>1. S \in Seq({Value("frame", "1"), Value("frame", "2")})
    BY <1>1
  <2> QED BY <1>1, <2>1 DEF IsSeq
<1>3. Frame = Space(4, S)
  BY <1>1 DEF Frame, Space, ShadowWords
<1>4. IsSeq(Frame) /\ Len(Frame) = 6 /\ Shadow(Frame) = Frame
  <2>1. IsSeq(Space(4, S)) /\ Len(Space(4, S)) = 4 + Len(S) /\ Shadow(Space(4, S)) = Space(4, S)
    <3>1. 4 \in Nat /\ 4 >= ShadowWords
      BY DEF ShadowWords
    <3>2. IsSeq(S)
      BY <1>2
    <3> QED BY <3>1, <3>2, SpaceLaws
  <2>2. 4 + Len(S) = 6
    BY <1>2
  <2> QED BY <1>3, <2>1, <2>2, Zenon
<1>5. /\ IsSeq(Entered) /\ Len(Entered) = Len(Frame) + 1
      /\ Head(Entered) = ReturnAddress /\ Tail(Entered) = Frame
  <2>1. IsSeq(Frame)
    BY <1>4
  <2> QED BY <2>1, PushedOne, Zenon DEF Entered
<1>6. Len(Entered) % 2 = 1
  BY <1>4, <1>5
<1> QED BY <1>4, <1>5, <1>6

\* The run of a patched site.
LEMMA PatchedRun ==
  ASSUME NEW w, NEW site, NEW Q, NEW H, NEW S, NEW G, NEW place,
         Run(w, Open(StartRegs(w, site), In("flags"), Entered, NoneGiven), Thunk(site)) =
           Gone(Q, H, S, place, G)
  PROVE  RunPatched(w, site) = Gone(Q, H, S, IF place = "site" THEN NoPlace ELSE place, G)
<1>1. PICK none, cpu, T, R, done :
        /\ none = "" /\ cpu = Arriving(w, site) /\ T = Entered /\ R = StartRegs(w, site)
        /\ done = Gone(Q, H, S, place, G)
  OBVIOUS
<1>2. cpu = Cpu(R, In("flags"), Frame, none, none, NoneGiven)
  BY <1>1, ArrivingIs, Zenon DEF Open
<1>3. T = <<ReturnAddress>> \o cpu.stack
  <2>1. cpu.stack = Frame
    BY <1>2 DEF Cpu
  <2>2. T = <<ReturnAddress>> \o Frame
    BY <1>1, Zenon DEF Entered, Onto
  <2> QED BY <2>1, <2>2, Zenon
<1>4. [cpu EXCEPT !.stack = T] = Cpu(R, In("flags"), T, none, none, NoneGiven)
  BY <1>2, CpuMoved
<1>5. [cpu EXCEPT !.stack = <<ReturnAddress>> \o cpu.stack] = Open(R, In("flags"), T, NoneGiven)
  BY <1>1, <1>3, <1>4, Zenon DEF Open
<1>6. PICK m : m = IF done.left = "site" THEN "" ELSE done.left
  OBVIOUS
<1>7. RunPatched(w, site) = [done EXCEPT !.left = m]
  BY <1>1, <1>5, <1>6, Zenon DEF RunPatched
<1>8. done = Cpu(Q, H, S, none, place, G)
  BY <1>1, Zenon DEF Gone
<1>9. done.left = place /\ [done EXCEPT !.left = m] = Cpu(Q, H, S, none, m, G)
  <2>1. done.left = place
    BY <1>8 DEF Cpu
  <2>2. [done EXCEPT !.left = m] = Cpu(Q, H, S, none, m, G)
    BY <1>8, CpuLeft
  <2> QED BY <2>1, <2>2
<1>10. RunPatched(w, site) = Gone(Q, H, S, m, G)
  BY <1>1, <1>7, <1>9, Zenon DEF Gone
<1>11. m = IF place = "site" THEN NoPlace ELSE place
  BY <1>6, <1>9, Zenon DEF NoPlace
<1> QED BY <1>10, <1>11, Zenon

\* What the tables say of a base read.
LEMMA BaseReadSite ==
  ASSUME NEW site, site.kind = "baseRead"
  PROVE  /\ Thunk(site) = BaseReadThunk(site) /\ Stolen(site) = <<Load(site.result, site.actor, "npc")>>
         /\ Observable(site) = Registers /\ FlagsMatter(site) = TRUE
<1>1. Thunk(site) = BaseReadThunk(site)
  BY Zenon DEF Thunk
<1>2. Stolen(site) = <<Load(site.result, site.actor, "npc")>>
  BY Zenon DEF Stolen
<1>3. Observable(site) = Registers
  BY Zenon DEF Observable
<1>4. FlagsMatter(site) = TRUE
  BY DEF FlagsMatter
<1> QED BY <1>1, <1>2, <1>3, <1>4

\* What they say of the geometry lookup.
LEMMA GeometrySite ==
  ASSUME NEW site, site.kind = "geometryLookup"
  PROVE  /\ Thunk(site) = GeometryLookupTelemetryThunk /\ Stolen(site) = <<Call("virtual")>>
         /\ Observable(site) = (Registers \ Volatile) \cup {"rax"} /\ FlagsMatter(site) = FALSE
<1>1. Thunk(site) = GeometryLookupTelemetryThunk
  BY Zenon DEF Thunk
<1>2. Stolen(site) = <<Call("virtual")>>
  BY Zenon DEF Stolen
<1>3. Observable(site) = (Registers \ Volatile) \cup {"rax"}
  BY Zenon DEF Observable
<1>4. FlagsMatter(site) = FALSE
  BY DEF FlagsMatter
<1> QED BY <1>1, <1>2, <1>3, <1>4

\* The promise of each kind
LEMMA BaseReadPromise ==
  ASSUME NEW w, NEW site, site.kind = "baseRead"
  PROVE  Promised(w, site) = [RunOriginal(w, site) EXCEPT !.regs[site.result] = NPC(Redirected(w, w.base))]
BY Zenon DEF Promised

\* The geometry lookup promises the engine's own call.
LEMMA GeometryPromise ==
  ASSUME NEW w, NEW site, site.kind = "geometryLookup"
  PROVE  Promised(w, site) = RunOriginal(w, site)
BY Zenon DEF Promised

\* The NPC that the thunk of a texture site puts in place.
Substitute(w, site) ==
  IF site.kind = "formIDThenLookup" THEN RuntimeBase(w, w.npc) ELSE FaceTextureIdentity(w, w.npc)

\* The world with another NPC in rsi.
WithNPC(w, n) == [w EXCEPT !.npc = n]

\* A texture site promises the stolen instructions on the substitute, with rsi put back
\* and the owner index of an NPC without an owner replaced by 0.
LEMMA TexturePromise ==
  ASSUME NEW w, NEW site, site.kind # "baseRead", site.kind # "geometryLookup",
         NEW sub, sub = RunOriginal(WithNPC(w, Substitute(w, site)), site),
         NEW rdx, rdx = IF site.kind = "compositeOwnerIndex" /\ sub.regs["rdx"] = Value("ownerIndex", "FFFF")
                        THEN Word("0") ELSE sub.regs["rdx"]
  PROVE  Promised(w, site) = PutTwo(sub, "rsi", RunOriginal(w, site).regs["rsi"], "rdx", rdx)
BY Zenon DEF Promised, Substitute, Word, WithNPC, PutTwo

\* The stolen instructions run on the engine's frame.
LEMMA RunOriginalIs ==
  ASSUME NEW w, NEW site
  PROVE  RunOriginal(w, site) = Run(w, Open(StartRegs(w, site), In("flags"), Frame, NoneGiven), Stolen(site))
BY ArrivingIs, Zenon DEF RunOriginal

\* Runs of one, two and three instructions.
LEMMA RunOne ==
  ASSUME NEW w, NEW c, NEW i
  PROVE  Run(w, c, <<i>>) = Execute(w, c, i)
<1>1. PICK C : C = <<i>>
  OBVIOUS
<1>2. Len(C) = 1 /\ C[1] = i
  BY <1>1
<1>3. PICK a : Leads(w, c, C, 1, a)
  BY <1>2, RunIs
<1>4. a[0] = c /\ a[1] = Execute(w, a[0], i) /\ Run(w, c, C) = a[1]
  BY <1>2, <1>3 DEF Leads
<1> QED BY <1>1, <1>4

\* Two instructions.
LEMMA RunTwo ==
  ASSUME NEW w, NEW c, NEW i, NEW j
  PROVE  Run(w, c, <<i, j>>) = Execute(w, Execute(w, c, i), j)
<1>1. PICK C : C = <<i, j>>
  OBVIOUS
<1>2. Len(C) = 2 /\ C[1] = i /\ C[2] = j
  BY <1>1
<1>3. PICK a : Leads(w, c, C, 2, a)
  BY <1>2, RunIs
<1>4. a[0] = c /\ a[1] = Execute(w, a[0], i) /\ a[2] = Execute(w, a[1], j) /\ Run(w, c, C) = a[2]
  BY <1>2, <1>3 DEF Leads
<1> QED BY <1>1, <1>4

\* Three instructions.
LEMMA RunThree ==
  ASSUME NEW w, NEW c, NEW i, NEW j, NEW k
  PROVE  Run(w, c, <<i, j, k>>) = Execute(w, Execute(w, Execute(w, c, i), j), k)
<1>1. PICK C : C = <<i, j, k>>
  OBVIOUS
<1>2. Len(C) = 3 /\ C[1] = i /\ C[2] = j /\ C[3] = k
  BY <1>1
<1>3. PICK a : Leads(w, c, C, 3, a)
  BY <1>2, RunIs
<1>4. /\ a[0] = c /\ a[1] = Execute(w, a[0], i) /\ a[2] = Execute(w, a[1], j)
      /\ a[3] = Execute(w, a[2], k) /\ Run(w, c, C) = a[3]
  BY <1>2, <1>3 DEF Leads
<1> QED BY <1>1, <1>4

\* A patched site against its promise, once both are known.
LEMMA Compared ==
  ASSUME NEW w, NEW site, NEW Q, NEW H, NEW P, NEW F, NEW S, NEW G, NEW place,
         RunPatched(w, site) = Gone(Q, H, S, place, G),
         Promised(w, site) = Gone(P, F, S, place, G),
         \A r \in Observable(site) : Q[r] = P[r],
         FlagsMatter(site) => H = F
  PROVE  RunPatched(w, site).aligned /\ Indistinguishable(site, RunPatched(w, site), Promised(w, site))
<1>1. PICK none, got, want : none = "" /\ got = RunPatched(w, site) /\ want = Promised(w, site)
  OBVIOUS
<1>2. got = Cpu(Q, H, S, none, place, G) /\ want = Cpu(P, F, S, none, place, G)
  BY <1>1, Zenon DEF Gone
<1>3. /\ got.regs = Q /\ got.flags = H /\ got.stack = S /\ got.aligned = TRUE
      /\ got.left = place /\ got.given = G
      /\ want.regs = P /\ want.flags = F /\ want.stack = S /\ want.left = place /\ want.given = G
  BY <1>2 DEF Cpu
<1>4. got.aligned /\ Indistinguishable(site, got, want)
  BY <1>3 DEF Indistinguishable
<1> QED BY <1>1, <1>4

-----------------------------------------------------------------------------
(* The contract of each kind of site.                                      *)

\* The contract, for a site in a world.
Honoured(w, site) ==
  /\ RunPatched(w, site).aligned
  /\ Indistinguishable(site, RunPatched(w, site), Promised(w, site))

\* The register of the actor holds the actor.
LEMMA StartAt ==
  ASSUME NEW w, NEW site, site.actor \in Registers
  PROVE  StartRegs(w, site)[site.actor] = Word("actor")
<1>1. Word("actor") = Value("actor", "")
  BY Zenon DEF Word
<1>2. \A r \in Registers : StartRegs(w, site)[r] =
        IF r = site.actor THEN Value("actor", "")
        ELSE IF r = "rsi" /\ site.kind \notin {"baseRead", "geometryLookup"} THEN NPC(w.npc) ELSE In(r)
  BY Zenon DEF StartRegs
<1>3. StartRegs(w, site)[site.actor] = Value("actor", "")
  BY <1>2, Zenon
<1> QED BY <1>1, <1>3, Zenon

\* A patched site whose thunk returns, and one whose thunk leaves for a function.
LEMMA PatchedReturns ==
  ASSUME NEW w, NEW site, NEW R, NEW F, NEW Q, NEW H, NEW S, NEW G,
         R = StartRegs(w, site), F = In("flags"),
         Run(w, Open(R, F, Entered, NoneGiven), Thunk(site)) = Gone(Q, H, S, "site", G)
  PROVE  RunPatched(w, site) = Gone(Q, H, S, NoPlace, G)
BY PatchedRun

\* A patched site whose thunk leaves for a function of the engine.
LEMMA PatchedLeaves ==
  ASSUME NEW w, NEW site, NEW R, NEW F, NEW Q, NEW H, NEW S, NEW G, NEW place,
         R = StartRegs(w, site), F = In("flags"), place # "site",
         Run(w, Open(R, F, Entered, NoneGiven), Thunk(site)) = Gone(Q, H, S, place, G)
  PROVE  RunPatched(w, site) = Gone(Q, H, S, place, G)
BY PatchedRun

\* The contract of the base reads.
LEMMA BaseReadHonoured ==
  ASSUME NEW w, NEW site, site.kind = "baseRead", site.actor \in Registers, site.result \in Registers,
         w.binding \in {"absent", "inactive", "active"}
  PROVE  Honoured(w, site)
<1>0. PICK none : none = NoPlace
  OBVIOUS
<1>1. PICK R, F, r, P : /\ R = StartRegs(w, site) /\ F = In("flags") /\ r = site.result
                              /\ P = Put(R, r, NPC(Redirected(w, w.base)))
  OBVIOUS
<1>2. IsRegs(R) /\ R[site.actor] = Word("actor")
  BY <1>1, ArrivingIs, StartAt
<1>3. Run(w, Open(R, F, Entered, NoneGiven), Thunk(site)) = Gone(P, F, Frame, "site", NoneGiven)
  <2>1. Run(w, Open(R, F, Entered, NoneGiven), BaseReadThunk(site)) =
          Gone(P, F, Tail(Entered), "site", NoneGiven)
    BY <1>1, <1>2, FrameLaws, BaseReadRun
  <2> QED BY <2>1, FrameLaws, BaseReadSite
<1>4. RunPatched(w, site) = Gone(P, F, Frame, none, NoneGiven)
  BY <1>0, <1>1, <1>3, PatchedReturns
<1>5. RunOriginal(w, site) = Open(Put(R, r, NPC(w.base)), F, Frame, NoneGiven)
  <2>1. RunOriginal(w, site) = Execute(w, Open(R, F, Frame, NoneGiven), Load(r, site.actor, "npc"))
    BY <1>1, RunOriginalIs, BaseReadSite, RunOne, Zenon
  <2>2. R[site.actor] # NPC("null") /\ Field(w, R[site.actor], "npc") = NPC(w.base)
    BY <1>2, NotNull, FieldOfActor
  <2> QED BY <2>1, <2>2, LoadStep
<1>6. Promised(w, site) = Gone(P, F, Frame, none, NoneGiven)
  <2>1. PICK plain, R1 : plain = RunOriginal(w, site) /\ R1 = Put(R, r, NPC(w.base))
    OBVIOUS
  <2>2. plain = Cpu(R1, F, Frame, none, none, NoneGiven)
    BY <1>0, <1>5, <2>1, Zenon DEF NoPlace, Open
  <2>3. PICK n : n = NPC(Redirected(w, w.base))
    OBVIOUS
  <2>4. [plain EXCEPT !.regs[r] = n] = Cpu(Put(R1, r, n), F, Frame, none, none, NoneGiven)
    BY <2>2, CpuPut
  <2>5. Put(R1, r, n) = P
    BY <1>1, <1>2, <2>1, <2>3 DEF IsRegs, Put
  <2>6. Promised(w, site) = [plain EXCEPT !.regs[r] = n]
    BY <1>1, <2>1, <2>3, BaseReadPromise, Zenon
  <2> QED BY <1>0, <1>1, <2>4, <2>5, <2>6, Zenon DEF NoPlace, Gone
<1> QED BY <1>4, <1>6, Compared DEF Honoured

\* The contract of the geometry lookup.
LEMMA GeometryHonoured ==
  ASSUME NEW w, NEW site, site.kind = "geometryLookup", site.actor = "r12"
  PROVE  Honoured(w, site)
<1>0. PICK none : none = NoPlace
  OBVIOUS
<1>1. PICK R, F, v : /\ R = StartRegs(w, site) /\ F = In("flags")
                           /\ v = Value("result", "virtual")
  OBVIOUS
<1>2. IsRegs(R) /\ R["r12"] = Word("actor")
  <2>1. "r12" \in Registers
    BY DEF Registers
  <2> QED BY <1>1, <2>1, ArrivingIs, StartAt
<1>3. PICK Q, H : /\ Run(w, Open(R, F, Entered, NoneGiven), GeometryLookupTelemetryThunk)
                       = Gone(Q, H, Tail(Entered), "site", Noted(R))
                  /\ Q["rax"] = v /\ \A r \in Registers \ Volatile : Q[r] = R[r]
  <2>1. IsRegs(R) /\ R["r12"] = Word("actor")
    BY <1>2
  <2>2. IsSeq(Entered) /\ Len(Entered) % 2 = 1 /\ Head(Entered) = ReturnAddress
    BY FrameLaws
  <2>3. \E Q, H : /\ Run(w, Open(R, F, Entered, NoneGiven), GeometryLookupTelemetryThunk)
                       = Gone(Q, H, Tail(Entered), "site", Noted(R))
                  /\ Q["rax"] = Value("result", "virtual") /\ \A r \in Registers \ Volatile : Q[r] = R[r]
    BY <2>1, <2>2, GeometryRun
  <2> QED BY <1>1, <2>3
<1>4. RunPatched(w, site) = Gone(Q, H, Frame, none, Noted(R))
  <2>1. Run(w, Open(R, F, Entered, NoneGiven), Thunk(site)) = Gone(Q, H, Frame, "site", Noted(R))
    BY <1>3, FrameLaws, GeometrySite
  <2> QED BY <1>0, <1>1, <2>1, PatchedReturns
<1>5. PICK P : P = AfterCall(R, v)
  OBVIOUS
<1>6. Promised(w, site) = Gone(P, Junk, Frame, none, Noted(R))
  <2>1. Promised(w, site) = Execute(w, Open(R, F, Frame, NoneGiven), Call("virtual"))
    BY <1>1, GeometryPromise, RunOriginalIs, GeometrySite, RunOne, Zenon
  <2>2. IsEven(Frame)
    BY FrameLaws DEF IsEven
  <2>3. Execute(w, Open(R, F, Frame, NoneGiven), Call("virtual")) = Open(P, Junk, Frame, Noted(R))
    <3>1. Answer(w, R["rcx"], "virtual") = v
      BY <1>1, Answers
    <3>2. Given(R, NoneGiven, "virtual") = Noted(R)
      BY DEF Given
    <3>3. Execute(w, Open(R, F, Frame, NoneGiven), Call("virtual")) =
            Open(AfterCall(R, Answer(w, R["rcx"], "virtual")), Junk, Shadow(Frame),
                 Given(R, NoneGiven, "virtual"))
      BY <2>2, CallStep
    <3> QED BY <1>5, <3>1, <3>2, <3>3, FrameLaws, Zenon
  <2> QED BY <1>0, <2>1, <2>3, Zenon DEF NoPlace, Open, Gone
<1>7. \A r \in Observable(site) : Q[r] = P[r]
  <2>1. Observable(site) = (Registers \ Volatile) \cup {"rax"}
    BY GeometrySite
  <2>2. P["rax"] = v /\ \A r \in Registers \ Volatile : P[r] = R[r]
    BY <1>5 DEF AfterCall, Registers, Volatile
  <2> QED BY <1>3, <2>1, <2>2
<1>8. ~FlagsMatter(site)
  BY GeometrySite
<1> QED BY <1>4, <1>6, <1>7, <1>8, Compared DEF Honoured

-----------------------------------------------------------------------------
(* The texture sites.                                                      *)

\* A site of the texture code: it names no registers.
IsTexture(site) == site.kind \in TextureKinds /\ site.actor \notin Registers

\* A world with an NPC in rsi.
IsWorld(w) == w = [base |-> w.base, npc |-> w.npc, operational |-> w.operational, binding |-> w.binding]

\* The engine arrives at a texture site with an NPC in rsi.
LEMMA TextureStart ==
  ASSUME NEW w, IsWorld(w), NEW site, IsTexture(site), NEW n, NEW R, R = StartRegs(w, site)
  PROVE  IsRegs(R) /\ R["rsi"] = NPC(w.npc) /\ StartRegs(WithNPC(w, n), site) = Put(R, "rsi", NPC(n))
<1>1. site.kind \notin {"baseRead", "geometryLookup"} /\ \A r \in Registers : r # site.actor
  BY DEF IsTexture, TextureKinds
<1>2. WithNPC(w, n).npc = n
  BY DEF IsWorld, WithNPC
<1>3. \A u : StartRegs(u, site) = [r \in Registers |-> IF r = "rsi" THEN NPC(u.npc) ELSE In(r)]
  <2>1. TAKE u
  <2>2. PICK A : A = Value("actor", "")
    OBVIOUS
  <2>3. StartRegs(u, site) = [r \in Registers |-> IF r = site.actor THEN A
                       ELSE IF r = "rsi" /\ site.kind \notin {"baseRead", "geometryLookup"}
                            THEN NPC(u.npc) ELSE In(r)]
    BY <2>2, Zenon DEF StartRegs
  <2> QED BY <1>1, <2>3
<1>4. R = [r \in Registers |-> IF r = "rsi" THEN NPC(w.npc) ELSE In(r)]
  BY <1>3
<1>5. StartRegs(WithNPC(w, n), site) = [r \in Registers |-> IF r = "rsi" THEN NPC(n) ELSE In(r)]
  BY <1>2, <1>3
<1> QED BY <1>4, <1>5 DEF IsRegs, Put, Registers

\* What a texture site promises, from the runs of its stolen instructions.
LEMMA TexturePromised ==
  ASSUME NEW w, IsWorld(w), NEW site, IsTexture(site), NEW n, n = Substitute(w, site),
         NEW P, NEW Q, NEW F, NEW H, NEW S, NEW T, NEW G, NEW place, NEW v,
         RunOriginal(w, site) = Gone(Q, F, T, place, G), Q["rsi"] = NPC(w.npc),
         RunOriginal(WithNPC(w, n), site) = Gone(P, H, S, place, G),
         v = IF site.kind = "compositeOwnerIndex" THEN OwnerOf(P["rdx"]) ELSE P["rdx"]
  PROVE  Promised(w, site) = Gone(Put(Put(P, "rsi", NPC(w.npc)), "rdx", v), H, S, place, G)
<1>1. PICK none, sub, plain, rsi : /\ none = NoPlace /\ sub = RunOriginal(WithNPC(w, n), site)
                                   /\ plain = RunOriginal(w, site) /\ rsi = NPC(w.npc)
  OBVIOUS
<1>2. sub = Cpu(P, H, S, none, place, G) /\ plain = Cpu(Q, F, T, none, place, G)
  BY <1>1, Zenon DEF Gone, NoPlace
<1>3. sub.regs = P /\ plain.regs = Q
  BY <1>2 DEF Cpu
<1>4. PutTwo(sub, "rsi", rsi, "rdx", v) = Cpu(Put(Put(P, "rsi", rsi), "rdx", v), H, S, none, place, G)
  <2>1. PutTwo(Cpu(P, H, S, none, place, G), "rsi", rsi, "rdx", v)
          = Cpu(Put(Put(P, "rsi", rsi), "rdx", v), H, S, none, place, G)
    BY CpuPutTwo
  <2> QED BY <1>2, <2>1
<1>5. Promised(w, site) = PutTwo(sub, "rsi", plain.regs["rsi"], "rdx", v)
  <2>1. site.kind # "baseRead" /\ site.kind # "geometryLookup"
    BY DEF IsTexture, TextureKinds
  <2>2. sub = RunOriginal(WithNPC(w, Substitute(w, site)), site)
    BY <1>1
  <2>3. v = IF site.kind = "compositeOwnerIndex" /\ sub.regs["rdx"] = Value("ownerIndex", "FFFF")
            THEN Word("0") ELSE sub.regs["rdx"]
    BY <1>3 DEF OwnerOf
  <2>4. Promised(w, site) = PutTwo(sub, "rsi", RunOriginal(w, site).regs["rsi"], "rdx", v)
    BY <2>1, <2>2, <2>3, TexturePromise
  <2> QED BY <1>1, <2>4
<1>6. plain.regs["rsi"] = rsi
  BY <1>1, <1>3
<1> QED BY <1>1, <1>4, <1>5, <1>6, Zenon DEF Gone, NoPlace

\* Code that runs to its end has left for nowhere.
LEMMA OpenIsGone ==
  ASSUME NEW R, NEW F, NEW S, NEW G
  PROVE  Open(R, F, S, G) = Gone(R, F, S, NoPlace, G)
BY Zenon DEF Open, Gone, NoPlace

\* No resolver turns an NPC into null.
LEMMA NeverNull ==
  ASSUME NEW w, w.npc # "null"
  PROVE  FaceTextureIdentity(w, w.npc) # "null" /\ RuntimeBase(w, w.npc) # "null"
BY DEF FaceTextureIdentity, RuntimeBase

\* The identity that a thunk finds at a texture site, and its fields.
LEMMA IdentityIs ==
  ASSUME NEW w, NEW R, R["rsi"] = NPC(w.npc), NEW n, n = FaceTextureIdentity(w, w.npc)
  PROVE  /\ Identity(w, R) = NPC(n)
         /\ IdentityField(w, R, "formID") = FormID(n)
         /\ IdentityField(w, R, "ownerIndex") = Value("ownerIndex", IF n \in Unowned THEN "FFFF" ELSE n)
<1>1. Identity(w, R) = NPC(n)
  BY Answers DEF Identity
<1> QED BY <1>1, FieldOfNPC DEF IdentityField

\* The instructions of each kind, run on the NPC m.
LoadedFrom(R, m) == IsRegs(R) /\ R["rsi"] = NPC(m) /\ m # "null"

\* The FormID is loaded and masked.
LEMMA StolenMasked ==
  ASSUME NEW w, NEW R, NEW F, NEW S, NEW G, NEW m, LoadedFrom(R, m), NEW v, v = FormID(m)
  PROVE  Run(w, Open(R, F, S, G), <<Load("rdx", "rsi", "formID"), Mov("rbx", "rdx"), And("rbx", "rax")>>)
           = Gone(Put(Put(R, "rdx", v), "rbx", Masked(v, R["rax"])), Masked(v, R["rax"]), S, NoPlace, G)
<1>1. IsRegs(R) /\ R["rsi"] # NPC("null") /\ Field(w, R["rsi"], "formID") = v
  BY SameNPC, FieldOfNPC DEF LoadedFrom
<1>2. PICK R1, R2, R3 : /\ R1 = Put(R, "rdx", v) /\ R2 = Put(R1, "rbx", v)
                        /\ R3 = Put(R1, "rbx", Masked(v, R["rax"]))
  OBVIOUS
<1>3. Execute(w, Open(R, F, S, G), Load("rdx", "rsi", "formID")) = Open(R1, F, S, G)
  BY <1>1, <1>2, LoadStep
<1>4. R1["rdx"] = v /\ R2["rbx"] = v /\ R2["rax"] = R["rax"]
      /\ Put(R2, "rbx", Masked(R2["rbx"], R2["rax"])) = R3
  BY <1>1, <1>2 DEF IsRegs, Put, Registers
<1>5. Execute(w, Open(R1, F, S, G), Mov("rbx", "rdx")) = Open(R2, F, S, G)
  BY <1>2, <1>4, MovStep
<1>6. Execute(w, Open(R2, F, S, G), And("rbx", "rax")) = Open(R3, Masked(v, R["rax"]), S, G)
  BY <1>4, AndStep
<1> QED BY <1>2, <1>3, <1>5, <1>6, RunThree, OpenIsGone

\* The FormID is loaded into rdi and masked.
LEMMA StolenCompositeMasked ==
  ASSUME NEW w, NEW R, NEW F, NEW S, NEW G, NEW m, LoadedFrom(R, m), NEW v, v = FormID(m)
  PROVE  Run(w, Open(R, F, S, G), <<Load("rdi", "rsi", "formID"), And("rdi", "rax")>>)
           = Gone(Put(R, "rdi", Masked(v, R["rax"])), Masked(v, R["rax"]), S, NoPlace, G)
<1>1. IsRegs(R) /\ R["rsi"] # NPC("null") /\ Field(w, R["rsi"], "formID") = v
  BY SameNPC, FieldOfNPC DEF LoadedFrom
<1>2. PICK R1, R2 : R1 = Put(R, "rdi", v) /\ R2 = Put(R, "rdi", Masked(v, R["rax"]))
  OBVIOUS
<1>3. Execute(w, Open(R, F, S, G), Load("rdi", "rsi", "formID")) = Open(R1, F, S, G)
  BY <1>1, <1>2, LoadStep
<1>4. Put(R1, "rdi", Masked(R1["rdi"], R1["rax"])) = R2 /\ R1["rdi"] = v /\ R1["rax"] = R["rax"]
  BY <1>1, <1>2 DEF IsRegs, Put, Registers
<1>5. Execute(w, Open(R1, F, S, G), And("rdi", "rax")) = Open(R2, Masked(v, R["rax"]), S, G)
  BY <1>4, AndStep
<1> QED BY <1>2, <1>3, <1>5, RunTwo, OpenIsGone

\* The owner index is loaded.
LEMMA StolenOwnerIndex ==
  ASSUME NEW w, NEW R, NEW F, NEW S, NEW G, NEW m, LoadedFrom(R, m),
         NEW v, v = Value("ownerIndex", IF m \in Unowned THEN "FFFF" ELSE m)
  PROVE  Run(w, Open(R, F, S, G), <<Load("rdx", "rsi", "ownerIndex"), Const("r10", "FFFF")>>)
           = Gone(Put(Put(R, "rdx", v), "r10", Word("FFFF")), F, S, NoPlace, G)
<1>1. IsRegs(R) /\ R["rsi"] # NPC("null") /\ Field(w, R["rsi"], "ownerIndex") = v
  BY SameNPC, FieldOfNPC DEF LoadedFrom
<1>2. Execute(w, Open(R, F, S, G), Load("rdx", "rsi", "ownerIndex")) = Open(Put(R, "rdx", v), F, S, G)
  BY <1>1, LoadStep
<1> QED BY <1>2, ConstStep, RunTwo, OpenIsGone

\* The FormID is loaded and the lookup called.
LEMMA StolenFormIDLookup ==
  ASSUME NEW w, NEW R, NEW F, NEW S, NEW G, NEW m, LoadedFrom(R, m), NEW v, v = FormID(m)
  PROVE  Run(w, Open(R, F, S, G), <<Load("rdx", "rsi", "formID"), Enter("lookup")>>)
           = Gone(Put(R, "rdx", v), F, Onto(ReturnAddress, S), "lookup", G)
<1>1. IsRegs(R) /\ R["rsi"] # NPC("null") /\ Field(w, R["rsi"], "formID") = v
  BY SameNPC, FieldOfNPC DEF LoadedFrom
<1>2. Execute(w, Open(R, F, S, G), Load("rdx", "rsi", "formID")) = Open(Put(R, "rdx", v), F, S, G)
  BY <1>1, LoadStep
<1> QED BY <1>2, EnterStep, RunTwo

\* The getter of the owner file is called on the NPC.
LEMMA StolenOwnerFile ==
  ASSUME NEW w, NEW R, NEW F, NEW S, NEW G, NEW m, LoadedFrom(R, m)
  PROVE  Run(w, Open(R, F, S, G), <<Mov("rcx", "rsi"), Enter("getFile")>>)
           = Gone(Put(R, "rcx", NPC(m)), F, Onto(ReturnAddress, S), "getFile", G)
<1>1. Execute(w, Open(R, F, S, G), Mov("rcx", "rsi")) = Open(Put(R, "rcx", NPC(m)), F, S, G)
  BY MovStep DEF LoadedFrom
<1> QED BY <1>1, EnterStep, RunTwo

\* What the tables say of each kind of texture site.
LEMMA FormIDLookupSite ==
  ASSUME NEW site, site.kind = "formIDThenLookup"
  PROVE  /\ Thunk(site) = TextureFormIDLookupThunk
         /\ Stolen(site) = <<Load("rdx", "rsi", "formID"), Enter("lookup")>>
         /\ Observable(site) = (Registers \ Volatile) \cup {"rcx", "rdx"} /\ FlagsMatter(site) = FALSE
         /\ \A w : Substitute(w, site) = RuntimeBase(w, w.npc)
<1>1. Thunk(site) = TextureFormIDLookupThunk
  BY Zenon DEF Thunk
<1>2. Stolen(site) = <<Load("rdx", "rsi", "formID"), Enter("lookup")>>
  BY Zenon DEF Stolen
<1>3. Observable(site) = (Registers \ Volatile) \cup {"rcx", "rdx"}
  BY Zenon DEF Observable
<1>4. FlagsMatter(site) = FALSE /\ \A w : Substitute(w, site) = RuntimeBase(w, w.npc)
  BY DEF FlagsMatter, Substitute
<1> QED BY <1>1, <1>2, <1>3, <1>4

\* The lookup of the owner file.
LEMMA OwnerFileSite ==
  ASSUME NEW site, site.kind = "ownerFileLookup"
  PROVE  /\ Thunk(site) = TextureOwnerFileThunk /\ Stolen(site) = <<Mov("rcx", "rsi"), Enter("getFile")>>
         /\ Observable(site) = (Registers \ Volatile) \cup {"rcx"} /\ FlagsMatter(site) = FALSE
         /\ \A w : Substitute(w, site) = FaceTextureIdentity(w, w.npc)
<1>1. Thunk(site) = TextureOwnerFileThunk
  BY Zenon DEF Thunk
<1>2. Stolen(site) = <<Mov("rcx", "rsi"), Enter("getFile")>>
  BY Zenon DEF Stolen
<1>3. Observable(site) = (Registers \ Volatile) \cup {"rcx"}
  BY Zenon DEF Observable
<1>4. FlagsMatter(site) = FALSE /\ \A w : Substitute(w, site) = FaceTextureIdentity(w, w.npc)
  BY DEF FlagsMatter, Substitute
<1> QED BY <1>1, <1>2, <1>3, <1>4

\* The masked FormID.
LEMMA MaskedSite ==
  ASSUME NEW site, site.kind = "maskedFormID"
  PROVE  /\ Thunk(site) = TextureMaskedFormIDThunk
         /\ Stolen(site) = <<Load("rdx", "rsi", "formID"), Mov("rbx", "rdx"), And("rbx", "rax")>>
         /\ Observable(site) = Registers
         /\ \A w : Substitute(w, site) = FaceTextureIdentity(w, w.npc)
<1>1. Thunk(site) = TextureMaskedFormIDThunk
  BY Zenon DEF Thunk
<1>2. Stolen(site) = <<Load("rdx", "rsi", "formID"), Mov("rbx", "rdx"), And("rbx", "rax")>>
  BY Zenon DEF Stolen
<1>3. Observable(site) = Registers
  BY Zenon DEF Observable
<1>4. \A w : Substitute(w, site) = FaceTextureIdentity(w, w.npc)
  BY DEF Substitute
<1> QED BY <1>1, <1>2, <1>3, <1>4

\* The owner index of the compositor.
LEMMA OwnerIndexSite ==
  ASSUME NEW site, site.kind = "compositeOwnerIndex"
  PROVE  /\ Thunk(site) = CompositeOwnerIndexThunk
         /\ Stolen(site) = <<Load("rdx", "rsi", "ownerIndex"), Const("r10", "FFFF")>>
         /\ Observable(site) = Registers
         /\ \A w : Substitute(w, site) = FaceTextureIdentity(w, w.npc)
<1>1. Thunk(site) = CompositeOwnerIndexThunk
  BY Zenon DEF Thunk
<1>2. Stolen(site) = <<Load("rdx", "rsi", "ownerIndex"), Const("r10", "FFFF")>>
  BY Zenon DEF Stolen
<1>3. Observable(site) = Registers
  BY Zenon DEF Observable
<1>4. \A w : Substitute(w, site) = FaceTextureIdentity(w, w.npc)
  BY DEF Substitute
<1> QED BY <1>1, <1>2, <1>3, <1>4

\* The masked FormID of the compositor.
LEMMA CompositeMaskedSite ==
  ASSUME NEW site, site.kind = "compositeMaskedFormID"
  PROVE  /\ Thunk(site) = CompositeMaskedFormIDThunk
         /\ Stolen(site) = <<Load("rdi", "rsi", "formID"), And("rdi", "rax")>>
         /\ Observable(site) = Registers
         /\ \A w : Substitute(w, site) = FaceTextureIdentity(w, w.npc)
<1>1. Thunk(site) = CompositeMaskedFormIDThunk
  BY Zenon DEF Thunk
<1>2. Stolen(site) = <<Load("rdi", "rsi", "formID"), And("rdi", "rax")>>
  BY Zenon DEF Stolen
<1>3. Observable(site) = Registers
  BY Zenon DEF Observable
<1>4. \A w : Substitute(w, site) = FaceTextureIdentity(w, w.npc)
  BY DEF Substitute
<1> QED BY <1>1, <1>2, <1>3, <1>4

\* A texture site in a world, the NPC that its thunk puts in place, and the
\* registers as the engine reaches it with either.
TextureCase(w, site, n, R, R2) ==
  /\ IsTexture(site) /\ IsWorld(w) /\ n = Substitute(w, site)
  /\ R = StartRegs(w, site) /\ R2 = StartRegs(WithNPC(w, n), site)
  /\ LoadedFrom(R, w.npc) /\ LoadedFrom(R2, n) /\ R2 = Put(R, "rsi", NPC(n))

\* There is one for every texture site and world.
LEMMA TextureCaseIs ==
  ASSUME NEW w, IsWorld(w), w.npc # "null", NEW site, IsTexture(site)
  PROVE  \E n, R, R2 : TextureCase(w, site, n, R, R2)
<1>1. PICK n, R, R2 : n = Substitute(w, site) /\ R = StartRegs(w, site) /\ R2 = StartRegs(WithNPC(w, n), site)
  OBVIOUS
<1>2. IsRegs(R) /\ R["rsi"] = NPC(w.npc) /\ R2 = Put(R, "rsi", NPC(n))
  BY <1>1, TextureStart
<1>3. n # "null"
  BY <1>1, NeverNull DEF Substitute
<1>4. IsRegs(R2) /\ R2["rsi"] = NPC(n)
  BY <1>2, PutTyped, PutSame DEF Registers
<1> QED BY <1>1, <1>2, <1>3, <1>4 DEF TextureCase, LoadedFrom

\* The stolen instructions of a site, run as the engine reaches it.
LEMMA OriginalFrom ==
  ASSUME NEW w, NEW site, NEW R, R = StartRegs(w, site), NEW code, code = Stolen(site)
  PROVE  RunOriginal(w, site) = Run(w, Open(R, In("flags"), Frame, NoneGiven), code)
BY RunOriginalIs, Zenon

\* The contract of the lookup by FormID: what the volatile registers hold besides its
\* arguments does not matter.
LEMMA FormIDLookupHonoured ==
  ASSUME NEW w, IsWorld(w), w.npc # "null", NEW site, IsTexture(site), site.kind = "formIDThenLookup"
  PROVE  Honoured(w, site)
<1>1. PICK n, R, R2 : TextureCase(w, site, n, R, R2)
  BY TextureCaseIs
<1>2. PICK F : F = In("flags")
  OBVIOUS
<1>3. IsRegs(R) /\ R["rsi"] = NPC(w.npc) /\ R2 = Put(R, "rsi", NPC(n))
  BY <1>1 DEF TextureCase, LoadedFrom
<1>4. PICK v : v = FormID(n)
  OBVIOUS
<1>5. PICK Q : /\ Run(w, Open(R, F, Entered, NoneGiven), TextureFormIDLookupThunk) =
                    Gone(Q, Junk, Entered, "lookup", NoneGiven)
               /\ Q["rcx"] = R["rcx"] /\ Q["rdx"] = Answer(w, R["rsi"], "runtimeFormID")
               /\ \A r \in Registers \ Volatile : Q[r] = R[r]
  BY <1>3, FrameLaws, FormIDLookupRun
<1>6. RunPatched(w, site) = Gone(Q, Junk, Entered, "lookup", NoneGiven)
  <2>1. R = StartRegs(w, site) /\ "lookup" # "site"
    BY <1>1 DEF TextureCase
  <2>2. Run(w, Open(R, F, Entered, NoneGiven), Thunk(site)) = Gone(Q, Junk, Entered, "lookup", NoneGiven)
    BY <1>5, FormIDLookupSite
  <2> QED BY <1>2, <2>1, <2>2, PatchedLeaves
<1>7. PICK P0, P : P0 = Put(R, "rdx", FormID(w.npc)) /\ P = Put(R2, "rdx", v)
  OBVIOUS
<1>8. RunOriginal(w, site) = Gone(P0, F, Entered, "lookup", NoneGiven)
  <2>1. RunOriginal(w, site) =
          Run(w, Open(R, F, Frame, NoneGiven), <<Load("rdx", "rsi", "formID"), Enter("lookup")>>)
    BY <1>1, <1>2, FormIDLookupSite, OriginalFrom DEF TextureCase
  <2>2. LoadedFrom(R, w.npc)
    BY <1>1 DEF TextureCase
  <2> QED BY <1>7, <2>1, <2>2, StolenFormIDLookup DEF Entered
<1>9. RunOriginal(WithNPC(w, n), site) = Gone(P, F, Entered, "lookup", NoneGiven)
  <2>1. RunOriginal(WithNPC(w, n), site) = Run(WithNPC(w, n), Open(R2, F, Frame, NoneGiven),
          <<Load("rdx", "rsi", "formID"), Enter("lookup")>>)
    <3>1. R2 = StartRegs(WithNPC(w, n), site) /\
            <<Load("rdx", "rsi", "formID"), Enter("lookup")>> = Stolen(site)
      BY <1>1, FormIDLookupSite DEF TextureCase
    <3> QED BY <1>2, <3>1, OriginalFrom
  <2>2. LoadedFrom(R2, n)
    BY <1>1 DEF TextureCase
  <2> QED BY <1>4, <1>7, <2>1, <2>2, StolenFormIDLookup DEF Entered
<1>10. PICK P1 : P1 = Put(Put(P, "rsi", NPC(w.npc)), "rdx", P["rdx"])
  OBVIOUS
<1>11. Promised(w, site) = Gone(P1, F, Entered, "lookup", NoneGiven)
  <2>1. P0["rsi"] = NPC(w.npc)
    BY <1>3, <1>7 DEF IsRegs, Put, Registers
  <2>2. IsTexture(site) /\ n = Substitute(w, site)
    BY <1>1 DEF TextureCase
  <2>3. PICK x : x = P["rdx"]
    OBVIOUS
  <2>4. Promised(w, site) = Gone(Put(Put(P, "rsi", NPC(w.npc)), "rdx", x), F, Entered, "lookup", NoneGiven)
    BY <1>8, <1>9, <2>1, <2>2, <2>3, TexturePromised
  <2> QED BY <1>10, <2>3, <2>4
<1>12. \A r \in Observable(site) : Q[r] = P1[r]
  <2>1. /\ Observable(site) = (Registers \ Volatile) \cup {"rcx", "rdx"}
        /\ Substitute(w, site) = RuntimeBase(w, w.npc)
    BY FormIDLookupSite
  <2>2. v = Q["rdx"]
    BY <1>1, <1>3, <1>4, <1>5, <2>1, Answers DEF TextureCase
  <2>3. /\ IsRegs(P1) /\ P1["rdx"] = v /\ P1["rsi"] = R["rsi"]
        /\ \A r \in Registers \ {"rdx", "rsi", "rdx"} : P1[r] = R[r]
    BY <1>3, <1>7, <1>10 DEF IsRegs, Put, Registers
  <2> QED BY <1>5, <2>1, <2>2, <2>3 DEF Registers, Volatile
<1>13. ~FlagsMatter(site)
  BY FormIDLookupSite
<1> QED BY <1>6, <1>11, <1>12, <1>13, Compared DEF Honoured

\* The contract of the lookup of the owner file.
LEMMA OwnerFileHonoured ==
  ASSUME NEW w, IsWorld(w), w.npc # "null", NEW site, IsTexture(site), site.kind = "ownerFileLookup"
  PROVE  Honoured(w, site)
<1>1. PICK n, R, R2 : TextureCase(w, site, n, R, R2)
  BY TextureCaseIs
<1>2. PICK F : F = In("flags")
  OBVIOUS
<1>3. IsRegs(R) /\ R["rsi"] = NPC(w.npc) /\ R2 = Put(R, "rsi", NPC(n))
  BY <1>1 DEF TextureCase, LoadedFrom
<1>4. PICK v : v = NPC(n)
  OBVIOUS
<1>5. PICK Q : /\ Run(w, Open(R, F, Entered, NoneGiven), TextureOwnerFileThunk) =
                    Gone(Q, Junk, Entered, "getFile", NoneGiven)
               /\ Q["rcx"] = Answer(w, R["rsi"], "faceTextureIdentity")
               /\ \A r \in Registers \ Volatile : Q[r] = R[r]
  BY <1>3, FrameLaws, OwnerFileRun
<1>6. RunPatched(w, site) = Gone(Q, Junk, Entered, "getFile", NoneGiven)
  <2>1. R = StartRegs(w, site) /\ "getFile" # "site"
    BY <1>1 DEF TextureCase
  <2>2. Run(w, Open(R, F, Entered, NoneGiven), Thunk(site)) = Gone(Q, Junk, Entered, "getFile", NoneGiven)
    BY <1>5, OwnerFileSite
  <2> QED BY <1>2, <2>1, <2>2, PatchedLeaves
<1>7. PICK P0, P : P0 = Put(R, "rcx", NPC(w.npc)) /\ P = Put(R2, "rcx", v)
  OBVIOUS
<1>8. RunOriginal(w, site) = Gone(P0, F, Entered, "getFile", NoneGiven)
  <2>1. RunOriginal(w, site) = Run(w, Open(R, F, Frame, NoneGiven), <<Mov("rcx", "rsi"), Enter("getFile")>>)
    BY <1>1, <1>2, OwnerFileSite, OriginalFrom DEF TextureCase
  <2>2. LoadedFrom(R, w.npc)
    BY <1>1 DEF TextureCase
  <2> QED BY <1>7, <2>1, <2>2, StolenOwnerFile DEF Entered
<1>9. RunOriginal(WithNPC(w, n), site) = Gone(P, F, Entered, "getFile", NoneGiven)
  <2>1. RunOriginal(WithNPC(w, n), site) =
          Run(WithNPC(w, n), Open(R2, F, Frame, NoneGiven), <<Mov("rcx", "rsi"), Enter("getFile")>>)
    <3>1. R2 = StartRegs(WithNPC(w, n), site) /\ <<Mov("rcx", "rsi"), Enter("getFile")>> = Stolen(site)
      BY <1>1, OwnerFileSite DEF TextureCase
    <3> QED BY <1>2, <3>1, OriginalFrom
  <2>2. LoadedFrom(R2, n)
    BY <1>1 DEF TextureCase
  <2> QED BY <1>4, <1>7, <2>1, <2>2, StolenOwnerFile DEF Entered
<1>10. PICK P1 : P1 = Put(Put(P, "rsi", NPC(w.npc)), "rdx", P["rdx"])
  OBVIOUS
<1>11. Promised(w, site) = Gone(P1, F, Entered, "getFile", NoneGiven)
  <2>1. P0["rsi"] = NPC(w.npc)
    BY <1>3, <1>7 DEF IsRegs, Put, Registers
  <2>2. IsTexture(site) /\ n = Substitute(w, site)
    BY <1>1 DEF TextureCase
  <2>3. PICK x : x = P["rdx"]
    OBVIOUS
  <2>4. Promised(w, site) = Gone(Put(Put(P, "rsi", NPC(w.npc)), "rdx", x), F, Entered, "getFile", NoneGiven)
    BY <1>8, <1>9, <2>1, <2>2, <2>3, TexturePromised
  <2> QED BY <1>10, <2>3, <2>4
<1>12. \A r \in Observable(site) : Q[r] = P1[r]
  <2>1. /\ Observable(site) = (Registers \ Volatile) \cup {"rcx"}
        /\ Substitute(w, site) = FaceTextureIdentity(w, w.npc)
    BY OwnerFileSite
  <2>2. v = Q["rcx"]
    BY <1>1, <1>3, <1>4, <1>5, <2>1, Answers DEF TextureCase
  <2>3. /\ IsRegs(P1) /\ P1["rcx"] = v /\ P1["rsi"] = R["rsi"]
        /\ \A r \in Registers \ {"rcx", "rsi", "rdx"} : P1[r] = R[r]
    BY <1>3, <1>7, <1>10 DEF IsRegs, Put, Registers
  <2> QED BY <1>5, <2>1, <2>2, <2>3 DEF Registers, Volatile
<1>13. ~FlagsMatter(site)
  BY OwnerFileSite
<1> QED BY <1>6, <1>11, <1>12, <1>13, Compared DEF Honoured

\* The contract of the masked FormID: every register, and the flags of the mask.
LEMMA MaskedHonoured ==
  ASSUME NEW w, IsWorld(w), w.npc # "null", NEW site, IsTexture(site), site.kind = "maskedFormID"
  PROVE  Honoured(w, site)
<1>1. PICK n, R, R2 : TextureCase(w, site, n, R, R2)
  BY TextureCaseIs
<1>2. PICK F : F = In("flags")
  OBVIOUS
<1>3. /\ IsRegs(R) /\ R["rsi"] = NPC(w.npc) /\ R2 = Put(R, "rsi", NPC(n)) /\ n # "null"
      /\ R = StartRegs(w, site)
  BY <1>1 DEF TextureCase, LoadedFrom
<1>4. PICK v, v0 : /\ v = FormID(n)
                   /\ v0 = FormID(w.npc)
  OBVIOUS
<1>5. Substitute(w, site) = FaceTextureIdentity(w, w.npc) /\ n = FaceTextureIdentity(w, w.npc)
  BY <1>1, MaskedSite DEF TextureCase
<1>6. PICK Q, H : Q = Put(Put(R, "rdx", v), "rbx", Masked(v, R["rax"])) /\ H = Masked(v, R["rax"])
  OBVIOUS
<1>7. RunPatched(w, site) = Gone(Q, H, Frame, NoPlace, NoneGiven)
  <2>1. Identity(w, R) # NPC("null") /\ v = IdentityField(w, R, "formID")
    BY <1>3, <1>4, <1>5, IdentityIs, SameNPC
  <2>2. IsSeq(Entered) /\ Len(Entered) % 2 = 1 /\ Head(Entered) = ReturnAddress
    BY FrameLaws
  <2>3. Run(w, Open(R, F, Entered, NoneGiven), TextureMaskedFormIDThunk) =
          Gone(Q, H, Tail(Entered), "site", NoneGiven)
    BY <1>3, <1>6, <2>1, <2>2, MaskedRun
  <2>4. Run(w, Open(R, F, Entered, NoneGiven), Thunk(site)) = Gone(Q, H, Frame, "site", NoneGiven)
    BY <2>3, FrameLaws, MaskedSite
  <2> QED BY <1>2, <1>3, <2>4, PatchedReturns
<1>8. PICK P0, P, H0 : /\ P0 = Put(Put(R, "rdx", v0), "rbx", Masked(v0, R["rax"]))
                       /\ P = Put(Put(R2, "rdx", v), "rbx", Masked(v, R2["rax"]))
                       /\ H0 = Masked(v0, R["rax"])
  OBVIOUS
<1>9. RunOriginal(w, site) = Gone(P0, H0, Frame, NoPlace, NoneGiven)
  <2>1. RunOriginal(w, site) =
          Run(w, Open(R, F, Frame, NoneGiven),
              <<Load("rdx", "rsi", "formID"), Mov("rbx", "rdx"), And("rbx", "rax")>>)
    BY <1>2, <1>3, MaskedSite, OriginalFrom
  <2>2. LoadedFrom(R, w.npc)
    BY <1>1 DEF TextureCase
  <2> QED BY <1>4, <1>8, <2>1, <2>2, StolenMasked
<1>10. RunOriginal(WithNPC(w, n), site) = Gone(P, H, Frame, NoPlace, NoneGiven)
  <2>1. R2 = StartRegs(WithNPC(w, n), site) /\
          <<Load("rdx", "rsi", "formID"), Mov("rbx", "rdx"), And("rbx", "rax")>> = Stolen(site)
    BY <1>1, MaskedSite DEF TextureCase
  <2>2. RunOriginal(WithNPC(w, n), site) = Run(WithNPC(w, n), Open(R2, F, Frame, NoneGiven),
          <<Load("rdx", "rsi", "formID"), Mov("rbx", "rdx"), And("rbx", "rax")>>)
    BY <1>2, <2>1, OriginalFrom
  <2>3. LoadedFrom(R2, n)
    BY <1>1 DEF TextureCase
  <2>4. R2["rax"] = R["rax"]
    BY <1>3, PutOther DEF Registers
  <2> QED BY <1>4, <1>6, <1>8, <2>2, <2>3, <2>4, StolenMasked
<1>11. PICK P1, x : x = P["rdx"] /\ P1 = Put(Put(P, "rsi", NPC(w.npc)), "rdx", x)
  OBVIOUS
<1>12. Promised(w, site) = Gone(P1, H, Frame, NoPlace, NoneGiven)
  <2>1. P0["rsi"] = NPC(w.npc)
    BY <1>3, <1>8 DEF IsRegs, Put, Registers
  <2>2. IsTexture(site) /\ n = Substitute(w, site)
    BY <1>1 DEF TextureCase
  <2>3. x = IF site.kind = "compositeOwnerIndex" THEN OwnerOf(P["rdx"]) ELSE P["rdx"]
    BY <1>11
  <2>4. Promised(w, site) = Gone(Put(Put(P, "rsi", NPC(w.npc)), "rdx", x), H, Frame, NoPlace, NoneGiven)
    BY <1>9, <1>10, <2>1, <2>2, <2>3, TexturePromised
  <2> QED BY <1>11, <2>4
<1>13. \A r \in Observable(site) : Q[r] = P1[r]
  <2>1. Observable(site) = Registers
    BY MaskedSite
  <2>2. R2["rax"] = R["rax"]
    BY <1>3, PutOther DEF Registers
  <2>3. Q = P1
    BY <1>3, <1>6, <1>8, <1>11, <2>2 DEF IsRegs, Put, Registers
  <2> QED BY <2>3
<1> QED BY <1>7, <1>12, <1>13, Compared DEF Honoured

\* The contract of the masked FormID of the compositor.
LEMMA CompositeMaskedHonoured ==
  ASSUME NEW w, IsWorld(w), w.npc # "null", NEW site, IsTexture(site), site.kind = "compositeMaskedFormID"
  PROVE  Honoured(w, site)
<1>1. PICK n, R, R2 : TextureCase(w, site, n, R, R2)
  BY TextureCaseIs
<1>2. PICK F : F = In("flags")
  OBVIOUS
<1>3. /\ IsRegs(R) /\ R["rsi"] = NPC(w.npc) /\ R2 = Put(R, "rsi", NPC(n)) /\ n # "null"
      /\ R = StartRegs(w, site)
  BY <1>1 DEF TextureCase, LoadedFrom
<1>4. PICK v, v0 : /\ v = FormID(n)
                   /\ v0 = FormID(w.npc)
  OBVIOUS
<1>5. Substitute(w, site) = FaceTextureIdentity(w, w.npc) /\ n = FaceTextureIdentity(w, w.npc)
  BY <1>1, CompositeMaskedSite DEF TextureCase
<1>6. PICK Q, H : Q = Put(R, "rdi", Masked(v, R["rax"])) /\ H = Masked(v, R["rax"])
  OBVIOUS
<1>7. RunPatched(w, site) = Gone(Q, H, Frame, NoPlace, NoneGiven)
  <2>1. Identity(w, R) # NPC("null") /\ v = IdentityField(w, R, "formID")
    BY <1>3, <1>4, <1>5, IdentityIs, SameNPC
  <2>2. IsSeq(Entered) /\ Len(Entered) % 2 = 1 /\ Head(Entered) = ReturnAddress
    BY FrameLaws
  <2>3. Run(w, Open(R, F, Entered, NoneGiven), CompositeMaskedFormIDThunk) =
          Gone(Q, H, Tail(Entered), "site", NoneGiven)
    BY <1>3, <1>6, <2>1, <2>2, CompositeMaskedRun
  <2>4. Run(w, Open(R, F, Entered, NoneGiven), Thunk(site)) = Gone(Q, H, Frame, "site", NoneGiven)
    BY <2>3, FrameLaws, CompositeMaskedSite
  <2> QED BY <1>2, <1>3, <2>4, PatchedReturns
<1>8. PICK P0, P, H0 : /\ P0 = Put(R, "rdi", Masked(v0, R["rax"]))
                       /\ P = Put(R2, "rdi", Masked(v, R2["rax"]))
                       /\ H0 = Masked(v0, R["rax"])
  OBVIOUS
<1>9. RunOriginal(w, site) = Gone(P0, H0, Frame, NoPlace, NoneGiven)
  <2>1. RunOriginal(w, site) =
          Run(w, Open(R, F, Frame, NoneGiven), <<Load("rdi", "rsi", "formID"), And("rdi", "rax")>>)
    BY <1>2, <1>3, CompositeMaskedSite, OriginalFrom
  <2>2. LoadedFrom(R, w.npc)
    BY <1>1 DEF TextureCase
  <2> QED BY <1>4, <1>8, <2>1, <2>2, StolenCompositeMasked
<1>10. RunOriginal(WithNPC(w, n), site) = Gone(P, H, Frame, NoPlace, NoneGiven)
  <2>1. R2 = StartRegs(WithNPC(w, n), site) /\
          <<Load("rdi", "rsi", "formID"), And("rdi", "rax")>> = Stolen(site)
    BY <1>1, CompositeMaskedSite DEF TextureCase
  <2>2. RunOriginal(WithNPC(w, n), site) = Run(WithNPC(w, n), Open(R2, F, Frame, NoneGiven),
          <<Load("rdi", "rsi", "formID"), And("rdi", "rax")>>)
    BY <1>2, <2>1, OriginalFrom
  <2>3. LoadedFrom(R2, n)
    BY <1>1 DEF TextureCase
  <2>4. R2["rax"] = R["rax"]
    BY <1>3, PutOther DEF Registers
  <2> QED BY <1>4, <1>6, <1>8, <2>2, <2>3, <2>4, StolenCompositeMasked
<1>11. PICK P1, x : x = P["rdx"] /\ P1 = Put(Put(P, "rsi", NPC(w.npc)), "rdx", x)
  OBVIOUS
<1>12. Promised(w, site) = Gone(P1, H, Frame, NoPlace, NoneGiven)
  <2>1. P0["rsi"] = NPC(w.npc)
    BY <1>3, <1>8 DEF IsRegs, Put, Registers
  <2>2. IsTexture(site) /\ n = Substitute(w, site)
    BY <1>1 DEF TextureCase
  <2>3. x = IF site.kind = "compositeOwnerIndex" THEN OwnerOf(P["rdx"]) ELSE P["rdx"]
    BY <1>11
  <2>4. Promised(w, site) = Gone(Put(Put(P, "rsi", NPC(w.npc)), "rdx", x), H, Frame, NoPlace, NoneGiven)
    BY <1>9, <1>10, <2>1, <2>2, <2>3, TexturePromised
  <2> QED BY <1>11, <2>4
<1>13. \A r \in Observable(site) : Q[r] = P1[r]
  <2>1. Observable(site) = Registers
    BY CompositeMaskedSite
  <2>2. R2["rax"] = R["rax"]
    BY <1>3, PutOther DEF Registers
  <2>3. Q = P1
    BY <1>3, <1>6, <1>8, <1>11, <2>2 DEF IsRegs, Put, Registers
  <2> QED BY <2>3
<1> QED BY <1>7, <1>12, <1>13, Compared DEF Honoured

\* The contract of the owner index: every register, and the flags of the engine.
LEMMA OwnerIndexHonoured ==
  ASSUME NEW w, IsWorld(w), w.npc # "null", NEW site, IsTexture(site), site.kind = "compositeOwnerIndex"
  PROVE  Honoured(w, site)
<1>1. PICK n, R, R2 : TextureCase(w, site, n, R, R2)
  BY TextureCaseIs
<1>2. PICK F : F = In("flags")
  OBVIOUS
<1>3. /\ IsRegs(R) /\ R["rsi"] = NPC(w.npc) /\ R2 = Put(R, "rsi", NPC(n)) /\ n # "null"
      /\ R = StartRegs(w, site)
  BY <1>1 DEF TextureCase, LoadedFrom
<1>4. PICK v, v0 : /\ v = Value("ownerIndex", IF n \in Unowned THEN "FFFF" ELSE n)
                   /\ v0 = Value("ownerIndex", IF w.npc \in Unowned THEN "FFFF" ELSE w.npc)
  OBVIOUS
<1>5. Substitute(w, site) = FaceTextureIdentity(w, w.npc) /\ n = FaceTextureIdentity(w, w.npc)
  BY <1>1, OwnerIndexSite DEF TextureCase
<1>6. PICK Q, H : Q = Put(Put(R, "rdx", OwnerOf(v)), "r10", Word("FFFF")) /\ H = F
  OBVIOUS
<1>7. RunPatched(w, site) = Gone(Q, H, Frame, NoPlace, NoneGiven)
  <2>1. Identity(w, R) # NPC("null") /\ v = IdentityField(w, R, "ownerIndex")
    BY <1>3, <1>4, <1>5, IdentityIs, SameNPC
  <2>2. IsSeq(Entered) /\ Len(Entered) % 2 = 1 /\ Head(Entered) = ReturnAddress
    BY FrameLaws
  <2>3. Run(w, Open(R, F, Entered, NoneGiven), CompositeOwnerIndexThunk) =
          Gone(Q, H, Tail(Entered), "site", NoneGiven)
    BY <1>3, <1>6, <2>1, <2>2, OwnerIndexRun
  <2>4. Run(w, Open(R, F, Entered, NoneGiven), Thunk(site)) = Gone(Q, H, Frame, "site", NoneGiven)
    BY <2>3, FrameLaws, OwnerIndexSite
  <2> QED BY <1>2, <1>3, <2>4, PatchedReturns
<1>8. PICK P0, P, H0 : /\ P0 = Put(Put(R, "rdx", v0), "r10", Word("FFFF"))
                       /\ P = Put(Put(R2, "rdx", v), "r10", Word("FFFF"))
                       /\ H0 = F
  OBVIOUS
<1>9. RunOriginal(w, site) = Gone(P0, H0, Frame, NoPlace, NoneGiven)
  <2>1. RunOriginal(w, site) =
          Run(w, Open(R, F, Frame, NoneGiven), <<Load("rdx", "rsi", "ownerIndex"), Const("r10", "FFFF")>>)
    BY <1>2, <1>3, OwnerIndexSite, OriginalFrom
  <2>2. LoadedFrom(R, w.npc)
    BY <1>1 DEF TextureCase
  <2> QED BY <1>4, <1>8, <2>1, <2>2, StolenOwnerIndex
<1>10. RunOriginal(WithNPC(w, n), site) = Gone(P, H, Frame, NoPlace, NoneGiven)
  <2>1. R2 = StartRegs(WithNPC(w, n), site) /\
          <<Load("rdx", "rsi", "ownerIndex"), Const("r10", "FFFF")>> = Stolen(site)
    BY <1>1, OwnerIndexSite DEF TextureCase
  <2>2. RunOriginal(WithNPC(w, n), site) = Run(WithNPC(w, n), Open(R2, F, Frame, NoneGiven),
          <<Load("rdx", "rsi", "ownerIndex"), Const("r10", "FFFF")>>)
    BY <1>2, <2>1, OriginalFrom
  <2>3. LoadedFrom(R2, n)
    BY <1>1 DEF TextureCase
  <2>4. R2["rax"] = R["rax"]
    BY <1>3, PutOther DEF Registers
  <2> QED BY <1>4, <1>6, <1>8, <2>2, <2>3, <2>4, StolenOwnerIndex
<1>11. PICK P1, x : x = OwnerOf(P["rdx"]) /\ P1 = Put(Put(P, "rsi", NPC(w.npc)), "rdx", x)
  OBVIOUS
<1>12. Promised(w, site) = Gone(P1, H, Frame, NoPlace, NoneGiven)
  <2>1. P0["rsi"] = NPC(w.npc)
    BY <1>3, <1>8 DEF IsRegs, Put, Registers
  <2>2. IsTexture(site) /\ n = Substitute(w, site)
    BY <1>1 DEF TextureCase
  <2>3. x = IF site.kind = "compositeOwnerIndex" THEN OwnerOf(P["rdx"]) ELSE P["rdx"]
    BY <1>11
  <2>4. Promised(w, site) = Gone(Put(Put(P, "rsi", NPC(w.npc)), "rdx", x), H, Frame, NoPlace, NoneGiven)
    BY <1>9, <1>10, <2>1, <2>2, <2>3, TexturePromised
  <2> QED BY <1>11, <2>4
<1>13. \A r \in Observable(site) : Q[r] = P1[r]
  <2>1. Observable(site) = Registers
    BY OwnerIndexSite
  <2>2. R2["rax"] = R["rax"]
    BY <1>3, PutOther DEF Registers
  <2>3. Q = P1
    BY <1>3, <1>6, <1>8, <1>11, <2>2 DEF IsRegs, Put, Registers
  <2> QED BY <2>3
<1> QED BY <1>7, <1>12, <1>13, Compared DEF Honoured

-----------------------------------------------------------------------------
(* Every site.                                                             *)

\* What the proofs need of a site.
KnownSite(site) ==
  \/ site.kind = "baseRead" /\ site.actor \in Registers /\ site.result \in Registers
  \/ IsTexture(site)
  \/ site.kind = "geometryLookup" /\ site.actor = "r12"

\* Every entry of the tables is of a known kind, with registers where it names them.
LEMMA SitesKnown ==
  ASSUME NEW site \in EngineSites
  PROVE  KnownSite(site)
<1>1. ASSUME NEW actor \in Registers, NEW result \in Registers, site = BaseRead(actor, result)
      PROVE  KnownSite(site)
  BY <1>1 DEF BaseRead, KnownSite
<1>2. ASSUME NEW kind \in TextureKinds, site = Texture(kind) PROVE KnownSite(site)
  <2>1. PICK none : none = ""
    OBVIOUS
  <2>2. none \notin Registers
    BY <2>1, Zenon DEF Registers
  <2>3. site = [kind |-> kind, actor |-> none, result |-> none]
    BY <1>2, <2>1, Zenon DEF Texture
  <2> QED BY <2>2, <2>3 DEF KnownSite, IsTexture
<1>3. CASE site = GeometryLookup
  <2>1. site.kind = "geometryLookup" /\ site.actor = "r12"
    BY <1>3, Zenon DEF GeometryLookup
  <2> QED BY <2>1 DEF KnownSite
<1> QED BY <1>1, <1>2, <1>3 DEF EngineSites

\* The contract, for every site of the tables and every world the engine reaches it in.
LEMMA EverySiteHonoured ==
  ASSUME TypeOK, NEW k \in DOMAIN Sites, NEW w \in Worlds(Sites[k])
  PROVE  Honoured(w, Sites[k])
<1>1. PICK site : site = Sites[k] /\ KnownSite(site)
  BY SitesTyped, SitesKnown
<1>2. /\ IsWorld(w) /\ w.binding \in {"absent", "inactive", "active"}
      /\ IsTexture(site) => w.npc # "null"
  BY <1>1 DEF TypeOK, Worlds, IsWorld, IsTexture, TextureKinds, TextureNPCs
<1>3. CASE IsTexture(site)
  BY <1>1, <1>2, <1>3, FormIDLookupHonoured, OwnerFileHonoured, MaskedHonoured, OwnerIndexHonoured,
     CompositeMaskedHonoured DEF IsTexture, TextureKinds
<1> QED BY <1>1, <1>2, <1>3, BaseReadHonoured, GeometryHonoured DEF KnownSite

\* The run of a site keeps the contract, whether the site is patched yet or not.
LEMMA ReachKeepsContract ==
  ASSUME TypeOK, NEW k \in DOMAIN Sites, ReachSite(k)
  PROVE  ThunkContract'
<1>1. PICK w \in Worlds(Sites[k]) :
        last' = [site |-> k, world |-> w, thunk |-> k \in patched,
                 result |-> IF k \in patched THEN RunPatched(w, Sites[k]) ELSE RunOriginal(w, Sites[k])]
  BY DEF ReachSite
<1>2. Honoured(w, Sites[k])
  BY EverySiteHonoured
<1>3. last'.site = k /\ last'.world = w /\ last'.thunk = (k \in patched)
      /\ last'.result = IF k \in patched THEN RunPatched(w, Sites[k]) ELSE RunOriginal(w, Sites[k])
  BY <1>1
<1>4. last'.thunk => last'.result.aligned /\
        Indistinguishable(Sites[last'.site], last'.result, Promised(last'.world, Sites[last'.site]))
  BY <1>2, <1>3 DEF Honoured
<1> QED BY <1>4 DEF ThunkContract

\* Whatever the registry and the actor are as the engine reaches a patched site,
\* it goes on as after its own instructions with the promised NPC: no thunk
\* loses a register, the flags or a word of the stack on any of its paths, and
\* none calls on a stack that is not aligned.
THEOREM ThunksKeepContract == Spec => []ThunkContract
<1>1. Init => ThunkContract
  BY DEF Init, NoRun, ThunkContract
<1>2. TypeOK /\ ThunkContract /\ [Next]_vars => ThunkContract'
  <2> SUFFICES ASSUME TypeOK, ThunkContract, [Next]_vars PROVE ThunkContract'
    OBVIOUS
  <2>1. CASE last' = last
    BY <2>1 DEF ThunkContract
  <2>2. CASE LeaveSite
    BY <2>2 DEF LeaveSite, NoRun, ThunkContract
  <2>3. CASE \E k \in DOMAIN Sites : ReachSite(k)
    BY <2>3, ReachKeepsContract
  <2>4. last' = last \/ LeaveSite \/ \E k \in DOMAIN Sites : ReachSite(k)
    BY DEF Next, vars, PreflightSites, PrepareCallPatch, WritePatch, FinishInstall, SFSEPluginLoad,
           RunStartupScan, ChangeBinding, KillRuntime
  <2> QED BY <2>1, <2>2, <2>3, <2>4
<1> QED BY <1>1, <1>2, TypeCorrect, PTL DEF Spec
=============================================================================
