---------------------------- MODULE RenderThunks ----------------------------
(***************************************************************************)
(* The machine code that src/Runtime/RenderSourceHooks.cpp generates: the  *)
(* thunks, the engine instructions that each of them replaces, and a       *)
(* processor that runs both.                                               *)
(*                                                                         *)
(* A value is what the code can tell of it: In("rax") is what rax held at  *)
(* the site, NPC(n) points at the NPC n, FormID(n) is its FormID.  The     *)
(* stack is a sequence of 8-byte words, its top first.  The walk through   *)
(* the registry, which RenderSourceRegistry refines to single loads, is    *)
(* one instruction here.  Widths of registers, and the stores of the hit   *)
(* counters, are left out.                                                 *)
(*                                                                         *)
(* The world w of a run is a record: what actor->base points at (base),    *)
(* what the texture code has in rsi (npc), whether the runtime is          *)
(* operational, and the state of the slot of "base" (binding).             *)
(***************************************************************************)
EXTENDS Naturals, Sequences, SequencesExt

Registers == {"rax", "rcx", "rdx", "rbx", "rbp", "rsi", "rdi",
              "r8", "r9", "r10", "r11", "r12", "r13", "r14", "r15"}

\* What a called function may overwrite, by the x64 convention of Windows.
Volatile == {"rax", "rcx", "rdx", "r8", "r9", "r10", "r11"}
Arguments == {"rcx", "rdx", "r8", "r9"}

Value(tag, x) == <<tag, x, "">>
In(register)  == Value("in", register)
NPC(n)        == Value("npc", n)
FormID(n)     == Value("formID", n)
Junk          == Value("junk", "")
ReturnAddress == Value("return", "")

\* The stack of an engine function at a site: aligned to 16 bytes, with the
\* shadow space that the functions it calls may overwrite.
ShadowWords == 4
Frame == [k \in 1 .. ShadowWords |-> Junk] \o <<Value("frame", "1"), Value("frame", "2")>>

\* The NPCs.  "base" is generated and has a slot unless its binding is absent;
\* "source" is what that slot publishes and "configured" its texture identity;
\* "unregistered" has FormID 0, "other" is an NPC without a slot.  Generated
\* and detached NPCs have no owner.
Unowned == {"base", "source", "unregistered"}

\* ResolveFaceTextureIdentityForRenderSource and
\* ResolveRuntimeFormIDForRenderSource, as RenderSourceRegistry refines them.
FaceTextureIdentity(w, n) == IF n = "source" /\ w.operational THEN "configured" ELSE n
RuntimeBase(w, n)         == IF n = "source" /\ w.operational THEN "base" ELSE n

\* The memory that the code loads from.
Field(w, pointer, field) ==
  CASE pointer = Value("actor", "") /\ field = "npc"        -> NPC(w.base)
    [] pointer[1] = "npc" /\ field = "formID"               -> FormID(pointer[2])
    [] pointer[1] = "npc" /\ field = "ownerIndex"           ->
         Value("ownerIndex", IF pointer[2] \in Unowned THEN "FFFF" ELSE pointer[2])
    [] pointer = Value("slot", "") /\ field = "active"      -> Value("active", w.binding)
    [] pointer = Value("slot", "") /\ field = "source"      -> NPC("source")
    [] OTHER                                                -> Junk

IsZero(v) == v \in {NPC("null"), FormID("unregistered"), Value("active", "inactive")}

-----------------------------------------------------------------------------
(* Instructions.                                                           *)

Ins(op, a, b)    == [op |-> op, a |-> a, b |-> b, field |-> ""]
Plain(op)        == Ins(op, "", "")
Push(r)          == Ins("push", r, "")
Pop(r)           == Ins("pop", r, "")
Mov(dst, src)    == Ins("mov", dst, src)
And(dst, src)    == Ins("and", dst, src)
Clobber(r)       == Ins("clobber", r, "")
Test(r)          == Ins("test", r, "")
Jz(label)        == Ins("jz", label, "")
Jnz(label)       == Ins("jnz", label, "")
Const(dst, x)    == Ins("const", dst, x)
CmpFFFF(r)       == Ins("cmpFFFF", r, "")
Probe(key, table) == Ins("probe", key, table)
Enter(target)    == Ins("enter", target, "")
Label(label)     == Ins("label", label, "")
Call(target)     == Ins("call", target, "")
Jmp(target)      == Ins("jmp", target, "")
Load(dst, ptr, field) == [op |-> "load", a |-> dst, b |-> ptr, field |-> field]

\* sub rsp and add rsp, by a number of words.
Sub(words)       == Ins("sub", words, "")
Add(words)       == Ins("add", words, "")

PushAll(registers) == [k \in DOMAIN registers |-> Push(registers[k])]
PopAll(registers)  == [k \in DOMAIN registers |-> Pop(registers[k])]

\* The processor at a site: the registers, the flags and the stack; the label
\* that a jump is heading for; where the code has gone when it left; whether
\* every call found an aligned stack, and what the engine's functions were given.
Flag(zero) == Value(IF zero THEN "zero" ELSE "nonzero", "")

\* What a called function returns: the two resolvers answer for an NPC.
Answer(w, argument, target) ==
  CASE argument[1] = "npc" /\ target = "faceTextureIdentity" -> NPC(FaceTextureIdentity(w, argument[2]))
    [] argument[1] = "npc" /\ target = "runtimeFormID"       -> FormID(RuntimeBase(w, argument[2]))
    [] OTHER                                                 -> Value("result", target)

\* A function is called: it may overwrite every volatile register, the flags
\* and its shadow space.  An engine function ("virtual") notes its arguments.
AfterCall(regs, answer) ==
  [r \in Registers |-> IF r = "rax" THEN answer ELSE IF r \in Volatile THEN Junk ELSE regs[r]]
Shadow(stack) == [k \in DOMAIN stack |-> IF k <= ShadowWords THEN Junk ELSE stack[k]]
Aligned(before, stack) == before /\ Len(stack) % 2 = 0
Noted(regs)   == [r \in Arguments |-> regs[r]]

Called(w, cpu, target) ==
  [cpu EXCEPT
    !.regs    = AfterCall(@, Answer(w, @["rcx"], target)),
    !.flags   = Junk,
    !.stack   = Shadow(@),
    !.aligned = Aligned(@, cpu.stack),
    !.given   = IF target = "virtual" THEN Noted(cpu.regs) ELSE @]

\* One instruction.  A jump skips what is before its label; all of the jumps
\* are forward ones, but for the loop of the probe.
Execute(w, cpu, i) ==
  IF cpu.left # "" \/ (cpu.skip # "" /\ i # Label(cpu.skip)) THEN cpu
  ELSE
  CASE i.op = "push"    -> [cpu EXCEPT !.stack = <<cpu.regs[i.a]>> \o @]
    [] i.op = "pop"     -> [cpu EXCEPT !.regs[i.a] = Head(cpu.stack), !.stack = Tail(@)]
    [] i.op = "pushfq"  -> [cpu EXCEPT !.stack = <<cpu.flags>> \o @]
    [] i.op = "popfq"   -> [cpu EXCEPT !.flags = Head(cpu.stack), !.stack = Tail(@)]
    [] i.op = "sub"     -> [cpu EXCEPT !.stack = [k \in 1 .. i.a |-> Junk] \o @, !.flags = Junk]
    [] i.op = "add"     -> [cpu EXCEPT !.stack = SubSeq(@, i.a + 1, Len(@)), !.flags = Junk]
    [] i.op = "mov"     -> [cpu EXCEPT !.regs[i.a] = cpu.regs[i.b]]
    [] i.op = "const"   -> [cpu EXCEPT !.regs[i.a] = Value(i.b, "")]
    [] i.op = "load"    -> IF cpu.regs[i.b] = NPC("null") THEN [cpu EXCEPT !.left = "fault"]
                           ELSE [cpu EXCEPT !.regs[i.a] = Field(w, cpu.regs[i.b], i.field)]
    [] i.op = "clobber" -> [cpu EXCEPT !.regs[i.a] = Junk, !.flags = Junk]
    [] i.op = "and"     -> LET masked == <<"and", cpu.regs[i.a][2], cpu.regs[i.b][2]>>
                           IN  [cpu EXCEPT !.regs[i.a] = masked, !.flags = masked]
    [] i.op = "test"    -> [cpu EXCEPT !.flags = Flag(IsZero(cpu.regs[i.a]))]
    [] i.op = "cmpFFFF" -> [cpu EXCEPT !.flags = Flag(cpu.regs[i.a] = Value("ownerIndex", "FFFF"))]
    [] i.op = "cmpOperational" -> [cpu EXCEPT !.flags = Flag(~w.operational)]
    [] i.op = "probe"   ->
         LET found == cpu.regs[i.a] = FormID("base") /\ w.binding # "absent"
         IN  [cpu EXCEPT !.regs[i.b] = IF found THEN Value("slot", "") ELSE Junk,
                         !.flags = Flag(~found)]
    [] i.op = "jz"      -> [cpu EXCEPT !.skip = IF cpu.flags = Flag(TRUE) THEN i.a ELSE ""]
    [] i.op = "jnz"     -> [cpu EXCEPT !.skip = IF cpu.flags = Flag(TRUE) THEN "" ELSE i.a]
    [] i.op = "label"   -> [cpu EXCEPT !.skip = ""]
    [] i.op = "call"    -> Called(w, cpu, i.a)
    [] i.op = "enter"   -> [cpu EXCEPT !.stack = <<ReturnAddress>> \o @, !.left = i.a]
    [] i.op = "jmp"     -> [cpu EXCEPT !.left = i.a]
    [] i.op = "ret"     -> [cpu EXCEPT !.stack = Tail(@),
                              !.left = IF Head(cpu.stack) = ReturnAddress THEN "site" ELSE "astray"]

\* The processor after the first k instructions, and after all of them.
Run(w, cpu, code) ==
  LET after[k \in 0 .. Len(code)] ==
        IF k = 0 THEN cpu ELSE Execute(w, after[k - 1], code[k])
  IN  after[Len(code)]

-----------------------------------------------------------------------------
(* The sites, in the order of the tables of the code: the kind of read, and *)
(* for a base read the registers of the actor and of the result.           *)

BaseRead(actor, result) == [kind |-> "baseRead", actor |-> actor, result |-> result]
Texture(kind)           == [kind |-> kind, actor |-> "", result |-> ""]

kBaseReadSites ==
  << BaseRead("r14", "rdi"), BaseRead("r14", "r8"),  BaseRead("r14", "rcx"), BaseRead("r14", "rcx"),
     BaseRead("rdi", "rbx"), BaseRead("rcx", "rsi"), BaseRead("r13", "r13"), BaseRead("rax", "rcx"),
     BaseRead("rax", "rcx"), BaseRead("rax", "rcx"), BaseRead("rsi", "rax"), BaseRead("rbx", "rdi"),
     BaseRead("rcx", "rsi"), BaseRead("rax", "rbp"), BaseRead("r8", "rdi"),  BaseRead("rax", "rdi") >>

kTextureIdentitySites ==
  << Texture("formIDThenLookup"), Texture("ownerFileLookup"), Texture("maskedFormID"),
     Texture("compositeOwnerIndex"), Texture("compositeMaskedFormID") >>

GeometryLookup == [kind |-> "geometryLookup", actor |-> "r12", result |-> ""]

Sites == kBaseReadSites \o kTextureIdentitySites \o <<GeometryLookup>>

\* The instructions of the engine that a patch overwrites.
Stolen(site) ==
  CASE site.kind = "baseRead"         -> <<Load(site.result, site.actor, "npc")>>
    [] site.kind = "formIDThenLookup" -> <<Load("rdx", "rsi", "formID"), Enter("lookup")>>
    [] site.kind = "ownerFileLookup"  -> <<Mov("rcx", "rsi"), Enter("getFile")>>
    [] site.kind = "maskedFormID"     -> <<Load("rdx", "rsi", "formID"), Mov("rbx", "rdx"), And("rbx", "rax")>>
    [] site.kind = "compositeOwnerIndex"   -> <<Load("rdx", "rsi", "ownerIndex"), Const("r10", "FFFF")>>
    [] site.kind = "compositeMaskedFormID" -> <<Load("rdi", "rsi", "formID"), And("rdi", "rax")>>
    [] site.kind = "geometryLookup"        -> <<Call("virtual")>>

-----------------------------------------------------------------------------
(* The thunks.                                                             *)

\* mutant: the result is not left out.
SelectScratchRegisters_First(result) == SubSeq(<<"rax", "rcx", "rdx", "r10", "r11">>, 1, 4)

\* Four registers to work in, none of which is the result.
SelectScratchRegisters(result) ==
  LET candidates == <<"rax", "rcx", "rdx", "r10", "r11">>
      Passed(k)  == result \in {candidates[j] : j \in 1 .. k}
  IN  [k \in 1 .. 4 |-> candidates[IF Passed(k) THEN k + 1 ELSE k]]

BaseReadThunk(site) ==
  LET scratch == SelectScratchRegisters(site.result)
      result  == site.result
      byteOffset == scratch[1]   table == scratch[2]   key == scratch[3]   remaining == scratch[4]
  IN  <<Plain("pushfq")>> \o PushAll(scratch)
      \o << Load(result, site.actor, "npc"), Test(result), Jz("done"),
            Clobber(table), Plain("cmpOperational"), Jz("done"),
            Load(key, result, "formID"), Test(key), Jz("done"),
            Clobber(byteOffset), Clobber(remaining), Probe(key, table), Jz("done"),
            Load(remaining, table, "active"), Test(remaining), Jz("done"),
            Load(remaining, table, "source"), Test(remaining), Jz("done"),
            Clobber(table), Mov(result, remaining), Label("done") >>
      \o PopAll(Reverse(scratch)) \o << Plain("popfq"), Plain("ret") >>

GeometryLookupTelemetryThunk ==
  << Push("rcx"), Push("rdx"), Sub(5), Call("virtual"), Add(5), Pop("r11"), Pop("r10"),
     Clobber("rcx"), Clobber("rdx"), Clobber("r10"), Test("rax"), Jnz("recordBase"),
     Clobber("r10"), Label("recordBase"), Load("r10", "r12", "npc"), Test("r10"), Jz("done"),
     Load("r10", "r10", "formID"), Clobber("r11"), Label("done"), Plain("ret") >>

TextureFormIDLookupThunk ==
  << Push("rcx"), Sub(4), Mov("rcx", "rsi"), Clobber("rax"), Call("runtimeFormID"),
     Mov("rdx", "rax"), Add(4), Pop("rcx"), Clobber("rax"), Jmp("lookup") >>

TextureOwnerFileThunk ==
  << Sub(5), Mov("rcx", "rsi"), Clobber("rax"), Call("faceTextureIdentity"),
     Add(5), Mov("rcx", "rax"), Clobber("rax"), Jmp("getFile") >>

TextureMaskedFormIDThunk ==
  LET saved == <<"rax", "rcx", "r8", "r9", "r10", "r11">>
  IN  PushAll(saved)
      \o << Sub(5), Mov("rcx", "rsi"), Clobber("rax"), Call("faceTextureIdentity"),
            Load("rdx", "rax", "formID"), Add(5) >>
      \o PopAll(Reverse(saved))
      \o << Mov("rbx", "rdx"), And("rbx", "rax"), Plain("ret") >>

CompositeMaskedFormIDThunk ==
  LET saved == <<"rax", "rcx", "rdx", "r8", "r9", "r10", "r11">>
  IN  PushAll(saved)
      \o << Sub(4), Mov("rcx", "rsi"), Clobber("rax"), Call("faceTextureIdentity"),
            Load("rdi", "rax", "formID"), Add(4) >>
      \o PopAll(Reverse(saved)) \o << And("rdi", "rax"), Plain("ret") >>

CompositeOwnerIndexThunk ==
  LET saved == <<"rax", "rcx", "r8", "r9", "r11">>
  IN  <<Plain("pushfq")>> \o PushAll(saved)
      \o << Sub(5), Mov("rcx", "rsi"), Clobber("rax"), Call("faceTextureIdentity"),
            Load("rdx", "rax", "ownerIndex"), Const("r10", "FFFF"),
            CmpFFFF("rdx"), Jnz("ownerReady"), Const("rdx", "0"),
            Label("ownerReady"), Add(5) >>
      \o PopAll(Reverse(saved)) \o << Plain("popfq"), Plain("ret") >>

\* GenerateThunk, GenerateTextureIdentityThunk and
\* GenerateGeometryLookupTelemetryThunk: the thunk of a site.
Thunk(site) ==
  CASE site.kind = "baseRead"              -> BaseReadThunk(site)
    [] site.kind = "formIDThenLookup"      -> TextureFormIDLookupThunk
    [] site.kind = "ownerFileLookup"       -> TextureOwnerFileThunk
    [] site.kind = "maskedFormID"          -> TextureMaskedFormIDThunk
    [] site.kind = "compositeOwnerIndex"   -> CompositeOwnerIndexThunk
    [] site.kind = "compositeMaskedFormID" -> CompositeMaskedFormIDThunk
    [] site.kind = "geometryLookup"        -> GeometryLookupTelemetryThunk

\* The processor as the engine reaches a site.
Arriving(w, site) ==
  [regs    |-> [r \in Registers |-> IF r = site.actor THEN Value("actor", "")
                                    ELSE IF r = "rsi" /\ site.kind \notin {"baseRead", "geometryLookup"}
                                         THEN NPC(w.npc) ELSE In(r)],
   flags   |-> In("flags"), stack |-> Frame, aligned |-> TRUE, skip |-> "", left |-> "", given |-> [r \in Arguments |-> Junk]]

\* The engine's own instructions, run to where they end or leave.
RunOriginal(w, site) == Run(w, Arriving(w, site), Stolen(site))

\* The patched site: a CALL to the thunk, then NOPs up to the next instruction.
RunPatched(w, site) ==
  LET cpu  == Arriving(w, site)
      done == Run(w, [cpu EXCEPT !.stack = <<ReturnAddress>> \o @], Thunk(site))
  IN  [done EXCEPT !.left = IF @ = "site" THEN "" ELSE @]
=============================================================================
