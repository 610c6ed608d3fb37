-------------------------- MODULE RenderSourceHooks -------------------------
(***************************************************************************)
(* The hooks of src/Runtime/RenderSourceHooks.cpp: their installation as   *)
(* the plugin is loaded (SFSE_PLUGIN_LOAD in src/main.cpp), and what the   *)
(* engine meets at the hooked sites from then on.                          *)
(*                                                                         *)
(* The plugin is loaded before the engine runs any of the hooked           *)
(* functions, so a site is reached only when SFSE_PLUGIN_LOAD has returned;*)
(* a refused plugin is unloaded, and the game goes on without it.          *)
(* The binding of "base" changes as RenderSourceBindings describes.        *)
(***************************************************************************)
EXTENDS RenderThunks

VARIABLES
  pc,           \* how far InstallRenderSourceHooks is
  prepared,     \* how many sites have a prepared patch, in the order of Sites
  patched,      \* the sites whose instructions have been overwritten
  installed,    \* g_installed
  plugin,       \* what SFSE makes of the plugin: "loading", "loaded", "refused"
  armed,        \* RunStartupScan armed the overlay runtime
  operational,  \* g_runtimeOperational
  binding,      \* the registry's slot of "base": "absent", "inactive", "active"
  last          \* the run of a site by the engine: the site, the world, its code, the result

installVars == <<pc, prepared, patched, installed, plugin>>
runtimeVars == <<armed, operational, binding>>
vars == <<installVars, runtimeVars, last>>

NoRun == [site |-> 0]

Init ==
  /\ pc = "preflight" /\ prepared = 0 /\ patched = {} /\ installed = FALSE
  /\ plugin = "loading"
  /\ armed = FALSE /\ operational = TRUE /\ binding = "absent"
  /\ last = NoRun

-----------------------------------------------------------------------------
(* InstallRenderSourceHooks.                                               *)

\* The byte gates of every site, and the validation of the registry's layout.
\* A gate that fails, or a layout that throws, leaves the function.
PreflightSites ==
  /\ pc = "preflight"
  /\ \E matches \in BOOLEAN : pc' = IF matches THEN "prepare" ELSE "returned"
  /\ UNCHANGED <<prepared, patched, installed, plugin, runtimeVars, last>>

\* mutant: the patch is written as soon as it is prepared.
PrepareCallPatch_Written ==
  /\ pc = "prepare" /\ prepared < Len(Sites)
  /\ \/ /\ prepared' = prepared + 1 /\ patched' = 1 .. prepared'
        /\ pc' = IF prepared' = Len(Sites) THEN "write" ELSE "prepare"
     \/ pc' = "returned" /\ UNCHANGED <<prepared, patched>>
  /\ UNCHANGED <<installed, plugin, runtimeVars, last>>

\* PrepareCallPatch of the next site.  Its thunk may be out of the range of a
\* call, and its generation or allocation may throw.
PrepareCallPatch ==
  /\ pc = "prepare" /\ prepared < Len(Sites)
  /\ \/ /\ prepared' = prepared + 1
        /\ pc' = IF prepared' = Len(Sites) THEN "write" ELSE "prepare"
     \/ pc' = "returned" /\ UNCHANGED prepared
  /\ UNCHANGED <<patched, installed, plugin, runtimeVars, last>>

\* The patch of the next site is written: a copy that does not fail.
WritePatch ==
  /\ pc = "write"
  /\ \E k \in DOMAIN Sites : patched = 1 .. k - 1 /\ patched' = 1 .. k
  /\ UNCHANGED <<pc, prepared, installed, plugin, runtimeVars, last>>

FinishInstall ==
  /\ pc = "write" /\ patched = DOMAIN Sites
  /\ installed' = TRUE /\ pc' = "returned"
  /\ UNCHANGED <<prepared, patched, plugin, runtimeVars, last>>

\* mutant: the plugin is loaded whatever the installation returns.
SFSEPluginLoad_Always ==
  /\ pc = "returned" /\ plugin = "loading"
  /\ plugin' = "loaded"
  /\ UNCHANGED <<pc, prepared, patched, installed, runtimeVars, last>>

\* SFSE_PLUGIN_LOAD refuses to load the plugin when the installation failed.
SFSEPluginLoad ==
  /\ pc = "returned" /\ plugin = "loading"
  /\ plugin' = IF installed THEN "loaded" ELSE "refused"
  /\ UNCHANGED <<pc, prepared, patched, installed, runtimeVars, last>>

-----------------------------------------------------------------------------
(* The runtime, as far as the hooks see it.                                *)

\* RunStartupScan found assignments and armed the overlay runtime.
RunStartupScan ==
  /\ plugin = "loaded" /\ ~armed
  /\ armed' = TRUE
  /\ UNCHANGED <<installVars, operational, binding, last>>

\* PublishRenderSource, ActivateRenderSource and DeactivateRenderSource.
PublishRenderSource    == binding = "absent"   /\ binding' = "inactive"
ActivateRenderSource   == binding = "inactive" /\ binding' = "active"
DeactivateRenderSource == binding = "active"   /\ binding' = "inactive"

\* Each comes from the armed overlay runtime, and each may be under way as
\* another thread kills the runtime.
ChangeBinding ==
  /\ armed
  /\ PublishRenderSource \/ ActivateRenderSource \/ DeactivateRenderSource
  /\ UNCHANGED <<installVars, armed, operational, last>>

KillRuntime ==
  /\ armed /\ operational
  /\ operational' = FALSE
  /\ UNCHANGED <<installVars, armed, binding, last>>

-----------------------------------------------------------------------------
(* The engine.                                                             *)

\* What an actor's base may be.  "base" is the NPC with the slot.
ActorBases == {"null", "base", "other", "unregistered"}

\* The texture code is given what the base reads returned, and the compositor
\* is given a source that is published but not yet active.
TextureNPCs == {"base", "configured", "other"} \cup (IF binding = "absent" THEN {} ELSE {"source"})

Worlds(site) ==
  [base        : IF site.kind \in {"baseRead", "geometryLookup"} THEN ActorBases ELSE {"null"},
   npc         : IF site.kind \in {"baseRead", "geometryLookup"} THEN {"null"} ELSE TextureNPCs,
   operational : {operational},
   binding     : {binding}]

\* The engine reaches a site and runs what it finds there.  How the loads of a
\* thunk interleave with other threads is the subject of RenderSourceRegistry.
ReachSite(k) ==
  /\ plugin # "loading" /\ last = NoRun
  /\ \E w \in Worlds(Sites[k]) :
       last' = [site   |-> k, world |-> w, thunk |-> k \in patched,
                result |-> IF k \in patched THEN RunPatched(w, Sites[k])
                                            ELSE RunOriginal(w, Sites[k])]
  /\ UNCHANGED <<installVars, runtimeVars>>

\* It goes on with what follows the site.
LeaveSite == last # NoRun /\ last' = NoRun /\ UNCHANGED <<installVars, runtimeVars>>

Next ==
  \/ PreflightSites \/ PrepareCallPatch \/ WritePatch \/ FinishInstall \/ SFSEPluginLoad
  \/ RunStartupScan \/ ChangeBinding \/ KillRuntime
  \/ \E k \in DOMAIN Sites : ReachSite(k)
  \/ LeaveSite

Spec == Init /\ [][Next]_vars

-----------------------------------------------------------------------------
(* What a thunk promises: the engine's instructions, with another NPC.     *)

\* Where the engine may read an NPC's binding, the source replaces the NPC.
Redirected(w, n) ==
  IF n = "base" /\ w.operational /\ w.binding = "active" THEN "source" ELSE n

\* The stolen instructions, run on the NPC that the thunk puts in place.  One
\* deviation is the thunk's own: the owner index FFFF, which an NPC without an
\* owner has, becomes 0, whatever the registry holds (EmptyRegistryIsVanilla).
Promised(w, site) ==
  LET plain == RunOriginal(w, site)
  IN  CASE site.kind = "baseRead" ->
             [plain EXCEPT !.regs[site.result] = NPC(Redirected(w, w.base))]
        [] site.kind = "geometryLookup" -> plain
        [] OTHER ->
             LET n == IF site.kind = "formIDThenLookup" THEN RuntimeBase(w, w.npc)
                                                        ELSE FaceTextureIdentity(w, w.npc)
                 substituted == RunOriginal([w EXCEPT !.npc = n], site)
                 owner == substituted.regs["rdx"]
             IN  [substituted EXCEPT
                   !.regs["rsi"] = plain.regs["rsi"],
                   !.regs["rdx"] = IF site.kind = "compositeOwnerIndex"
                                      /\ owner = Value("ownerIndex", "FFFF")
                                   THEN Value("0", "") ELSE owner]

\* The registers that what follows a site can tell apart: all of them after
\* plain instructions, and those that a call preserves, or that hold its
\* arguments or its result, at a call.
Observable(site) ==
  CASE site.kind = "formIDThenLookup" -> (Registers \ Volatile) \cup {"rcx", "rdx"}
    [] site.kind = "ownerFileLookup"  -> (Registers \ Volatile) \cup {"rcx"}
    [] site.kind = "geometryLookup"   -> (Registers \ Volatile) \cup {"rax"}
    [] OTHER                          -> Registers

\* After a call the flags mean nothing.
FlagsMatter(site) ==
  site.kind \notin {"formIDThenLookup", "ownerFileLookup", "geometryLookup"}

Indistinguishable(site, got, want) ==
  /\ got.left = want.left
  /\ got.stack = want.stack
  /\ got.given = want.given
  /\ \A r \in Observable(site) : got.regs[r] = want.regs[r]
  /\ FlagsMatter(site) => got.flags = want.flags

-----------------------------------------------------------------------------
(* Properties.                                                             *)

TypeOK ==
  /\ pc \in {"preflight", "prepare", "write", "returned"}
  /\ prepared \in 0 .. Len(Sites)
  /\ patched \in {1 .. k : k \in 0 .. Len(Sites)}
  /\ installed \in BOOLEAN
  /\ plugin \in {"loading", "loaded", "refused"}
  /\ armed \in BOOLEAN /\ operational \in BOOLEAN
  /\ binding \in {"absent", "inactive", "active"}
  /\ last.site \in {0} \cup DOMAIN Sites

\* Whatever the registry and the actor are, the code after a patched site goes
\* on as after the instructions that were there, with the promised NPC and no
\* other difference: the thunks restore every register, the flags and the
\* stack, and call their resolvers on an aligned stack with shadow space.  The
\* one thing a thunk changes besides the NPC, an owner index, is in Promised.
ThunkContract ==
  last.site # 0 /\ last.thunk =>
    /\ last.result.aligned
    /\ Indistinguishable(Sites[last.site], last.result, Promised(last.world, Sites[last.site]))

\* An installation that fails, at whichever site, has changed no engine code:
\* the thunks are gone with the plugin that is refused.
RefusedMeansUntouched == plugin = "refused" => patched = {}

\* A source is published to the engine only when all of its reads are
\* redirected: a source seen through an unpatched texture site would be named
\* by its FormID 0.
PublishedOnlyWhenRedirected == binding # "absent" => installed /\ patched = DOMAIN Sites

\* docs/ARCHITECTURE.md: "Once installed, an empty registry is behaviorally vanilla".
\* As long as nothing is published, the code after a patched site finds what the
\* instructions that were there would have left.
EmptyRegistryIsVanilla ==
  last.site # 0 /\ last.thunk /\ last.world.binding = "absent" =>
    Indistinguishable(Sites[last.site], last.result, RunOriginal(last.world, Sites[last.site]))
=============================================================================
