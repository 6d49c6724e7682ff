------------------------------- MODULE Hooks -------------------------------
(***************************************************************************)
(* Hook installation (hugit-cli, attach.rs, init/mod.rs, setup.rs): hugit  *)
(* puts its capture scripts where the user may have hooks of their own.    *)
(* `hugit attach` adopts a foreign hook behind a dispatcher and keeps it   *)
(* as a backup; `init` and `setup --repo` install missing hooks; a second  *)
(* adoption protocol writes a prepared manifest first and can be resumed;  *)
(* each has its own detach.  A hook's bytes are a value, and a digest is   *)
(* the value.  The user edits hooks at any time; a verb may die anywhere.  *)
(***************************************************************************)
EXTENDS Naturals, Sequences, SequencesExt

CONSTANTS HookKinds,   \* HOOK_KINDS, in order
          UserHooks,   \* what the user may write: <<"user", x>>
          NotRunnable, \* those of them that lack the execute bit
          MaxEdits, MaxVerbs

IsUser(bytes) == bytes[1] = "user"

ASSUME HooksAssumption ==
  /\ HookKinds \in Seq(STRING)
  /\ \A bytes \in UserHooks: IsUser(bytes)

VARIABLES hook,        \* bytes of each hook file
          foreign,     \* hooks-v1/foreign: (kind, bytes) -> "whole" or "torn"
          manifest,    \* hooks-v1/manifest.json: kind -> record, or none
          backups,     \* hook-backups/: (kind, bytes), written atomically
          adoption,    \* hook-manifest.json
          work,        \* the verb that is running
          last,        \* history: the user's latest bytes of each kind
          template,    \* the template directory: dir, hooks written, owned marker
          configured,  \* git config --global init.templateDir
          unread, torn, \* history: kinds written over unread, or from a torn backup
          edits, verbs \* bounds

fileVars == <<hook, foreign, manifest, backups, adoption>>
hookVars == <<fileVars, work, last, unread, torn, edits, verbs, template, configured>>

Absent == <<"absent", "">>
Script == <<"script", "">>      \* hook_script(kind)
OldScript == <<"old script", "">>  \* a script of an earlier version of hugit

KindSet == ToSet(HookKinds)

\* attach's dispatcher runs an executable backup before the capture body; its
\* text holds the marker and version lines of the script.  Without a backup to
\* run it is the script itself.
dispatcher(bytes) ==
  IF bytes = Absent \/ bytes \in NotRunnable THEN Script ELSE <<"dispatcher", bytes>>
\* init's dispatcher leaves the marker and version lines out.
dispatcher_script(bytes) == <<"managed", bytes>>

is_managed_hook(bytes) == bytes = Script
\* install_hooks recognises a script of another version by its two lines.
Upgradable(bytes) == bytes = OldScript \/ bytes[1] = "dispatcher"
IsForeign(bytes) == bytes # Absent /\ ~is_managed_hook(bytes) /\ bytes[1] # "managed"

NoManifest == [k \in KindSet |-> [disp |-> Absent, backup |-> Absent]]
NoAdoption == [state |-> "none", token |-> {}]
Resting == [verb |-> "none"]

Begin(w) == work.verb = "none" /\ verbs < MaxVerbs /\ verbs' = verbs + 1 /\ work' = w
End == work' = Resting
Continue == work' = [work EXCEPT !.at = @ + 1]
Current == HookKinds[work.at]
More == work.at <= Len(HookKinds)

----------------------------------------------------------------------------
(* hugit attach                                                            *)

\* A hook whose bytes the manifest records is hugit's; any other is foreign.
plan_of(k) ==
  IF hook[k] = Absent THEN [what |-> "install", bytes |-> Absent]
  ELSE IF manifest[k].disp = hook[k] THEN [what |-> "owned", bytes |-> manifest[k].backup]
  ELSE [what |-> "adopt", bytes |-> hook[k]]

\* Without a token nothing is touched when a foreign hook is there.
attach_do_run(token) ==
  LET plan == [k \in KindSet |-> plan_of(k)]
  IN /\ ~(token = Absent /\ \E k \in KindSet: plan[k].what = "adopt")
     /\ Begin([verb |-> "attach", at |-> 1, plan |-> plan, token |-> token, seen |-> hook])
     /\ UNCHANGED <<hook, foreign, manifest, backups, adoption, last, unread, torn, edits, template, configured>>

token(k, bytes) == <<k, bytes>>

\* The one token given must be that of this hook.
attach_refused(k) == work.plan[k].what = "adopt" /\ work.token # token(k, work.plan[k].bytes)

\* An existing backup path is never replaced.  A fresh one is created empty
\* and then written.
attach_backup ==
  /\ work.verb = "attach" /\ More
  /\ LET k == Current
         b == <<k, work.plan[k].bytes>>
     IN \/ attach_refused(k) /\ End /\ UNCHANGED foreign
        \/ /\ ~attach_refused(k) /\ work.plan[k].what = "adopt" /\ b \notin DOMAIN foreign
           /\ foreign' = [x \in DOMAIN foreign \union {b} |-> IF x = b THEN "torn" ELSE foreign[x]]
           /\ work' = [work EXCEPT !.verb = "attach_write"]
  /\ UNCHANGED <<hook, manifest, backups, adoption, last, unread, torn, edits, verbs, template, configured>>

attach_backup_write ==
  /\ work.verb = "attach_write"
  /\ foreign' = [foreign EXCEPT ![<<Current, work.plan[Current].bytes>>] = "whole"]
  /\ work' = [work EXCEPT !.verb = "attach"]
  /\ UNCHANGED <<hook, manifest, backups, adoption, last, unread, torn, edits, verbs, template, configured>>

\* atomic_hook renames over whatever is at the path by now.
atomic_hook ==
  /\ work.verb = "attach" /\ More
  /\ LET k == Current
         p == work.plan[k]
     IN /\ ~attach_refused(k)
        /\ p.what = "adopt" => <<k, p.bytes>> \in DOMAIN foreign
        /\ hook' = [hook EXCEPT ![k] = dispatcher(p.bytes)]
        /\ unread' = IF hook[k] # work.seen[k] THEN unread \union {k} ELSE unread
        /\ torn' = IF p.what = "adopt" /\ foreign[<<k, p.bytes>>] = "torn"
                   THEN torn \union {k} ELSE torn
  /\ Continue
  /\ UNCHANGED <<foreign, manifest, backups, adoption, last, edits, verbs, template, configured>>

attach_manifest ==
  /\ work.verb = "attach" /\ ~More
  /\ manifest' = [k \in KindSet |-> [disp |-> dispatcher(work.plan[k].bytes),
                                     backup |-> work.plan[k].bytes]]
  /\ End
  /\ UNCHANGED <<hook, foreign, backups, adoption, last, unread, torn, edits, verbs, template, configured>>

\* attach --detach: only a hook that still is its dispatcher is restored, and
\* an altered backup stops the detach.
attach_detach ==
  /\ manifest # NoManifest
  /\ Begin([verb |-> "detach", at |-> 1])
  /\ UNCHANGED <<hook, foreign, manifest, backups, adoption, last, unread, torn, edits, template, configured>>

attach_detach_step ==
  /\ work.verb = "detach"
  /\ IF ~More THEN End /\ UNCHANGED hook
     ELSE LET k == Current
              r == manifest[k]
          IN IF hook[k] # r.disp THEN Continue /\ UNCHANGED hook
             ELSE IF r.backup # Absent /\ foreign[<<k, r.backup>>] = "torn"
             THEN End /\ UNCHANGED hook
             ELSE hook' = [hook EXCEPT ![k] = r.backup] /\ Continue
  /\ UNCHANGED <<foreign, manifest, backups, adoption, last, unread, torn, edits, verbs, template, configured>>

----------------------------------------------------------------------------
(* hugit init, hugit setup --repo                                          *)

install_hooks ==
  /\ Begin([verb |-> "install", at |-> 1])
  /\ UNCHANGED <<hook, foreign, manifest, backups, adoption, last, unread, torn, edits, template, configured>>

install_step ==
  /\ work.verb = "install"
  /\ IF ~More THEN End /\ UNCHANGED hook
     ELSE /\ hook' = IF hook[Current] = Absent \/ Upgradable(hook[Current])
                     THEN [hook EXCEPT ![Current] = Script] ELSE hook
          /\ Continue
  /\ UNCHANGED <<foreign, manifest, backups, adoption, last, unread, torn, edits, verbs, template, configured>>

----------------------------------------------------------------------------
(* init::attach_run with --adopt-managed-dispatcher                        *)

\* The token binds every foreign hook with its bytes.
adoption_token == {<<k, hook[k]>>: k \in {x \in KindSet: IsForeign(hook[x])}}

\* A manifest that is there must carry this token; without one the token must
\* be the current one, the backups are written and the manifest is prepared.
adopt_managed_dispatchers(tok) ==
  /\ IF adoption # NoAdoption
     THEN adoption.token = tok /\ UNCHANGED <<backups, adoption>>
     ELSE /\ tok = adoption_token
          /\ backups' = backups \union tok
          /\ adoption' = [state |-> "prepared", token |-> tok]
  /\ Begin([verb |-> "adopt", at |-> 1])
  /\ UNCHANGED <<hook, foreign, manifest, last, unread, torn, edits, template, configured>>

EntryOf(k) == CHOOSE e \in adoption.token: e[1] = k
HasEntry(k) == \E e \in adoption.token: e[1] = k

\* Mutant: the bytes at the path are not compared with the backup.
adopt_changed_never(k, before) == FALSE

\* A hook that is neither its dispatcher nor its backup changed under us.
adopt_changed(k, before) == hook[k] # before /\ hook[k] # dispatcher_script(before)

\* A write error rolls every entry back that is its dispatcher.
rollback_adoption(h) ==
  [k \in KindSet |-> IF HasEntry(k) /\ h[k] = dispatcher_script(EntryOf(k)[2])
                     THEN EntryOf(k)[2] ELSE h[k]]

adopt_step ==
  /\ work.verb = "adopt"
  /\ IF ~More
     THEN adoption' = [adoption EXCEPT !.state = "installed"] /\ End /\ UNCHANGED hook
     ELSE /\ UNCHANGED adoption
          /\ IF ~HasEntry(Current) THEN Continue /\ UNCHANGED hook
             ELSE LET before == EntryOf(Current)[2]
                  IN IF adopt_changed(Current, before) THEN End /\ UNCHANGED hook
                     ELSE \/ /\ hook' = [hook EXCEPT ![Current] = dispatcher_script(before)]
                             /\ Continue
                          \/ hook' = rollback_adoption(hook) /\ End
  /\ UNCHANGED <<foreign, manifest, backups, last, unread, torn, edits, verbs, template, configured>>

\* hugit detach: restore adopted hooks that still are their dispatchers, then
\* remove the hooks that are hugit's script, byte for byte.
detach_run ==
  /\ adoption.state # "prepared"
  /\ Begin([verb |-> "detach_run", at |-> 1])
  /\ UNCHANGED <<hook, foreign, manifest, backups, adoption, last, unread, torn, edits, template, configured>>

detach_run_step ==
  /\ work.verb = "detach_run"
  /\ IF ~More THEN End /\ UNCHANGED hook
     ELSE LET k == Current
          IN /\ hook' = IF HasEntry(k) /\ hook[k] = dispatcher_script(EntryOf(k)[2])
                        THEN [hook EXCEPT ![k] = EntryOf(k)[2]]
                        ELSE IF is_managed_hook(hook[k]) THEN [hook EXCEPT ![k] = Absent]
                        ELSE hook
             /\ Continue
  /\ UNCHANGED <<foreign, manifest, backups, adoption, last, unread, torn, edits, verbs, template, configured>>

----------------------------------------------------------------------------
(* hugit setup: a template directory for every future `git init`.          *)

owns_template == template.owned /\ template.hooks = KindSet

\* A directory that is not hugit's is refused, and so is a configured template
\* elsewhere unless the user asks to replace it.
do_setup(replace) ==
  /\ work.verb = "none" /\ verbs < MaxVerbs
  /\ template.dir => owns_template
  /\ configured = "elsewhere" => replace
  /\ verbs' = verbs + 1
  /\ work' = [verb |-> "setup", at |-> 1]
  /\ template' = [template EXCEPT !.dir = TRUE]
  /\ UNCHANGED <<fileVars, configured, last, unread, torn, edits>>

\* The scripts, then the ownership marker, then the global configuration.
setup_step ==
  /\ work.verb = "setup"
  /\ \/ /\ More
        /\ template' = [template EXCEPT !.hooks = @ \union {Current}]
        /\ Continue /\ UNCHANGED configured
     \/ /\ work.at = Len(HookKinds) + 1
        /\ template' = [template EXCEPT !.owned = TRUE]
        /\ Continue /\ UNCHANGED configured
     \/ /\ work.at = Len(HookKinds) + 2
        /\ configured' = "hugit"
        /\ End /\ UNCHANGED template
  /\ UNCHANGED <<fileVars, last, unread, torn, edits, verbs>>

----------------------------------------------------------------------------
CrashHooks ==
  /\ work.verb # "none"
  /\ End
  /\ UNCHANGED <<hook, foreign, manifest, backups, adoption, last, unread, torn, edits, verbs, template, configured>>

UserEdits(k, bytes) ==
  /\ edits < MaxEdits /\ hook[k] # bytes
  /\ edits' = edits + 1
  /\ hook' = [hook EXCEPT ![k] = bytes]
  /\ last' = [last EXCEPT ![k] = bytes]
  /\ unread' = unread \ {k} /\ torn' = torn \ {k}
  /\ UNCHANGED <<foreign, manifest, backups, adoption, work, verbs, template, configured>>

HooksInit ==
  /\ hook \in [KindSet -> UserHooks \union {Absent, OldScript}]
  /\ last = hook
  /\ foreign = [x \in {} |-> "whole"] /\ manifest = NoManifest
  /\ backups = {} /\ adoption = NoAdoption /\ work = Resting
  /\ unread = {} /\ torn = {} /\ edits = 0 /\ verbs = 0
  /\ template = [dir |-> FALSE, hooks |-> {}, owned |-> FALSE]
  /\ configured \in {"unset", "elsewhere"}

HooksNext ==
  \/ \E t \in {Absent} \union {token(k, b): k \in KindSet, b \in UserHooks \union {OldScript}}:
       attach_do_run(t)
  \/ attach_backup \/ attach_backup_write \/ atomic_hook \/ attach_manifest
  \/ attach_detach \/ attach_detach_step
  \/ install_hooks \/ install_step
  \/ \E tok \in {adoption_token, adoption.token}: adopt_managed_dispatchers(tok)
  \/ adopt_step \/ detach_run \/ detach_run_step
  \/ \E replace \in BOOLEAN: do_setup(replace)
  \/ setup_step
  \/ CrashHooks
  \/ \E k \in KindSet, b \in UserHooks: UserEdits(k, b)

HooksSpec == HooksInit /\ [][HooksNext]_hookVars

----------------------------------------------------------------------------
(* The user's latest hook is never lost: it is at its path, or a whole      *)
(* backup holds it, unless it was written after attach had read the path,   *)
(* or the backup was torn by a crash that attach did not notice.            *)
ForeignKept ==
  \A k \in KindSet \ (unread \union torn):
    IsUser(last[k]) =>
      \/ hook[k] = last[k]
      \/ <<k, last[k]>> \in backups
      \/ <<k, last[k]>> \in DOMAIN foreign /\ foreign[<<k, last[k]>>] = "whole"

(* Git is pointed at the template only when it is whole and marked hugit's: *)
(* a setup that dies part way never leaves a half template in use.          *)
TemplateWhole == configured = "hugit" => owns_template

(* Attach, adopt, init and detach, edits of the user and crashes between    *)
(* them never lose the user's hook, and a template Git may use is a whole   *)
(* one.                                                                     *)
HooksKept == ForeignKept /\ TemplateWhole

(* "Immutable content-addressed backup: never replace an existing path"     *)
(* (attach.rs): no hook is ever replaced with only a torn backup to show    *)
(* for it.                                                                  *)
BackupWhole == torn = {}

(* "Adopted dispatchers run foreign hook synchronously" (feature-ledger.md): *)
(* a hook that attach adopted runs until the user edits it or attach        *)
(* detaches it.                                                             *)
AdoptedRuns ==
  \A k \in KindSet: work.verb = "none" /\ manifest[k].backup = last[k] /\ IsUser(last[k])
      /\ last[k] \notin NotRunnable
    => hook[k] \in {last[k], dispatcher(last[k]), dispatcher_script(dispatcher(last[k]))}
=============================================================================
