----------------------------- MODULE MCPorcelain -----------------------------
(* The verbs on campaigns, pull requests and intents, and the installation *)
(* of Git hooks.  A behaviour runs one part, "verbs" or "hooks".           *)
EXTENDS Porcelain, Hooks

CONSTANTS p1, p2, a1, a2

VARIABLE part

\* Two kinds of hook; the user's may lack the execute bit.
MCHookKinds == <<"post-commit", "pre-push">>
MCUserHooks == {<<"user", "x">>, <<"user", "plain">>}
MCNotRunnable == {<<"user", "plain">>}

OnePanelEach == {("lens" :> "approve"), ("lens" :> "reject"), ("other" :> "fix_first")}

CampaignKinds == {"campaign.opened", "campaign.closed", "campaign.abandoned"}

PrKinds == {"pr.opened", "pr.queued", "pr.landed"}

\* Pull requests and campaigns; verdicts; authors; cost and captured commits.
PrMix == [kinds |-> CampaignKinds \cup PrKinds \cup {"pr.abandoned"}, room |-> 7, authors |-> {}]
VerdictMix == [kinds |-> CampaignKinds \cup {"intent.landed", "verdict.recorded"}, room |-> 4, authors |-> {a1}]
AuthorMix == [kinds |-> {"campaign.opened", "campaign.closed", "intent.landed"}, room |-> 3, authors |-> {a1, a2}]
CostMix == [kinds |-> PrKinds \cup {"ctx.usage", "ref.update"}, room |-> 4, authors |-> {}]

Mix == {PrMix, VerdictMix, AuthorMix, CostMix}

\* Three pull requests that are opened, queued and landed in any order.
QueueMix == {[kinds |-> PrKinds \cup {"ref.update"}, room |-> 8, authors |-> {}]}
OneVerdict == {("lens" :> "approve")}

TwoPrs == {p1, p2}
PrSymmetry == Permutations(Prs)

PorcelainInit ==
  /\ part \in {"verbs", "hooks"}
  /\ Init /\ (part # "verbs" => mix = PrMix)
  /\ HooksInit
  /\ part # "hooks" => configured = "unset" /\ \A k \in DOMAIN hook : hook[k] = Absent

PorcelainNext ==
  /\ UNCHANGED part
  /\ \/ part = "verbs" /\ Next /\ UNCHANGED hookVars
     \/ part = "hooks" /\ HooksNext /\ UNCHANGED vars

PorcelainSpec == PorcelainInit /\ [][PorcelainNext]_<<part, vars, hookVars>>
=============================================================================
