--------------------------- MODULE MCPlanWorkflow ---------------------------
(* A small shop: open a page, press a button, pay.                           *)
EXTENDS PlanWorkflow, TLC

Step(id, action, target, value, effect, post) ==
    [id |-> id, intent |-> {id}, action |-> action, target |-> target,
     value |-> value, trigger |-> "", key |-> "", timeout |-> 0,
     occurrences |-> 0, idem |-> "idempotent", effect |-> effect,
     pre |-> {}, post |-> post, status |-> "pending", binding |-> NoBinding]

Open == Step("open", "goto", {}, {"shop"}, "browser_state", {})
Add == Step("add", "click", {"button"}, {}, "browser_state",
            {<<"url", "contains", "cart">>})
Pay == Step("pay", "click", {"pay"}, {}, "external_state", {})

Definition(effect, forbidden, steps) ==
    [effect |-> effect, forbidden |-> forbidden, steps |-> steps]

\* A plan, a revision that also pays, one that its own rule forbids.
MCDefinitions ==
    <<Definition("browser_state", {}, <<Open, Add>>),
      Definition("external_state", {}, <<Open, Add, Pay>>),
      Definition("browser_state", {{"pay"}}, <<Open, Pay>>)>>

Act(step, action, ref) ==
    [step |-> step, action |-> action, value |-> {}, text |-> {}, ref |-> ref]
Locator == [id |-> "", text |-> {}]
Candidate == [id |-> "c1", text |-> {"button"}]

Probe(tool, ids, acts) == [tool |-> tool, ids |-> ids, acts |-> acts]

\* The page, flows that wait for and click the payment, one that clicks a
\* candidate.
MCProbes ==
    <<Probe("explore_page", <<"open", "add">>, <<>>),
      Probe("explore_flow", <<"pay">>, <<Act("pay", "wait_for", Locator)>>),
      Probe("explore_flow", <<"pay">>, <<Act("pay", "click", Locator)>>),
      Probe("explore_flow", <<"open", "add">>, <<Act("add", "click", Candidate)>>)>>

Result(obs, evidence, succeeded, resolved) ==
    [obs |-> obs, evidence |-> evidence, succeeded |-> succeeded, resolved |-> resolved,
     elements |-> {[text |-> {"button"}, usable |-> TRUE, unique |-> TRUE,
                    editable |-> FALSE]}]

MCResults == <<Result(1, {"shop", "button"}, {}, {}),
               Result(2, {"shop", "pay"}, {1}, {1})>>

Outcome(status, category, replay) ==
    [status |-> status,
     signals |-> IF category = "" THEN {}
                 ELSE {[category |-> category, replay |-> replay]}]

MCForeign == <<[gen |-> 0, status |-> "running", signals |-> {}]>>

MCOutcomes == {Outcome("passed", "", TRUE), Outcome("failed", "locator", TRUE),
               Outcome("failed", "assertion", TRUE)}
=============================================================================
