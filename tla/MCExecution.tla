---------------------------- MODULE MCExecution ----------------------------
(* Small plans for Execution: each brings one way of deciding a verdict.    *)
EXTENDS Execution, TLC

Plain == [kind |-> "click", pre |-> None, branches |-> <<>>, otherwise |-> None, absent |-> None,
          frame |-> None, constrained |-> FALSE, bound |-> None, overlay |-> None, state |-> None, until |-> None, dialog |-> "optional",
          pages |-> "same_page", page |-> 0, expects |-> <<>>, quorum |-> None, webauthn |-> FALSE, redacted |-> FALSE]

With(part)       == part @@ Plain
PlanOf(ops)      == [operations |-> ops, initial |-> None, maximum |-> None, adaptive |-> FALSE]
Timed(ops, a, m) == [operations |-> ops, initial |-> a, maximum |-> m, adaptive |-> m # None]

Fills    == With([kind |-> "fill", state |-> "done", expects |-> <<"done", "request">>])
Modal    == [when |-> <<"modal">>, does |-> <<"click">>]
Finished == [when |-> <<"done", "response">>, does |-> <<>>]
Branches == With([branches |-> <<Modal, [when |-> <<"done">>, does |-> <<>>]>>, otherwise |-> <<>>,
                  pre |-> <<"url", "done">>, expects |-> <<"done">>])
NoBranch == With([branches |-> <<Modal, Finished>>, overlay |-> "modal", frame |-> "done"])
Optional == With([absent |-> <<"modal">>, expects |-> <<"done", "modal">>, dialog |-> "required",
                  quorum |-> [policy |-> "n_of_m", checks |-> {1, 2}, required |-> 1]])
AllOf    == With([kind |-> "upload_file", state |-> "done", expects |-> <<"done">>, dialog |-> "forbidden",
                  quorum |-> [policy |-> "all", checks |-> {1}, required |-> 1]])
Opens    == With([pages |-> "expect_and_switch", expects |-> <<"done">>])
Allowed  == With([pages |-> "allow"])
Back     == With([kind |-> "switch_to_opener"])
Closes   == With([kind |-> "close_page", page |-> 2])
Video    == With([kind |-> "wait_for", until |-> "video"])
Condition == With([kind |-> "wait_for", until |-> "done", expects |-> <<"done", "done">>])
Goto     == With([kind |-> "navigate", expects |-> <<"url">>])
Checks1  == With([kind |-> "set_checked", state |-> "done", expects |-> <<"done">>, redacted |-> TRUE])
Passkey  == With([webauthn |-> TRUE, state |-> "done", expects |-> <<"done">>])
Chosen   == With([kind |-> "hover", constrained |-> TRUE])
Bound    == With([kind |-> "press_key", bound |-> 2])
Rejected == With([kind |-> "fill", pages |-> "allow"])

Act(kind)  == With([kind |-> kind, state |-> "done"])
Various   == PlanOf(<<With([kind |-> "page_key", expects |-> <<"url">>]), With([kind |-> "combobox"])>>)

MCPlans == {PlanOf(<<Act("select_option")>>), PlanOf(<<Act("scroll_to_target")>>), PlanOf(<<Act("pointer_move")>>), PlanOf(<<Act("viewport_pointer")>>), Various,
            PlanOf(<<Fills>>), PlanOf(<<Goto, Branches>>), PlanOf(<<NoBranch>>), PlanOf(<<Optional>>), PlanOf(<<AllOf, Passkey>>),
            PlanOf(<<Opens, Back, Closes>>), PlanOf(<<Allowed>>), Timed(<<Video, Condition>>, 1, 4), Timed(<<Condition, Goto>>, 2, None),
            PlanOf(<<Goto, Checks1>>), PlanOf(<<Rejected>>), PlanOf(<<Chosen>>), PlanOf(<<Bound>>)}
=============================================================================
