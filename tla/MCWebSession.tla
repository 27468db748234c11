---------------------------- MODULE MCWebSession ----------------------------
(* Small instances of WebSession.                                          *)
EXTENDS WebSession

OneTab == {CHOOSE t \in Tabs : TRUE}
OneBrowser == CHOOSE b \in Browsers : TRUE
Shared == [t \in Tabs |-> OneBrowser]
Apart == [t \in Tabs |-> IF t \in OneTab THEN OneBrowser
                         ELSE CHOOSE b \in Browsers : b # OneBrowser]
Scenario(tabs, browser, events, logins) ==
  [tabs |-> tabs, browser |-> browser, events |-> events, logins |-> logins]

MCScenarios ==
  {\* Wrong passwords, from two tabs of one address at a time, before and after a login.
   Scenario(Tabs, Shared, {"time", "guess"}, 0), Scenario(OneTab, Shared, {"time", "guess"}, 1),
   \* Expiry and restarts; two tabs with one cookie; lost answers; every order of clicks.
   Scenario(Tabs, Apart, {"time", "restart"}, 1), Scenario(Tabs, Shared, {}, 2),
   Scenario(Tabs, Shared, {"giveup"}, 1), Scenario(OneTab, Shared, {"giveup", "write", "restart"}, 2),
   Scenario(OneTab, Shared, {"twice", "early", "restart", "reload"}, 2)}
=============================================================================
