INIT Init
NEXT Next
INVARIANT ApiRulesHonoured
