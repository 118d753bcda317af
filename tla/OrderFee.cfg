\* One normaliser besides the admin's page, two fee rules, one fee an admin enters.
CONSTANTS
    Side = "SELL"
    Created = 3
    Lists <- MCLists
    Details <- MCDetails
    RuleIds = {f1, f2}
    Rules <- MCRules
    Manuals <- MCManuals
    Normalisers = {w1}
SPECIFICATION FeeSpec
INVARIANT FeeTypeOK
PROPERTIES FeeSettles ManualWins
CHECK_DEADLOCK FALSE
