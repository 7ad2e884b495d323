---------------------------- MODULE MCSingleTab ----------------------------
EXTENDS SingleTab

CONSTANTS main, popup, other

MCTabs == {main, popup, other}
=============================================================================
