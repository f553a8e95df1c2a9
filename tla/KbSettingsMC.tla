----------------------------- MODULE KbSettingsMC -----------------------------
\* Settings of two parts, one of which the shortcuts change; two subscribers.
EXTENDS KbSettings

MCParts == {"mode", "mappings"}
=============================================================================
