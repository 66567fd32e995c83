------------------------------ MODULE MCWebhook ------------------------------
EXTENDS Webhook

\* web runs in both regions, api at home, far in the other one; all of one repository,
\* so web and api build from one checkout and share the bay.toml t; w is watched by web
\* alone, a is under the context of api alone; img runs a pulled image.
BoxesDef == {"eu", "us"}
ServicesDef == {"web", "api", "far", "img"}
InDef == [s \in ServicesDef |-> IF s = "far" THEN {"us"} ELSE IF s = "web" THEN BoxesDef ELSE {"eu"}]
IncludeDef == [s \in ServicesDef |-> IF s = "web" THEN {"w"} ELSE {}]
ContextDef == [s \in ServicesDef |-> IF s = "api" THEN {"a"} ELSE {}]
ExcludeDef == [s \in ServicesDef |-> {}]
OwnDef == [s \in ServicesDef |-> IF s = "img" THEN {} ELSE {"t"}]
SharedDef == [s \in ServicesDef |-> IF s = "img" THEN {} ELSE {"o"}]
SiblingsDef == [s \in ServicesDef |-> IF s = "web" THEN <<"far", "api">> ELSE <<>>]
ImageMapDef == <<"img">>
Plain(files) == [files |-> files, forced |-> FALSE]
ContentsDef == <<{Plain({"w"})}, {[files |-> {"t"}, forced |-> TRUE]}>>
HooksDef == {"web"}
ConnsDef == 1..2
=============================================================================
