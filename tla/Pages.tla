-------------------------------- MODULE Pages --------------------------------
(***************************************************************************)
(* What the app's pages are served from, as one process: the screener's    *)
(* cache and its warmer, the cache layer of the brief, rotation and radar, *)
(* the memories behind Home, the publisher that sends Home's sections to   *)
(* object storage, the engine that screens, and the advice on a portfolio. *)
(* They share the request threads and the clock.                           *)
(***************************************************************************)
EXTENDS ScreenerCache, CacheLayer, Readings, CdnPublish, Radar, PortfolioAdvice

VARIABLE focus  \* the part that this behaviour's requests are for

pagesVars == <<pool, clock, screenVars, layerVars, readingVars, cdnVars, engineVars, adviceVars, focus>>

Services == {"screener", "layer", "readings", "cdn", "engine", "advice"}

PagesInit ==
    /\ focus \in Services
    \* What a part does not use is the same in all behaviours of the others.
    /\ PoolInit
    /\ ClockInit /\ (focus \in {"cdn", "engine", "advice"} => now = CHOOSE n \in Opening : TRUE)
    /\ ScreenInit /\ (focus # "screener" => writes = <<>>)
    /\ LayerInit
    /\ ReadingsInit /\ (focus # "readings" => kind = "news")
    /\ CdnInit /\ (focus # "cdn" => \A k \in DOMAIN Keys : sections[k] = Empty)
    /\ EngineInit /\ (focus # "engine" => profile = CHOOSE p \in [Stocks -> Profiles] : TRUE)
    /\ AdviceInit /\ (focus # "advice" => \A n \in Names : held[n] = Nothing /\ match[n] = Nothing)
                  /\ (focus # "advice" => regime = "neutral")

PageVars == <<screenVars, layerVars, readingVars>>
AdvisorVars == <<engineVars, adviceVars>>

ScreenerStep == focus = "screener" /\ ScreenNext /\ UNCHANGED <<layerVars, readingVars, cdnVars, AdvisorVars>>
LayerStep == focus = "layer" /\ LayerNext /\ UNCHANGED <<screenVars, readingVars, cdnVars, AdvisorVars>>
ReadingsStep == focus = "readings" /\ ReadingsNext /\ UNCHANGED <<screenVars, layerVars, cdnVars, AdvisorVars>>
CdnStep == focus = "cdn" /\ CdnNext /\ UNCHANGED <<clock, PageVars, AdvisorVars>>
EngineStep == focus = "engine" /\ EngineNext /\ UNCHANGED <<clock, PageVars, cdnVars, adviceVars>>
AdviceStep == focus = "advice" /\ AdviceNext /\ UNCHANGED <<clock, PageVars, cdnVars, engineVars>>

PagesNext ==
    /\ ScreenerStep \/ LayerStep \/ ReadingsStep \/ CdnStep \/ EngineStep \/ AdviceStep
    /\ UNCHANGED focus

PagesSpec == PagesInit /\ [][PagesNext]_pagesVars

===============================================================================
