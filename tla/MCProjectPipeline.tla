-------------------------- MODULE MCProjectPipeline --------------------------
(* Constant values for model-checking the project pipeline.                *)
EXTENDS ProjectPipeline

CONSTANTS html, css, js, swp

MCPaths == {html, css, js, swp}
MCExcluded == {swp}
MCStylesheets == {css}
==============================================================================
