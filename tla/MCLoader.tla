------------------------------ MODULE MCLoader ------------------------------
(***************************************************************************)
(* An image to hook and a plugin that may also export the symbol, asked    *)
(* for alone and together; two places to map them at, so that one can take *)
(* the other's. The plugin is not where the loader searches.               *)
(***************************************************************************)
EXTENDS Loader, TLC

CONSTANTS app, plugin

Images   == {app, plugin}
Either   == {{app}, {app, plugin}}
AllLists == {<<app>>, <<plugin>>, <<plugin, app>>}
=============================================================================
