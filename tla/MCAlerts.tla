------------------------------- MODULE MCAlerts -------------------------------
EXTENDS Alerts
MCBefore == [k \in Kinds \cup {"Queue:DepthWarning"} |->
               CASE k = "Sync:Failure" -> "Sync" [] k = "Queue:DepthWarning" -> "Queue"
                 [] OTHER -> Plain]
===============================================================================
