----------------------------- MODULE MCSandbox -----------------------------
EXTENDS Sandbox

MCGoroutines == {"wait", "destroy"}
====
