---- MODULE MCDeployment ----
EXTENDS Deployment
MCDBCredential == {"db"}
MCSatellite == {"coco"}
MCService == {"httpd"}
MCUnit == ServerUnit \cup ProxyUnit
MCSecret == ServerSecret \cup ProxySecret
MCPackaged == {"coco", "httpd"}
====
