---------------------------- MODULE MCGatewayHub ----------------------------
EXTENDS GatewayHub

\* Every feed is received, so that sendAll queues all three.
AllFeeds == [satellites |-> 2, conjunctions |-> 1, spaceWeather |-> 1]

\* Enough updates for a gap to show after an overflow.
ThreeSatellites == [satellites |-> 3, conjunctions |-> 0, spaceWeather |-> 0]
=============================================================================
