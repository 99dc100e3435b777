\* Four upstreams: two may cool down, one be excluded, while another waits.
SPECIFICATION Spec
CONSTANTS
    N = 4
    Algorithm = "roundrobin"
    Cooldown = 2
INVARIANTS
    NotOvertaken
